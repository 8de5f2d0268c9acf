--------------------------- MODULE SessionsProofs ---------------------------
(***************************************************************************)
(* The write lock of a storage protects its write transaction, for any     *)
(* number of threads, sessions and storages with one writing thread for    *)
(* each storage, with the memory manager at work, with begins and merges   *)
(* that throw, and with commits and rollbacks taken step by step.          *)
(*                                                                         *)
(* TypeOK, CallsAreOwn and DepthCounts are about what a call is doing; the *)
(* other three parts are about transactions and the write lock, and only   *)
(* look at calls that are at "transaction" or at "reset".  That a storage  *)
(* has one writing thread is used in OneThread, which keeps others out of  *)
(* a handle while a transaction on it is ended.                            *)
(***************************************************************************)
EXTENDS Sessions, TLAPS

Steps == {"idle", "add", "get_writer", "add_writer", "make_writer", "begin", "lock", "start",
          "transaction", "discard", "merge", "release", "reset", "unlock"}

(* The parts of TypeOK.                                                    *)
CallTypes ==
    /\ d \in [Sessions -> Handles \cup {None}]
    /\ began \in [Sessions -> {"nothing", "read", "write"}]
    /\ made \subseteq Handles
    /\ mwriters \in Threads \cup {None}
    /\ manage_x \in Threads \cup {Manager, None}
    /\ pc \in [Threads -> Steps]
    /\ call \in [Threads -> Sessions \cup {None}]
    /\ mpc \in {"idle", "walk", "lock", "start", "check"}
    /\ todo \subseteq Handles
    /\ mh \in Handles \cup {None}

HandleTypes ==
    /\ transacted \in [Handles -> BOOLEAN]
    /\ tx \in [Handles -> {"none", "reader", "writer"}]
    /\ w_lock \in [Storages -> BOOLEAN]

LockTypes ==
    /\ resource_x \in [Handles -> Threads \cup {Manager, None}]
    /\ depth \in [Handles -> 0..MaxDepth]

(* Nobody arrives at "transaction" or leaves "reset", and those who are    *)
(* there keep their handle.                                                *)
NobodyArrives ==
    \A t \in Threads :
        /\ pc'[t] = "transaction" => pc[t] = "transaction" /\ d'[call'[t]] = d[call[t]]
        /\ pc[t] = "reset" => pc'[t] = "reset" /\ d'[call'[t]] = d[call[t]]

LockInv == ReadersNeverWrite /\ BeginnerIsAlone /\ WriterHoldsLock

LEMMA Parts ==
    WriteLockInv <=> /\ CallTypes /\ CallsAreOwn
                     /\ LockTypes /\ DepthCounts
                     /\ HandleTypes /\ LockInv
BY DEF WriteLockInv, LockInv, TypeOK, CallTypes, HandleTypes, LockTypes, Steps

(* The same after a step.                                                  *)
LEMMA PartsAfter ==
    CallTypes' /\ CallsAreOwn' /\ LockTypes' /\ DepthCounts' /\ HandleTypes' /\ LockInv'
        => WriteLockInv'
BY DEF WriteLockInv, LockInv, TypeOK, CallTypes, HandleTypes, LockTypes, Steps

LEMMA InitWriteLock == Init => WriteLockInv
<1> SUFFICES ASSUME Init PROVE WriteLockInv
  OBVIOUS
<1>1. TypeOK
  BY SessionsAssumption DEF Init, TypeOK, Handles
<1>2. CallsAreOwn /\ DepthCounts
  BY SessionsAssumption DEF Init, Handles, CallsAreOwn, DepthCounts
<1>3. ReadersNeverWrite /\ BeginnerIsAlone /\ WriterHoldsLock
  BY DEF Init, ReadersNeverWrite, BeginnerIsAlone, Beginning, In, WriterHoldsLock, Handles
<1> QED BY <1>1, <1>2, <1>3 DEF WriteLockInv

(* Two calls on the writer handle of one storage are of one thread.        *)
LEMMA OneThread ==
    ASSUME CallsAreOwn, NEW t \in Threads, NEW u \in Threads, NEW x \in Storages,
           pc[t] # "idle", pc[u] # "idle", d[call[t]] = x,
           \/ d[call[u]] = x
           \/ pc[u] = "make_writer" /\ Storage[call[u]] = x
    PROVE  t = u
<1>1. /\ call[t] \in Sessions /\ Runs[call[t]] = t
      /\ call[u] \in Sessions /\ Runs[call[u]] = u
  BY DEF CallsAreOwn
<1>2. call[t] \in Writers /\ Storage[call[t]] = x
  BY <1>1 DEF CallsAreOwn
<1>3. call[u] \in Writers /\ Storage[call[u]] = x
  BY <1>1 DEF CallsAreOwn
<1> QED BY <1>1, <1>2, <1>3, SessionsAssumption

-----------------------------------------------------------------------------
(* resource_x keeps its type and its count.                                *)
LEMMA LockKeeps ==
    ASSUME LockTypes, DepthCounts, NEW h \in Handles, NEW t \in Threads \cup {Manager},
           Lock(h, t) \/ Unlock(h, t) \/ UNCHANGED lockVars
    PROVE  LockTypes' /\ DepthCounts'
<1>1. CASE Lock(h, t)
  BY <1>1, SessionsAssumption DEF Lock, LockTypes, DepthCounts
<1>2. CASE Unlock(h, t)
  <2>1. CASE resource_x[h] = t
    <3>1. t # None /\ depth[h] > 0
      BY <2>1, SessionsAssumption DEF DepthCounts
    <3> QED BY <1>2, <2>1, <3>1, SessionsAssumption DEF Unlock, LockTypes, DepthCounts
  <2>2. CASE resource_x[h] # t
    BY <1>2, <2>2 DEF Unlock, lockVars, LockTypes, DepthCounts
  <2> QED BY <2>1, <2>2
<1>3. CASE UNCHANGED lockVars
  BY <1>3 DEF lockVars, LockTypes, DepthCounts
<1> QED BY <1>1, <1>2, <1>3

LEMMA NobodyStirs ==
    ASSUME NobodyArrives
    PROVE  /\ \A t \in Threads, x \in Storages : Beginning(t, x)' => Beginning(t, x)
           /\ \A t \in Threads, x \in Storages : In(t, x, {"reset"}) => In(t, x, {"reset"})'
BY DEF NobodyArrives, Beginning, In

(* A step that leaves those at "transaction" and "reset" where they are    *)
(* and changes no handle keeps the locks.                                  *)
LEMMA QuietKeeps ==
    ASSUME LockInv, UNCHANGED handleVars,
           NobodyArrives
    PROVE  LockInv'
<1>1. /\ \A t \in Threads, x \in Storages : Beginning(t, x)' => Beginning(t, x)
      /\ \A t \in Threads, x \in Storages : In(t, x, {"reset"}) => In(t, x, {"reset"})'
  BY NobodyStirs
<1> QED
  BY <1>1 DEF LockInv, ReadersNeverWrite, BeginnerIsAlone, WriterHoldsLock, handleVars

(* Rolling back a handle keeps the locks.                                  *)
LEMMA RollbackKeeps ==
    ASSUME HandleTypes, LockInv, NEW h \in Handles, StorageRollback(h),
           NobodyArrives
    PROVE  /\ LockInv'
           /\ HandleTypes'
<1>1. /\ \A t \in Threads, x \in Storages : Beginning(t, x)' => Beginning(t, x)
      /\ \A t \in Threads, x \in Storages : In(t, x, {"reset"}) => In(t, x, {"reset"})'
  BY NobodyStirs
<1>2. tx[h] = "writer" => h \in Storages /\ StorageOf(h) = h
  BY DEF LockInv, ReadersNeverWrite, StorageOf, Handles
<1>3. HandleTypes'
  <2>1. transacted' \in [Handles -> BOOLEAN]
    BY DEF StorageRollback, HandleTypes
  <2>2. tx' \in [Handles -> {"none", "reader", "writer"}]
    BY DEF StorageRollback, HandleTypes
  <2>3. w_lock' \in [Storages -> BOOLEAN]
    <3>1. w_lock' = w_lock \/ w_lock' = [w_lock EXCEPT ![StorageOf(h)] = FALSE]
      BY DEF StorageRollback
    <3>2. w_lock \in [Storages -> BOOLEAN]
      BY DEF HandleTypes
    <3>3. [w_lock EXCEPT ![StorageOf(h)] = FALSE] \in [Storages -> BOOLEAN]
      BY <3>2
    <3> QED BY <3>1, <3>2, <3>3
  <2> QED BY <2>1, <2>2, <2>3 DEF HandleTypes
<1>4. CASE tx[h] = "writer" /\ transacted[h]
  <2>1. /\ transacted' = [transacted EXCEPT ![h] = FALSE]
        /\ tx' = [tx EXCEPT ![h] = "none"]
        /\ w_lock' = [w_lock EXCEPT ![h] = FALSE]
    BY <1>2, <1>4 DEF StorageRollback
  <2>2. \A t \in Threads : ~Beginning(t, h)
    BY <1>2, <1>4 DEF LockInv, BeginnerIsAlone
  <2>3. ReadersNeverWrite'
    BY <2>1 DEF HandleTypes, LockInv, ReadersNeverWrite, Handles
  <2>4. BeginnerIsAlone'
    BY <1>1, <2>1, <2>2 DEF HandleTypes, LockInv, BeginnerIsAlone, Handles
  <2>5. WriterHoldsLock'
    BY <1>1, <2>1 DEF HandleTypes, LockInv, WriterHoldsLock, Handles
  <2> QED BY <1>3, <2>3, <2>4, <2>5 DEF LockInv
<1>5. CASE ~(tx[h] = "writer" /\ transacted[h])
  <2>1. /\ transacted' = [transacted EXCEPT ![h] = FALSE]
        /\ \A g \in Handles : tx'[g] = "writer" => tx[g] = "writer"
        /\ UNCHANGED w_lock
    BY <1>5 DEF StorageRollback, HandleTypes
  <2>2. ReadersNeverWrite'
    BY <2>1 DEF LockInv, ReadersNeverWrite, Handles
  <2>3. BeginnerIsAlone'
    BY <1>1, <2>1 DEF HandleTypes, LockInv, BeginnerIsAlone, Handles
  <2>4. WriterHoldsLock'
    BY <1>1, <2>1 DEF HandleTypes, LockInv, WriterHoldsLock, Handles
  <2> QED BY <1>3, <2>2, <2>3, <2>4 DEF LockInv
<1> QED BY <1>4, <1>5

-----------------------------------------------------------------------------
(* A step of one of four kinds: one that changes neither a handle nor its  *)
(* lock, ...                                                               *)
LEMMA QuietStep ==
    ASSUME WriteLockInv, CallTypes', CallsAreOwn', NobodyArrives,
           UNCHANGED handleVars, UNCHANGED lockVars
    PROVE  WriteLockInv'
<1>1. LockInv /\ LockTypes /\ DepthCounts /\ HandleTypes
  BY Parts
<1>2. LockInv'
  BY <1>1, QuietKeeps
<1>3. LockTypes' /\ DepthCounts' /\ HandleTypes'
  BY <1>1 DEF LockTypes, DepthCounts, HandleTypes, lockVars, handleVars
<1> QED BY <1>2, <1>3, PartsAfter

(* ... one that only locks or unlocks resource_x, ...                      *)
LEMMA LockStep ==
    ASSUME WriteLockInv, CallTypes', CallsAreOwn', NobodyArrives, UNCHANGED handleVars,
           NEW h \in Handles, NEW t \in Threads \cup {Manager}, Lock(h, t) \/ Unlock(h, t)
    PROVE  WriteLockInv'
<1>1. LockInv /\ LockTypes /\ DepthCounts /\ HandleTypes
  BY Parts
<1>2. LockInv'
  BY <1>1, QuietKeeps
<1>3. LockTypes' /\ DepthCounts'
  BY <1>1, LockKeeps
<1>4. HandleTypes'
  BY <1>1 DEF HandleTypes, handleVars
<1> QED BY <1>2, <1>3, <1>4, PartsAfter

(* ... or one that rolls a handle back and may unlock it.                  *)
LEMMA RollbackStep ==
    ASSUME WriteLockInv, CallTypes', CallsAreOwn', NobodyArrives,
           NEW h \in Handles, NEW t \in Threads \cup {Manager},
           StorageRollback(h), Unlock(h, t)
    PROVE  WriteLockInv'
<1>1. LockInv /\ LockTypes /\ DepthCounts /\ HandleTypes
  BY Parts
<1>2. LockInv' /\ HandleTypes'
  BY <1>1, RollbackKeeps
<1>3. LockTypes' /\ DepthCounts'
  BY <1>1, LockKeeps
<1> QED BY <1>2, <1>3, PartsAfter

LEMMA DbmsRollbackStep ==
    ASSUME WriteLockInv, CallTypes', CallsAreOwn', NobodyArrives,
           NEW h \in Handles, NEW t \in Threads \cup {Manager}, DbmsRollback(h, t)
    PROVE  WriteLockInv'
<1>1. CASE transacted[h]
  BY <1>1, RollbackStep DEF DbmsRollback
<1>2. CASE ~transacted[h]
  BY <1>2, QuietStep DEF DbmsRollback
<1> QED BY <1>1, <1>2

-----------------------------------------------------------------------------
(* Every action keeps the invariant.                                       *)
LEMMA OpenCalledKeeps ==
    ASSUME WriteLockInv, NEW s \in Sessions, OpenCalled(s)
    PROVE  WriteLockInv'
<1>1. CallTypes /\ CallsAreOwn
  BY Parts
<1>2. CallTypes'
  BY <1>1, SessionsAssumption DEF CallTypes, CallsAreOwn, OpenCalled, Enter, managerVars, Handles, Steps
<1>3. CallsAreOwn'
  BY <1>1, SessionsAssumption DEF CallTypes, CallsAreOwn, OpenCalled, Enter, managerVars, Handles
<1>4. NobodyArrives
  BY <1>1, SessionsAssumption DEF CallTypes, CallsAreOwn, NobodyArrives, OpenCalled, Enter
<1>5. UNCHANGED handleVars /\ UNCHANGED lockVars
  BY DEF OpenCalled
<1> QED BY <1>2, <1>3, <1>4, <1>5, QuietStep

LEMMA BeginCalledKeeps ==
    ASSUME WriteLockInv, NEW s \in Sessions, BeginCalled(s)
    PROVE  WriteLockInv'
<1>1. CallTypes /\ CallsAreOwn
  BY Parts
<1>2. CallTypes'
  BY <1>1, SessionsAssumption DEF CallTypes, CallsAreOwn, BeginCalled, Enter, managerVars, Handles, Steps
<1>3. CallsAreOwn'
  BY <1>1, SessionsAssumption DEF CallTypes, CallsAreOwn, BeginCalled, Enter, managerVars, Handles
<1>4. NobodyArrives
  BY <1>1, SessionsAssumption DEF CallTypes, CallsAreOwn, NobodyArrives, BeginCalled, Enter
<1>5. UNCHANGED handleVars /\ UNCHANGED lockVars
  BY DEF BeginCalled
<1> QED BY <1>2, <1>3, <1>4, <1>5, QuietStep

LEMMA CloseKeeps ==
    ASSUME WriteLockInv, NEW s \in Sessions, Close(s)
    PROVE  WriteLockInv'
<1>1. CallTypes /\ CallsAreOwn
  BY Parts
<1>2. CallTypes'
  BY <1>1, SessionsAssumption DEF CallTypes, CallsAreOwn, Close, managerVars, Handles, Steps
<1>3. CallsAreOwn'
  BY <1>1, SessionsAssumption DEF CallTypes, CallsAreOwn, Close, managerVars, Handles
<1>4. NobodyArrives
  BY <1>1, SessionsAssumption DEF CallTypes, CallsAreOwn, NobodyArrives, Close
<1>5. UNCHANGED handleVars /\ UNCHANGED lockVars
  BY DEF Close
<1> QED BY <1>2, <1>3, <1>4, <1>5, QuietStep

LEMMA AddReaderKeeps ==
    ASSUME WriteLockInv, NEW t \in Threads, AddReader(t)
    PROVE  WriteLockInv'
<1>1. CallTypes /\ CallsAreOwn
  BY Parts
<1>2. CallTypes'
  BY <1>1, SessionsAssumption DEF CallTypes, CallsAreOwn, AddReader, Return, managerVars, Handles, Steps
<1>3. CallsAreOwn'
  BY <1>1, SessionsAssumption DEF CallTypes, CallsAreOwn, AddReader, Return, managerVars, Handles
<1>4. NobodyArrives
  BY <1>1, SessionsAssumption DEF CallTypes, CallsAreOwn, NobodyArrives, AddReader, Return
<1>5. UNCHANGED handleVars /\ UNCHANGED lockVars
  BY DEF AddReader
<1> QED BY <1>2, <1>3, <1>4, <1>5, QuietStep

LEMMA AddReaderThrowsKeeps ==
    ASSUME WriteLockInv, NEW t \in Threads, AddReaderThrows(t)
    PROVE  WriteLockInv'
<1>1. CallTypes /\ CallsAreOwn
  BY Parts
<1>2. CallTypes'
  BY <1>1, SessionsAssumption DEF CallTypes, CallsAreOwn, AddReaderThrows, Return, managerVars, Handles, Steps
<1>3. CallsAreOwn'
  BY <1>1, SessionsAssumption DEF CallTypes, CallsAreOwn, AddReaderThrows, Return, managerVars, Handles
<1>4. NobodyArrives
  BY <1>1, SessionsAssumption DEF CallTypes, CallsAreOwn, NobodyArrives, AddReaderThrows, Return
<1>5. UNCHANGED handleVars /\ UNCHANGED lockVars
  BY DEF AddReaderThrows
<1> QED BY <1>2, <1>3, <1>4, <1>5, QuietStep

LEMMA GetWriterKeeps ==
    ASSUME WriteLockInv, NEW t \in Threads, GetWriter(t)
    PROVE  WriteLockInv'
<1>1. CallTypes /\ CallsAreOwn
  BY Parts
<1>2. CallTypes'
  BY <1>1, SessionsAssumption DEF CallTypes, CallsAreOwn, GetWriter, managerVars, Handles, Steps
<1>3. CallsAreOwn'
  BY <1>1, SessionsAssumption DEF CallTypes, CallsAreOwn, GetWriter, managerVars, Handles
<1>4. NobodyArrives
  BY <1>1, SessionsAssumption DEF CallTypes, CallsAreOwn, NobodyArrives, GetWriter
<1>5. UNCHANGED handleVars /\ UNCHANGED lockVars
  BY DEF GetWriter
<1> QED BY <1>2, <1>3, <1>4, <1>5, QuietStep

LEMMA AddWriterKeeps ==
    ASSUME WriteLockInv, NEW t \in Threads, AddWriter(t)
    PROVE  WriteLockInv'
<1>1. CallTypes /\ CallsAreOwn
  BY Parts
<1>2. CallTypes'
  BY <1>1, SessionsAssumption DEF CallTypes, CallsAreOwn, AddWriter, managerVars, Handles, Steps
<1>3. CallsAreOwn'
  BY <1>1, SessionsAssumption DEF CallTypes, CallsAreOwn, AddWriter, managerVars, Handles
<1>4. NobodyArrives
  BY <1>1, SessionsAssumption DEF CallTypes, CallsAreOwn, NobodyArrives, AddWriter
<1>5. UNCHANGED handleVars /\ UNCHANGED lockVars
  BY DEF AddWriter
<1> QED BY <1>2, <1>3, <1>4, <1>5, QuietStep

LEMMA MakeWriterKeeps ==
    ASSUME WriteLockInv, NEW t \in Threads, MakeWriter(t)
    PROVE  WriteLockInv'
<1>1. CallTypes /\ CallsAreOwn
  BY Parts
<1>2. CallTypes'
  BY <1>1, SessionsAssumption DEF CallTypes, CallsAreOwn, MakeWriter, managerVars, Handles, Steps
<1>3. CallsAreOwn'
  BY <1>1, SessionsAssumption DEF CallTypes, CallsAreOwn, MakeWriter, managerVars, Handles
<1>4. NobodyArrives
  BY <1>1, SessionsAssumption DEF CallTypes, CallsAreOwn, NobodyArrives, MakeWriter
<1>5. UNCHANGED handleVars /\ UNCHANGED lockVars
  BY DEF MakeWriter
<1> QED BY <1>2, <1>3, <1>4, <1>5, QuietStep

LEMMA BeginTestKeeps ==
    ASSUME WriteLockInv, NEW t \in Threads, BeginTest(t)
    PROVE  WriteLockInv'
<1>1. CallTypes /\ CallsAreOwn
  BY Parts
<1>2. CallTypes'
  BY <1>1, SessionsAssumption DEF CallTypes, CallsAreOwn, BeginTest, Begun, Return, managerVars, Handles, Steps
<1>3. CallsAreOwn'
  BY <1>1, SessionsAssumption DEF CallTypes, CallsAreOwn, BeginTest, Return, managerVars, Handles
<1>4. NobodyArrives
  BY <1>1, SessionsAssumption DEF CallTypes, CallsAreOwn, NobodyArrives, BeginTest, Return
<1>5. UNCHANGED handleVars /\ UNCHANGED lockVars
  BY DEF BeginTest
<1> QED BY <1>2, <1>3, <1>4, <1>5, QuietStep

LEMMA BeginThrowsKeeps ==
    ASSUME WriteLockInv, NEW t \in Threads, BeginThrows(t)
    PROVE  WriteLockInv'
<1>1. CallTypes /\ CallsAreOwn
  BY Parts
<1>2. CallTypes'
  BY <1>1, SessionsAssumption DEF CallTypes, CallsAreOwn, BeginThrows, Return, managerVars, Handles, Steps
<1>3. CallsAreOwn'
  BY <1>1, SessionsAssumption DEF CallTypes, CallsAreOwn, BeginThrows, Return, managerVars, Handles
<1>4. NobodyArrives
  BY <1>1, SessionsAssumption DEF CallTypes, CallsAreOwn, NobodyArrives, BeginThrows, Return
<1>5. UNCHANGED handleVars /\ UNCHANGED lockVars
  BY DEF BeginThrows
<1> QED BY <1>2, <1>3, <1>4, <1>5, QuietStep

LEMMA ManageMemoryKeeps ==
    ASSUME WriteLockInv, ManageMemory
    PROVE  WriteLockInv'
<1>1. CallTypes /\ CallsAreOwn
  BY Parts
<1>2. CallTypes'
  BY <1>1, SessionsAssumption DEF CallTypes, CallsAreOwn, ManageMemory, managerVars, Handles, Steps
<1>3. CallsAreOwn'
  BY <1>1, SessionsAssumption DEF CallTypes, CallsAreOwn, ManageMemory, managerVars, Handles
<1>4. NobodyArrives
  BY <1>1, SessionsAssumption DEF CallTypes, CallsAreOwn, NobodyArrives, ManageMemory
<1>5. UNCHANGED handleVars /\ UNCHANGED lockVars
  BY DEF ManageMemory
<1> QED BY <1>2, <1>3, <1>4, <1>5, QuietStep

LEMMA VisitKeeps ==
    ASSUME WriteLockInv, NEW h \in Handles, Visit(h)
    PROVE  WriteLockInv'
<1>1. CallTypes /\ CallsAreOwn
  BY Parts
<1>2. CallTypes'
  BY <1>1, SessionsAssumption DEF CallTypes, CallsAreOwn, Visit, managerVars, Handles, Steps
<1>3. CallsAreOwn'
  BY <1>1, SessionsAssumption DEF CallTypes, CallsAreOwn, Visit, managerVars, Handles
<1>4. NobodyArrives
  BY <1>1, SessionsAssumption DEF CallTypes, CallsAreOwn, NobodyArrives, Visit
<1>5. UNCHANGED handleVars /\ UNCHANGED lockVars
  BY DEF Visit
<1> QED BY <1>2, <1>3, <1>4, <1>5, QuietStep

LEMMA ManagerAgainKeeps ==
    ASSUME WriteLockInv, ManagerAgain
    PROVE  WriteLockInv'
<1>1. CallTypes /\ CallsAreOwn
  BY Parts
<1>2. CallTypes'
  BY <1>1, SessionsAssumption DEF CallTypes, CallsAreOwn, ManagerAgain, managerVars, Handles, Steps
<1>3. CallsAreOwn'
  BY <1>1, SessionsAssumption DEF CallTypes, CallsAreOwn, ManagerAgain, managerVars, Handles
<1>4. NobodyArrives
  BY <1>1, SessionsAssumption DEF CallTypes, CallsAreOwn, NobodyArrives, ManagerAgain
<1>5. UNCHANGED handleVars /\ UNCHANGED lockVars
  BY DEF ManagerAgain
<1> QED BY <1>2, <1>3, <1>4, <1>5, QuietStep

LEMMA ManagerDoneKeeps ==
    ASSUME WriteLockInv, ManagerDone
    PROVE  WriteLockInv'
<1>1. CallTypes /\ CallsAreOwn
  BY Parts
<1>2. CallTypes'
  BY <1>1, SessionsAssumption DEF CallTypes, CallsAreOwn, ManagerDone, managerVars, Handles, Steps
<1>3. CallsAreOwn'
  BY <1>1, SessionsAssumption DEF CallTypes, CallsAreOwn, ManagerDone, managerVars, Handles
<1>4. NobodyArrives
  BY <1>1, SessionsAssumption DEF CallTypes, CallsAreOwn, NobodyArrives, ManagerDone
<1>5. UNCHANGED handleVars /\ UNCHANGED lockVars
  BY DEF ManagerDone
<1> QED BY <1>2, <1>3, <1>4, <1>5, QuietStep

LEMMA BeginLockKeeps ==
    ASSUME WriteLockInv, NEW t \in Threads, BeginLock(t)
    PROVE  WriteLockInv'
<1>1. CallTypes /\ CallsAreOwn
  BY Parts
<1>2. CallTypes'
  BY <1>1, SessionsAssumption DEF CallTypes, CallsAreOwn, BeginLock, managerVars, Handles, Steps
<1>3. CallsAreOwn'
  BY <1>1, SessionsAssumption DEF CallTypes, CallsAreOwn, BeginLock, managerVars, Handles
<1>4. NobodyArrives
  BY <1>1, SessionsAssumption DEF CallTypes, CallsAreOwn, NobodyArrives, BeginLock
<1>5. d[call[t]] \in Handles /\ Lock(d[call[t]], t) /\ UNCHANGED handleVars
  BY <1>1 DEF CallsAreOwn, BeginLock
<1> QED BY <1>2, <1>3, <1>4, <1>5, LockStep



LEMMA CommitThrowsKeeps ==
    ASSUME WriteLockInv, NEW t \in Threads, CommitThrows(t)
    PROVE  WriteLockInv'
<1>1. CallTypes /\ CallsAreOwn
  BY Parts
<1>2. CallTypes'
  BY <1>1, SessionsAssumption DEF CallTypes, CallsAreOwn, CommitThrows, Return, managerVars, Handles, Steps
<1>3. CallsAreOwn'
  BY <1>1, SessionsAssumption DEF CallTypes, CallsAreOwn, CommitThrows, Return, managerVars, Handles
<1>4. NobodyArrives
  BY <1>1, SessionsAssumption DEF CallTypes, CallsAreOwn, NobodyArrives, CommitThrows, Return
<1>5. d[call[t]] \in Handles /\ Unlock(d[call[t]], t) /\ UNCHANGED handleVars
  BY <1>1 DEF CallsAreOwn, CommitThrows
<1> QED BY <1>2, <1>3, <1>4, <1>5, LockStep

LEMMA EndUnlockKeeps ==
    ASSUME WriteLockInv, NEW t \in Threads, EndUnlock(t)
    PROVE  WriteLockInv'
<1>1. CallTypes /\ CallsAreOwn
  BY Parts
<1>2. CallTypes'
  BY <1>1, SessionsAssumption DEF CallTypes, CallsAreOwn, EndUnlock, Return, managerVars, Handles, Steps
<1>3. CallsAreOwn'
  BY <1>1, SessionsAssumption DEF CallTypes, CallsAreOwn, EndUnlock, Return, managerVars, Handles
<1>4. NobodyArrives
  BY <1>1, SessionsAssumption DEF CallTypes, CallsAreOwn, NobodyArrives, EndUnlock, Return
<1>5. d[call[t]] \in Handles /\ Unlock(d[call[t]], t) /\ UNCHANGED handleVars
  BY <1>1 DEF CallsAreOwn, EndUnlock
<1> QED BY <1>2, <1>3, <1>4, <1>5, LockStep

LEMMA CommitMergeKeeps ==
    ASSUME WriteLockInv, NEW t \in Threads, CommitMerge(t)
    PROVE  WriteLockInv'
<1>1. CallTypes /\ CallsAreOwn
  BY Parts
<1>2. CallTypes'
  BY <1>1, SessionsAssumption DEF CallTypes, CallsAreOwn, CommitMerge, Ends, managerVars, Handles, Steps
<1>3. CallsAreOwn'
  BY <1>1, SessionsAssumption DEF CallTypes, CallsAreOwn, CommitMerge, Ends, managerVars, Handles
<1>4. NobodyArrives
  BY <1>1, SessionsAssumption DEF CallTypes, CallsAreOwn, NobodyArrives, CommitMerge, Ends
<1>5. UNCHANGED handleVars /\ UNCHANGED lockVars
  BY DEF CommitMerge, Ends
<1> QED BY <1>2, <1>3, <1>4, <1>5, QuietStep

LEMMA EndKeeps ==
    ASSUME WriteLockInv, NEW s \in Sessions, RollbackCalled(s) \/ CommitCalled(s)
    PROVE  WriteLockInv'
<1>1. CallTypes /\ CallsAreOwn
  BY Parts
<1>2. CallTypes'
  BY <1>1, SessionsAssumption
     DEF CallTypes, RollbackCalled, CommitCalled, End, Enter, managerVars, Steps
<1>3. CallsAreOwn' /\ NobodyArrives
  BY <1>1, SessionsAssumption
     DEF CallTypes, CallsAreOwn, NobodyArrives, RollbackCalled, CommitCalled, End, Enter,
         IsWriter, managerVars, Handles
<1>4. \/ UNCHANGED handleVars /\ UNCHANGED lockVars
      \/ d[s] \in Handles /\ DbmsRollback(d[s], Runs[s]) /\ Runs[s] \in Threads
  BY <1>1, SessionsAssumption DEF CallTypes, RollbackCalled, CommitCalled, End
<1> QED BY <1>2, <1>3, <1>4, QuietStep, DbmsRollbackStep

LEMMA ManagerLockKeeps ==
    ASSUME WriteLockInv, ManagerLock
    PROVE  WriteLockInv'
<1>1. CallTypes /\ CallsAreOwn
  BY Parts
<1>2. CallTypes'
  BY <1>1, SessionsAssumption DEF CallTypes, CallsAreOwn, ManagerLock, managerVars, Handles, Steps
<1>3. CallsAreOwn'
  BY <1>1, SessionsAssumption DEF CallTypes, CallsAreOwn, ManagerLock, managerVars, Handles
<1>4. NobodyArrives
  BY <1>1, SessionsAssumption DEF CallTypes, CallsAreOwn, NobodyArrives, ManagerLock
<1>5. mh \in Handles /\ Lock(mh, Manager) /\ UNCHANGED handleVars
  BY <1>1 DEF CallsAreOwn, ManagerLock
<1> QED BY <1>2, <1>3, <1>4, <1>5, LockStep

LEMMA ManagerRollbackKeeps ==
    ASSUME WriteLockInv, ManagerRollback
    PROVE  WriteLockInv'
<1>1. CallTypes /\ CallsAreOwn
  BY Parts
<1>2. CallTypes'
  BY <1>1, SessionsAssumption DEF CallTypes, CallsAreOwn, ManagerRollback, managerVars, Handles, Steps
<1>3. CallsAreOwn'
  BY <1>1, SessionsAssumption DEF CallTypes, CallsAreOwn, ManagerRollback, managerVars, Handles
<1>4. NobodyArrives
  BY <1>1, SessionsAssumption DEF CallTypes, CallsAreOwn, NobodyArrives, ManagerRollback
<1>5. mh \in Handles /\ StorageRollback(mh) /\ Unlock(mh, Manager)
  BY <1>1 DEF CallsAreOwn, ManagerRollback
<1> QED BY <1>2, <1>3, <1>4, <1>5, RollbackStep

(* A reader's transaction needs no write lock.                             *)
LEMMA ManagerBeginKeeps ==
    ASSUME WriteLockInv, ManagerBegin
    PROVE  WriteLockInv'
<1>1. /\ CallTypes /\ CallsAreOwn /\ LockTypes /\ DepthCounts /\ HandleTypes /\ LockInv
      /\ mh \in Handles
  BY Parts DEF CallsAreOwn, ManagerBegin
<1>2. CallTypes' /\ CallsAreOwn' /\ NobodyArrives
  BY <1>1 DEF CallTypes, CallsAreOwn, NobodyArrives, ManagerBegin
<1>3. LockTypes' /\ DepthCounts'
  BY <1>1 DEF LockTypes, DepthCounts, ManagerBegin, lockVars
<1>4. CASE tx[mh] = "none"
  <2>1. /\ tx' = [tx EXCEPT ![mh] = "reader"]
        /\ transacted' = [transacted EXCEPT ![mh] = TRUE]
        /\ w_lock' = w_lock
    BY <1>4 DEF ManagerBegin
  <2>2. HandleTypes'
    BY <1>1, <2>1 DEF HandleTypes
  <2>3. /\ \A t \in Threads, x \in Storages : Beginning(t, x)' => Beginning(t, x)
        /\ \A t \in Threads, x \in Storages : In(t, x, {"reset"}) => In(t, x, {"reset"})'
    BY <1>2, NobodyStirs
  <2>4. ReadersNeverWrite' /\ WriterHoldsLock'
    BY <1>1, <2>1, <2>3 DEF HandleTypes, LockInv, ReadersNeverWrite, WriterHoldsLock, Handles
  <2>5. BeginnerIsAlone'
    BY <1>1, <2>1, <2>3 DEF HandleTypes, LockInv, BeginnerIsAlone, Handles
  <2> QED BY <1>2, <1>3, <2>2, <2>4, <2>5, PartsAfter DEF LockInv
<1>5. CASE tx[mh] # "none"
  <2>1. UNCHANGED handleVars /\ UNCHANGED lockVars
    BY <1>5 DEF ManagerBegin, handleVars
  <2> QED BY <1>2, <2>1, QuietStep
<1> QED BY <1>4, <1>5

(* The write lock was free: nobody was writing or beginning to.            *)
LEMMA MakeWriterThrowsKeeps ==
    ASSUME WriteLockInv, NEW t \in Threads, MakeWriterThrows(t)
    PROVE  WriteLockInv'
<1> DEFINE x == Storage[call[t]]
<1>1. CallTypes /\ CallsAreOwn /\ LockTypes /\ DepthCounts /\ HandleTypes /\ LockInv
  BY Parts
<1>2. CallTypes' /\ CallsAreOwn' /\ NobodyArrives
  BY <1>1, SessionsAssumption
     DEF CallTypes, CallsAreOwn, NobodyArrives, MakeWriterThrows, Return, managerVars, Steps
<1>3. LockTypes' /\ DepthCounts'
  BY <1>1 DEF LockTypes, DepthCounts, MakeWriterThrows, lockVars
<1>4. /\ w_lock' = [w_lock EXCEPT ![x] = TRUE]
      /\ UNCHANGED <<transacted, tx>>
  BY DEF MakeWriterThrows
<1>5. HandleTypes'
  BY <1>1, <1>4 DEF HandleTypes
<1>6. /\ \A u \in Threads, y \in Storages : Beginning(u, y)' => Beginning(u, y)
      /\ \A u \in Threads, y \in Storages : In(u, y, {"reset"}) => In(u, y, {"reset"})'
  BY <1>2, NobodyStirs
<1> HIDE DEF x
<1>7. LockInv'
  BY <1>1, <1>4, <1>6
     DEF HandleTypes, LockInv, ReadersNeverWrite, BeginnerIsAlone, WriterHoldsLock
<1> QED BY <1>2, <1>3, <1>5, <1>7, PartsAfter

LEMMA BeginWriterCalledKeeps ==
    ASSUME WriteLockInv, NEW s \in Sessions, BeginWriterCalled(s)
    PROVE  WriteLockInv'
<1>1. CallTypes /\ CallsAreOwn
  BY Parts
<1>2. CallTypes'
  BY <1>1, SessionsAssumption
     DEF CallTypes, BeginWriterCalled, Enter, managerVars, Steps
<1>3. CallsAreOwn' /\ NobodyArrives
  BY <1>1, SessionsAssumption
     DEF CallTypes, CallsAreOwn, NobodyArrives, BeginWriterCalled, Enter, managerVars
<1>4. d[s] \in Handles /\ Runs[s] \in Threads
  BY <1>1, SessionsAssumption DEF CallTypes, BeginWriterCalled
<1>5. CASE IsWriter(d[s])
  <2>1. UNCHANGED handleVars /\ UNCHANGED lockVars
    BY <1>5 DEF BeginWriterCalled
  <2> QED BY <1>2, <1>3, <2>1, QuietStep
<1>6. CASE ~IsWriter(d[s])
  <2>1. DbmsRollback(d[s], Runs[s])
    BY <1>6 DEF BeginWriterCalled
  <2> QED BY <1>2, <1>3, <1>4, <2>1, DbmsRollbackStep
<1> QED BY <1>5, <1>6

(* A transaction that is ended gives up the write lock, ...                *)
LEMMA DiscardKeeps ==
    ASSUME WriteLockInv, NEW t \in Threads, Discard(t)
    PROVE  WriteLockInv'
<1>1. CallTypes /\ CallsAreOwn /\ LockTypes /\ DepthCounts /\ HandleTypes /\ LockInv
  BY Parts
<1>2. CallTypes' /\ CallsAreOwn' /\ NobodyArrives
  BY <1>1, SessionsAssumption
     DEF CallTypes, CallsAreOwn, NobodyArrives, Discard, Ends, managerVars, Steps
<1>3. LockTypes' /\ DepthCounts'
  BY <1>1 DEF LockTypes, DepthCounts, Discard, Ends, lockVars
<1>4. HandleTypes' /\ UNCHANGED <<transacted, w_lock>>
  BY <1>1 DEF HandleTypes, Discard
<1>5. \A g \in Handles : tx'[g] = "writer" => tx[g] = "writer"
  BY <1>1 DEF HandleTypes, Discard
<1>6. /\ \A u \in Threads, x \in Storages : Beginning(u, x)' => Beginning(u, x)
      /\ \A u \in Threads, x \in Storages : In(u, x, {"reset"}) => In(u, x, {"reset"})'
  BY <1>2, NobodyStirs
<1>7. LockInv'
  BY <1>1, <1>4, <1>5, <1>6
     DEF LockInv, ReadersNeverWrite, BeginnerIsAlone, WriterHoldsLock, Handles
<1> QED BY <1>2, <1>3, <1>4, <1>7, PartsAfter

(* ... which nobody else takes for a transaction of his own, ...           *)
LEMMA ReleaseKeeps ==
    ASSUME WriteLockInv, NEW t \in Threads, Release(t)
    PROVE  WriteLockInv'
<1>1. /\ CallTypes /\ CallsAreOwn /\ LockTypes /\ DepthCounts /\ HandleTypes /\ LockInv
      /\ pc[t] = "release"
  BY Parts DEF Release, Ends
<1>2. PICK h \in Storages : h = d[call[t]]
  BY <1>1 DEF CallsAreOwn
<1>3. CallTypes' /\ CallsAreOwn'
  BY <1>1, SessionsAssumption DEF CallTypes, CallsAreOwn, Release, Ends, managerVars, Steps
<1>4. LockTypes' /\ DepthCounts'
  BY <1>1 DEF LockTypes, DepthCounts, Release, Ends, lockVars
<1>5. /\ w_lock' = [w_lock EXCEPT ![h] = FALSE] /\ UNCHANGED <<transacted, tx, d, call>>
      /\ pc' = [pc EXCEPT ![t] = "reset"]
  BY <1>2 DEF Release, Ends
<1>6. /\ \A u \in Threads, x \in Storages : Beginning(u, x)' => Beginning(u, x)
      /\ \A u \in Threads, x \in Storages : In(u, x, {"reset"}) => In(u, x, {"reset"})'
      /\ In(t, h, {"reset"})'
  BY <1>1, <1>2, <1>5 DEF CallTypes, Beginning, In
<1>7. ASSUME NEW u \in Threads, Beginning(u, h) PROVE FALSE
  <2>1. pc[u] = "transaction" /\ d[call[u]] = h
    BY <1>7 DEF Beginning, In
  <2> QED BY <1>1, <1>2, <2>1, OneThread
<1>8. HandleTypes' /\ ~w_lock'[h] /\ \A x \in Storages : x # h => w_lock'[x] = w_lock[x]
  BY <1>1, <1>5 DEF HandleTypes
<1>9. ReadersNeverWrite' /\ WriterHoldsLock'
  BY <1>1, <1>5, <1>6, <1>8 DEF LockInv, ReadersNeverWrite, WriterHoldsLock
<1>10. BeginnerIsAlone'
  BY <1>1, <1>5, <1>6, <1>7, <1>8 DEF LockInv, BeginnerIsAlone
<1> QED BY <1>3, <1>4, <1>8, <1>9, <1>10, PartsAfter DEF LockInv

(* ... and is then no longer underway.                                     *)
LEMMA ResetKeeps ==
    ASSUME WriteLockInv, NEW t \in Threads, Reset(t)
    PROVE  WriteLockInv'
<1>1. /\ CallTypes /\ CallsAreOwn /\ LockTypes /\ DepthCounts /\ HandleTypes /\ LockInv
      /\ pc[t] = "reset"
  BY Parts DEF Reset, Ends
<1>2. PICK h \in Storages : h = d[call[t]]
  BY <1>1 DEF CallsAreOwn
<1>3. CallTypes' /\ CallsAreOwn'
  BY <1>1, SessionsAssumption DEF CallTypes, CallsAreOwn, Reset, Ends, managerVars, Steps
<1>4. LockTypes' /\ DepthCounts'
  BY <1>1 DEF LockTypes, DepthCounts, Reset, Ends, lockVars
<1>5. /\ transacted' = [transacted EXCEPT ![h] = FALSE] /\ UNCHANGED <<tx, w_lock, d, call>>
      /\ pc' = [pc EXCEPT ![t] = "unlock"]
  BY <1>2 DEF Reset, Ends
<1>6. /\ \A u \in Threads, x \in Storages : Beginning(u, x)' => Beginning(u, x)
      /\ \A u \in Threads, x \in Storages :
            x # h /\ In(u, x, {"reset"}) => In(u, x, {"reset"})'
  BY <1>1, <1>2, <1>5 DEF CallTypes, Beginning, In
<1>7. HandleTypes' /\ ~transacted'[h] /\ \A x \in Storages : x # h => transacted'[x] = transacted[x]
  BY <1>1, <1>5 DEF HandleTypes, Handles
<1>8. ReadersNeverWrite' /\ WriterHoldsLock'
  BY <1>1, <1>5, <1>6, <1>7 DEF LockInv, ReadersNeverWrite, WriterHoldsLock
<1>9. BeginnerIsAlone'
  BY <1>1, <1>5, <1>6, <1>7 DEF LockInv, BeginnerIsAlone
<1> QED BY <1>3, <1>4, <1>7, <1>8, <1>9, PartsAfter DEF LockInv

(* The write lock was free, so that the thread that takes it is alone.     *)
LEMMA BeginStartKeeps ==
    ASSUME WriteLockInv, NEW t \in Threads, BeginStart(t)
    PROVE  WriteLockInv'
<1> DEFINE h == d[call[t]]
<1>1. /\ CallTypes /\ CallsAreOwn /\ LockTypes /\ DepthCounts /\ HandleTypes /\ LockInv
      /\ h \in Handles /\ pc[t] = "start" /\ call[t] \in Sessions
  BY Parts DEF CallsAreOwn, BeginStart
<1>2. CallTypes'
  BY <1>1 DEF CallTypes, BeginStart, Begun, Return, managerVars, Steps
<1>3. CallsAreOwn'
  BY <1>1 DEF CallTypes, CallsAreOwn, BeginStart, Return, managerVars
<1>4. CASE NeedsBegin(h)
  <2>1. /\ h \in Storages => ~w_lock[h]
        /\ w_lock' = [x \in Storages |-> w_lock[x] \/ x = h]
        /\ tx' = IF transacted[h] THEN [tx EXCEPT ![h] = "none"] ELSE tx
        /\ transacted' = [transacted EXCEPT ![h] = FALSE]
        /\ pc' = [pc EXCEPT ![t] = "transaction"]
        /\ d' = d /\ call' = call /\ UNCHANGED lockVars
    BY <1>4 DEF BeginStart, IsWriter
  <2>2. /\ \A u \in Threads, x \in Storages :
              Beginning(u, x)' <=> Beginning(u, x) \/ (u = t /\ x = h)
        /\ \A u \in Threads, x \in Storages : In(u, x, {"reset"}) => In(u, x, {"reset"})'
    BY <1>1, <2>1 DEF CallTypes, Beginning, In
  <2> HIDE DEF h
  <2>3. HandleTypes'
    BY <1>1, <2>1 DEF HandleTypes
  <2>4. /\ \A x \in Storages : x # h => /\ w_lock'[x] = w_lock[x]
                                        /\ tx'[x] = tx[x]
                                        /\ transacted'[x] = transacted[x]
        /\ h \in Storages => w_lock'[h] = TRUE
        /\ ~transacted'[h]
    <3>1. \A x \in Storages : x # h => /\ tx'[x] = tx[x]
                                      /\ transacted'[x] = transacted[x]
      BY <1>1, <2>1 DEF HandleTypes, Handles
    <3>2. \A x \in Storages : x # h => w_lock'[x] = w_lock[x]
      BY <1>1, <2>1 DEF HandleTypes
    <3>3. (h \in Storages => w_lock'[h] = TRUE) /\ ~transacted'[h]
      BY <1>1, <2>1 DEF HandleTypes
    <3> QED BY <3>1, <3>2, <3>3
  <2>5. h \in Storages => \A u \in Threads : ~Beginning(u, h)
    BY <1>1, <2>1 DEF LockInv, BeginnerIsAlone
  <2>6. ReadersNeverWrite'
    BY <1>1, <2>1 DEF HandleTypes, LockInv, ReadersNeverWrite, Handles
  <2>7. WriterHoldsLock'
    BY <1>1, <2>2, <2>4 DEF LockInv, WriterHoldsLock
  <2>8. BeginnerIsAlone'
    BY <1>1, <2>2, <2>4, <2>5 DEF LockInv, BeginnerIsAlone
  <2>9. LockTypes' /\ DepthCounts'
    BY <1>1, <2>1 DEF LockTypes, DepthCounts, lockVars
  <2> QED BY <1>2, <1>3, <2>3, <2>6, <2>7, <2>8, <2>9, PartsAfter DEF LockInv
<1>5. CASE ~NeedsBegin(h)
  <2>1. UNCHANGED handleVars /\ UNCHANGED lockVars
    BY <1>5 DEF BeginStart
  <2>2. NobodyArrives
    BY <1>1, <1>5, SessionsAssumption
       DEF CallTypes, CallsAreOwn, NobodyArrives, BeginStart, Return
  <2> QED BY <1>2, <1>3, <2>1, <2>2, QuietStep
<1> QED BY <1>4, <1>5

(* A write transaction is begun under the write lock that was taken for it.*)
LEMMA BeginTransactionKeeps ==
    ASSUME WriteLockInv, NEW t \in Threads, BeginTransaction(t)
    PROVE  WriteLockInv'
<1> DEFINE h == d[call[t]]
<1>1. /\ CallTypes /\ CallsAreOwn /\ LockTypes /\ DepthCounts /\ HandleTypes /\ LockInv
      /\ h \in Handles /\ pc[t] = "transaction" /\ call[t] \in Sessions
  BY Parts DEF CallsAreOwn, BeginTransaction
<1>2. CallTypes'
  BY <1>1 DEF CallTypes, BeginTransaction, Begun, Return, managerVars, Steps
<1>3. CallsAreOwn'
  BY <1>1 DEF CallTypes, CallsAreOwn, BeginTransaction, Return, managerVars
<1>4. /\ tx' = [tx EXCEPT ![h] = IF @ # "none" THEN @
                                ELSE IF IsWriter(h) THEN "writer" ELSE "reader"]
      /\ transacted' = [transacted EXCEPT ![h] = TRUE]
      /\ w_lock' = w_lock /\ d' = d /\ UNCHANGED lockVars
      /\ pc' = [pc EXCEPT ![t] = "idle"] /\ call' = [call EXCEPT ![t] = None]
  BY DEF BeginTransaction, Return
<1>5. /\ \A u \in Threads, x \in Storages : Beginning(u, x)' => Beginning(u, x) /\ u # t
      /\ \A u \in Threads, x \in Storages : In(u, x, {"reset"}) => In(u, x, {"reset"})'
  BY <1>1, <1>4 DEF CallTypes, Beginning, In
<1>6. Beginning(t, h)
  BY <1>1 DEF Beginning, In
<1> HIDE DEF h
<1>7. HandleTypes'
  BY <1>1, <1>4 DEF HandleTypes
<1>8. h \in Storages => /\ w_lock[h]
                        /\ \A u \in Threads : Beginning(u, h) => u = t
  BY <1>1, <1>6 DEF LockInv, BeginnerIsAlone
<1>9. \A x \in Handles : x # h => tx'[x] = tx[x] /\ transacted'[x] = transacted[x]
  BY <1>1, <1>4 DEF HandleTypes
<1>10. ReadersNeverWrite'
  BY <1>1, <1>4, SessionsAssumption
     DEF HandleTypes, LockInv, ReadersNeverWrite, IsWriter, Handles
<1>11. WriterHoldsLock'
  BY <1>1, <1>4, <1>5, <1>8, <1>9 DEF LockInv, WriterHoldsLock, Handles
<1>12. BeginnerIsAlone'
  BY <1>1, <1>4, <1>5, <1>8, <1>9 DEF LockInv, BeginnerIsAlone, Handles
<1>13. LockTypes' /\ DepthCounts'
  BY <1>1, <1>4 DEF LockTypes, DepthCounts, lockVars
<1> QED BY <1>2, <1>3, <1>7, <1>10, <1>11, <1>12, <1>13, PartsAfter DEF LockInv

-----------------------------------------------------------------------------
LEMMA ThreadStepKeeps ==
    ASSUME WriteLockInv, NEW t \in Threads, ThreadStep(t)
    PROVE  WriteLockInv'
BY AddReaderKeeps, AddReaderThrowsKeeps, GetWriterKeeps, AddWriterKeeps, MakeWriterKeeps,
   MakeWriterThrowsKeeps, BeginTestKeeps, BeginLockKeeps, BeginStartKeeps,
   BeginTransactionKeeps, BeginThrowsKeeps, DiscardKeeps, CommitMergeKeeps,
   CommitThrowsKeeps, ReleaseKeeps, ResetKeeps, EndUnlockKeeps DEF ThreadStep

LEMMA ManagerStepKeeps ==
    ASSUME WriteLockInv, ManagerStep
    PROVE  WriteLockInv'
BY VisitKeeps, ManagerLockKeeps, ManagerBeginKeeps, ManagerRollbackKeeps, ManagerDoneKeeps
   DEF ManagerStep

LEMMA NextKeeps ==
    ASSUME WriteLockInv, [Next]_vars
    PROVE  WriteLockInv'
<1>1. ASSUME NEW s \in Sessions,
             \/ OpenCalled(s) \/ BeginCalled(s) \/ BeginWriterCalled(s) \/ RollbackCalled(s)
             \/ CommitCalled(s) \/ Close(s)
      PROVE  WriteLockInv'
  BY <1>1, OpenCalledKeeps, BeginCalledKeeps, BeginWriterCalledKeeps, EndKeeps, CloseKeeps
<1>2. CASE UNCHANGED vars
  BY <1>2 DEF vars, handleVars, lockVars, managerVars, WriteLockInv, TypeOK, CallsAreOwn,
     DepthCounts, ReadersNeverWrite, BeginnerIsAlone, Beginning, In, WriterHoldsLock
<1> QED
  BY <1>1, <1>2, ThreadStepKeeps, ManagerStepKeeps, ManageMemoryKeeps, ManagerAgainKeeps
     DEF Next

(* The inductive invariant the write lock rests on.                        *)
THEOREM WriteLockCorrect == Spec => []WriteLockInv
BY InitWriteLock, NextKeeps, PTL DEF Spec

(* Whatever the clients call and whichever begin or merge throws, and      *)
(* however often the memory manager rolls handles back, a write            *)
(* transaction that is underway (abstracted_storage with an order and a    *)
(* writer's transaction) has its storage's write lock, until the steps of  *)
(* its commit or rollback have let go of the lock and come to order = 0.   *)
THEOREM WriterHoldsLockAlways == Spec => []WriterHoldsLock
<1>1. WriteLockInv => WriterHoldsLock
  BY DEF WriteLockInv
<1> QED BY <1>1, WriteLockCorrect, PTL

-----------------------------------------------------------------------------
(* Who holds resource_x.  Most steps let nobody enter what follows the     *)
(* lock or ends a transaction, leave the manager where it is, ...          *)
Endings == {"discard", "merge", "release", "reset", "unlock"}

NobodyEnters ==
    \A t \in Threads : pc'[t] \in {"start", "transaction"} \cup Endings =>
        pc'[t] = pc[t] /\ d'[call'[t]] = d[call[t]]

(* ... change a handle or a write lock only where nobody is ending a       *)
(* transaction, ...                                                        *)
NobodyEnds(x) == \A t \in Threads : ~In(t, x, Endings)

Same(x) == transacted'[x] = transacted[x] /\ tx'[x] = tx[x] /\ w_lock'[x] = w_lock[x]

ManagerStays ==
    /\ mpc' \in {"start", "check"} => mpc' = mpc /\ mh' = mh
    /\ mpc = "check" => mpc' = "check"
    /\ mpc' # "idle" => mpc # "idle" \/ MemoryLow

(* ... and free at most locks of one thread, that of handle h.             *)
Frees(h, t) ==
    \A g \in Handles : resource_x'[g] = resource_x[g] \/ (g = h /\ resource_x[g] = t)

Quiet ==
    /\ NobodyEnters /\ ManagerStays
    /\ UNCHANGED <<transacted, tx, resource_x>>
    /\ \A x \in Storages : NobodyEnds(x) \/ Same(x)

LEMMA UnlockFrees ==
    ASSUME LockTypes, NEW h \in Handles, NEW t, Unlock(h, t)
    PROVE  Frees(h, t)
BY DEF LockTypes, Unlock, Frees, lockVars

LEMMA QuietCalls ==
    ASSUME WriteLockInv, NEW s \in Sessions,
           OpenCalled(s) \/ BeginCalled(s) \/ Close(s)
    PROVE  Quiet
<1>1. CallTypes /\ CallsAreOwn
  BY Parts
<1>2. CASE OpenCalled(s) \/ BeginCalled(s)
  BY <1>1, <1>2, SessionsAssumption
     DEF CallTypes, CallsAreOwn, OpenCalled, BeginCalled, Enter, Quiet, NobodyEnters,
         ManagerStays, Same, Endings, managerVars, handleVars, lockVars
<1>3. CASE Close(s)
  BY <1>1, <1>3, SessionsAssumption
     DEF CallTypes, CallsAreOwn, Close, Quiet, NobodyEnters, ManagerStays, Same, Endings,
         managerVars, handleVars, lockVars
<1> QED
  BY <1>2, <1>3

LEMMA QuietThreads ==
    ASSUME WriteLockInv, NEW t \in Threads,
           \/ AddReader(t) \/ AddReaderThrows(t) \/ GetWriter(t) \/ AddWriter(t)
           \/ MakeWriter(t) \/ MakeWriterThrows(t) \/ BeginTest(t) \/ BeginThrows(t)
    PROVE  Quiet
<1>1. CallTypes /\ CallsAreOwn
  BY Parts
<1> USE <1>1, SessionsAssumption
    DEF CallTypes, CallsAreOwn, Return, Quiet, NobodyEnters, ManagerStays, Same, Endings,
        managerVars, handleVars, lockVars
<1>2. CASE AddReader(t)
  BY <1>2 DEF AddReader
<1>3. CASE AddReaderThrows(t) \/ BeginThrows(t)
  BY <1>3 DEF AddReaderThrows, BeginThrows
<1>4. CASE GetWriter(t)
  BY <1>4 DEF GetWriter
<1>5. CASE AddWriter(t)
  BY <1>5 DEF AddWriter
<1>6. CASE MakeWriter(t)
  BY <1>6 DEF MakeWriter
<1>7. CASE MakeWriterThrows(t)
  <2>1. NobodyEnters /\ ManagerStays /\ UNCHANGED <<transacted, tx, resource_x>>
    BY <1>7 DEF MakeWriterThrows
  <2>2. pc[t] = "make_writer" /\ w_lock' = [w_lock EXCEPT ![Storage[call[t]]] = TRUE]
    BY <1>7 DEF MakeWriterThrows
  <2>3. ASSUME NEW x \in Storages PROVE NobodyEnds(x) \/ Same(x)
    <3>1. CASE x # Storage[call[t]]
      BY <2>1, <2>2, <3>1, Parts DEF HandleTypes
    <3>2. CASE x = Storage[call[t]]
      <4> SUFFICES ASSUME NEW u \in Threads, In(u, x, Endings) PROVE FALSE
        BY DEF NobodyEnds
      <4>1. pc[u] \notin {"idle", "make_writer"} /\ d[call[u]] = x
        BY DEF In
      <4> QED
        BY <2>2, <3>2, <4>1, OneThread
    <3> QED
      BY <3>1, <3>2
  <2> QED
    BY <2>1, <2>3
<1>8. CASE BeginTest(t)
  BY <1>8 DEF BeginTest
<1> QED
  BY <1>2, <1>3, <1>4, <1>5, <1>6, <1>7, <1>8

LEMMA QuietManager ==
    ASSUME ManageMemory \/ ManagerAgain \/ ManagerDone \/ \E h \in Handles : Visit(h)
    PROVE  Quiet
BY DEF ManageMemory, ManagerAgain, ManagerDone, Visit, Quiet, NobodyEnters, ManagerStays,
       Same, handleVars, lockVars

(* Holders are known after a step that frees no lock but those of a thread *)
(* that is not beginning.                                                  *)
LEMMA HoldersStay ==
    ASSUME CallsAreOwn, HoldersKnown, NobodyEnters, ManagerStays,
           NEW h, NEW t, t # Manager,
           t \in Threads => pc[t] \notin {"start", "transaction"}, Frees(h, t)
    PROVE  HoldersKnown'
<1>1. ASSUME NEW u \in Threads, pc'[u] \in {"start", "transaction"}
      PROVE  resource_x'[d'[call'[u]]] = u
  <2>1. pc[u] = pc'[u] /\ d'[call'[u]] = d[call[u]]
    BY <1>1 DEF NobodyEnters
  <2>2. d[call[u]] \in Handles /\ resource_x[d[call[u]]] = u /\ u # t
    BY <1>1, <2>1 DEF CallsAreOwn, HoldersKnown
  <2> QED
    BY <2>1, <2>2 DEF Frees
<1>2. mpc' \in {"start", "check"} => resource_x'[mh'] = Manager
  <2> SUFFICES ASSUME mpc' \in {"start", "check"} PROVE resource_x'[mh'] = Manager
    OBVIOUS
  <2>1. mpc \in {"start", "check"} /\ mh' = mh
    BY DEF ManagerStays
  <2>2. mh \in Handles /\ resource_x[mh] = Manager
    BY <2>1 DEF CallsAreOwn, HoldersKnown
  <2> QED
    BY <2>1, <2>2 DEF Frees
<1> QED
  BY <1>1, <1>2 DEF HoldersKnown

(* Threads that are ending a transaction find it as it was after a step    *)
(* that changes only handles where nobody does.                            *)
LEMMA EndsStay ==
    ASSUME EndsKnown, NobodyEnters, \A x \in Storages : NobodyEnds(x) \/ Same(x)
    PROVE  EndsKnown'
<1> SUFFICES ASSUME NEW t \in Threads, NEW x \in Storages
             PROVE  /\ In(t, x, {"discard", "merge", "release", "reset"})' => Underway(x)'
                    /\ In(t, x, {"reset"})' => ~w_lock'[x]
                    /\ In(t, x, {"unlock"})' => ~Underway(x)'
  BY DEF EndsKnown
<1>1. CASE ~In(t, x, Endings)'
  BY <1>1 DEF In, Endings
<1>2. CASE In(t, x, Endings)'
  <2>1. pc'[t] = pc[t] /\ d'[call'[t]] = d[call[t]] /\ pc[t] \in Endings /\ d[call[t]] = x
    BY <1>2 DEF NobodyEnters, In
  <2>2. Same(x)
    BY <2>1 DEF NobodyEnds, In
  <2> QED
    BY <2>1, <2>2 DEF EndsKnown, Same, Underway, In
<1> QED
  BY <1>1, <1>2

(* Whoever is in a call on the writer handle of a storage, and not ending  *)
(* a transaction, is there alone.                                          *)
LEMMA CallerIsAlone ==
    ASSUME CallsAreOwn, NEW t \in Threads, pc[t] \notin {"idle"} \cup Endings,
           NEW x \in Storages, d[call[t]] = x
    PROVE  NobodyEnds(x)
<1> SUFFICES ASSUME NEW u \in Threads, In(u, x, Endings) PROVE FALSE
  BY DEF NobodyEnds
<1>1. pc[u] \in Endings /\ pc[u] # "idle" /\ d[call[u]] = x
  BY DEF In, Endings
<1> QED
  BY <1>1, OneThread

(* The parts of HoldInv about locks, after a step.                         *)
HoldsAfter ==
    HoldersKnown' /\ ManagerReads' /\ EndsKnown' /\ (FailCommit = {} => WritesAreHeld')

LEMMA QuietHolds ==
    ASSUME HoldInv, Quiet
    PROVE  HoldsAfter
<1>1. /\ CallsAreOwn /\ HoldersKnown /\ EndsKnown /\ NobodyEnters /\ ManagerStays
      /\ Frees(None, None)
  BY DEF HoldInv, WriteLockInv, Quiet, Frees
<1>2. HoldersKnown'
  BY <1>1, HoldersStay, SessionsAssumption
<1>3. ManagerReads'
  BY DEF HoldInv, ManagerReads, Quiet, ManagerStays
<1>4. EndsKnown'
  BY <1>1, EndsStay DEF Quiet
<1>5. WritesAreHeld => WritesAreHeld'
  BY DEF WritesAreHeld, Underway, Quiet
<1> QED
  BY <1>2, <1>3, <1>4, <1>5 DEF HoldInv, HoldsAfter

(* A handle that is rolled back, and no other.                             *)
LEMMA RolledBack ==
    ASSUME HandleTypes, NEW h \in Handles, StorageRollback(h)
    PROVE  /\ \A g \in Handles : g # h => tx'[g] = tx[g] /\ transacted'[g] = transacted[g]
           /\ ~transacted'[h] /\ tx'[h] \in {tx[h], "none"}
           /\ transacted[h] => tx'[h] = "none"
BY DEF HandleTypes, StorageRollback

LEMMA RollbackHolds ==
    ASSUME HoldInv, NEW h \in Handles, NEW t \in Threads, DbmsRollback(h, t),
           h \in Storages => ~transacted[h],
           pc[t] = "idle", NobodyEnters, ManagerStays
    PROVE  HoldsAfter
<1>1. /\ CallsAreOwn /\ LockTypes /\ HandleTypes /\ LockInv /\ HoldersKnown /\ ManagerReads
      /\ EndsKnown /\ t # Manager
  BY Parts, SessionsAssumption DEF HoldInv
<1>2. CASE transacted[h]
  <2>1. StorageRollback(h) /\ Frees(h, t) /\ h \notin Storages
    BY <1>1, <1>2, UnlockFrees DEF DbmsRollback
  <2>2. HoldersKnown'
    BY <1>1, <2>1, HoldersStay
  <2>3. \A x \in Storages : Same(x) /\ resource_x'[x] = resource_x[x]
    <3>1. tx[h] # "writer"
      BY <1>1, <2>1 DEF LockInv, ReadersNeverWrite, Handles
    <3>2. w_lock' = w_lock
      BY <2>1, <3>1 DEF StorageRollback
    <3>3. \A g \in Handles : g # h => tx'[g] = tx[g] /\ transacted'[g] = transacted[g]
      BY <1>1, <2>1, RolledBack
    <3> QED
      BY <2>1, <3>2, <3>3 DEF Same, Frees, Handles
  <2>4. ManagerReads'
    BY <1>1, <2>3 DEF ManagerReads, ManagerStays, Same
  <2>5. WritesAreHeld => WritesAreHeld'
    BY <2>3 DEF WritesAreHeld, Underway, Same
  <2>6. EndsKnown'
    BY <1>1, <2>3, EndsStay
  <2> QED
    BY <2>2, <2>4, <2>5, <2>6 DEF HoldInv, HoldsAfter
<1>3. CASE ~transacted[h]
  <2>1. Quiet
    BY <1>3 DEF DbmsRollback, Quiet, Same, handleVars, lockVars
  <2> QED
    BY <2>1, QuietHolds
<1> QED
  BY <1>2, <1>3

LEMMA CallsHold ==
    ASSUME HoldInv, NEW s \in Sessions,
           BeginWriterCalled(s) \/ RollbackCalled(s) \/ CommitCalled(s)
    PROVE  HoldsAfter
<1>1. /\ CallTypes /\ CallsAreOwn /\ LockTypes /\ HandleTypes /\ LockInv
      /\ HoldersKnown /\ ManagerReads /\ EndsKnown
      /\ Runs[s] \in Threads /\ Runs[s] # Manager
  BY Parts, SessionsAssumption DEF HoldInv
<1>2. d[s] \in Handles /\ pc[Runs[s]] = "idle"
  BY <1>1 DEF CallTypes, BeginWriterCalled, Enter, RollbackCalled, CommitCalled, End, Handles
<1>3. ManagerStays
  BY DEF ManagerStays, BeginWriterCalled, RollbackCalled, CommitCalled, End, managerVars
<1>4. CASE BeginWriterCalled(s)
  <2>1. NobodyEnters
    BY <1>1, <1>2, <1>4
       DEF CallTypes, CallsAreOwn, NobodyEnters, Endings, BeginWriterCalled, Enter
  <2>2. CASE IsWriter(d[s])
    BY <1>3, <1>4, <2>1, <2>2, QuietHolds
       DEF BeginWriterCalled, Quiet, Same, handleVars, lockVars
  <2>3. CASE ~IsWriter(d[s])
    BY <1>1, <1>2, <1>3, <1>4, <2>1, <2>3, RollbackHolds DEF BeginWriterCalled, IsWriter
  <2> QED
    BY <2>2, <2>3
<1>5. CASE (RollbackCalled(s) \/ CommitCalled(s)) /\ ~(IsWriter(d[s]) /\ transacted[d[s]])
  <2>1. NobodyEnters /\ DbmsRollback(d[s], Runs[s])
    BY <1>5 DEF NobodyEnters, RollbackCalled, CommitCalled, End
  <2> QED
    BY <1>1, <1>2, <1>3, <1>5, <2>1, RollbackHolds DEF IsWriter
<1>6. CASE (RollbackCalled(s) \/ CommitCalled(s)) /\ IsWriter(d[s]) /\ transacted[d[s]]
  <2>1. PICK h \in Storages : h = d[s]
    BY <1>6 DEF IsWriter
  <2>2. /\ ~Visited(h) /\ UNCHANGED <<transacted, tx, w_lock, resource_x, d, mpc, mh>>
        /\ Enter(s, "discard") \/ Enter(s, "merge")
    BY <1>6, <2>1
       DEF RollbackCalled, CommitCalled, End, handleVars, lockVars, managerVars
  <2>3. Underway(h)
    BY <1>1, <1>6, <2>1, <2>2 DEF ManagerReads, Visited, Underway
  <2>4. \A u \in Threads :
            /\ u # Runs[s] => pc'[u] = pc[u] /\ call'[u] = call[u]
            /\ u = Runs[s] => pc'[u] \in {"discard", "merge"} /\ d'[call'[u]] = h
    BY <1>1, <2>1, <2>2 DEF CallTypes, Enter
  <2>5. HoldersKnown'
    BY <1>1, <2>2, <2>4 DEF HoldersKnown
  <2>6. ManagerReads' /\ (WritesAreHeld => WritesAreHeld')
    BY <1>1, <2>2 DEF ManagerReads, WritesAreHeld, Underway
  <2>7. EndsKnown'
    BY <1>1, <2>2, <2>3, <2>4 DEF EndsKnown, In, Underway
  <2> QED
    BY <2>5, <2>6, <2>7 DEF HoldInv, HoldsAfter
<1> QED
  BY <1>4, <1>5, <1>6

LEMMA BeginLockHolds ==
    ASSUME HoldInv, NEW t \in Threads, BeginLock(t)
    PROVE  HoldsAfter
<1> DEFINE h == d[call[t]]
<1>1. /\ CallTypes /\ CallsAreOwn /\ LockTypes /\ HoldersKnown /\ ManagerReads
      /\ EndsKnown /\ h \in Handles /\ t # Manager /\ t # None
  BY Parts, SessionsAssumption DEF HoldInv, CallsAreOwn, BeginLock
<1>2. /\ resource_x[h] \in {None, t} /\ resource_x' = [resource_x EXCEPT ![h] = t]
      /\ pc' = [pc EXCEPT ![t] = "start"]
      /\ UNCHANGED <<d, call, transacted, tx, w_lock, mpc, mh>>
  BY DEF BeginLock, Lock, handleVars, managerVars
<1>3. ASSUME NEW u \in Threads, pc'[u] \in {"start", "transaction"}
      PROVE  resource_x'[d'[call'[u]]] = u
  <2>1. CASE u = t
    BY <1>1, <1>2, <2>1 DEF LockTypes
  <2>2. CASE u # t
    <3>1. pc[u] \in {"start", "transaction"} /\ d'[call'[u]] = d[call[u]]
      BY <1>1, <1>2, <1>3, <2>2 DEF CallTypes
    <3>2. d[call[u]] \in Handles /\ resource_x[d[call[u]]] = u /\ u # None
      BY <1>1, <3>1, SessionsAssumption DEF CallsAreOwn, HoldersKnown
    <3> QED
      BY <1>1, <1>2, <2>2, <3>1, <3>2 DEF LockTypes
  <2> QED
    BY <2>1, <2>2
<1>4. mpc' \in {"start", "check"} => resource_x'[mh'] = Manager
  BY <1>1, <1>2, SessionsAssumption DEF HoldersKnown, CallsAreOwn, LockTypes
<1>5. HoldersKnown'
  BY <1>3, <1>4 DEF HoldersKnown
<1>6. ManagerReads'
  BY <1>1, <1>2 DEF ManagerReads
<1>7. WritesAreHeld => WritesAreHeld'
  <2> SUFFICES ASSUME WritesAreHeld, NEW x \in Storages, Underway(x)
               PROVE  resource_x'[x] = resource_x[x]
    BY <1>2 DEF WritesAreHeld, Underway
  <2>1. resource_x[x] \in Threads
    BY DEF WritesAreHeld
  <2>2. x = h => resource_x[x] = t
    BY <1>2, <2>1, SessionsAssumption
  <2> HIDE DEF h
  <2> QED
    BY <1>1, <1>2, <2>2 DEF LockTypes, Handles
<1>8. EndsKnown'
  BY <1>1, <1>2 DEF CallTypes, EndsKnown, In, Underway
<1> QED
  BY <1>5, <1>6, <1>7, <1>8 DEF HoldInv, HoldsAfter

LEMMA BeginStartHolds ==
    ASSUME HoldInv, NEW t \in Threads, BeginStart(t)
    PROVE  HoldsAfter
<1> DEFINE h == d[call[t]]
<1>1. /\ CallTypes /\ CallsAreOwn /\ HandleTypes /\ HoldersKnown /\ ManagerReads
      /\ EndsKnown /\ h \in Handles /\ t # Manager /\ pc[t] = "start" /\ resource_x[h] = t
  BY Parts, SessionsAssumption DEF HoldInv, CallsAreOwn, BeginStart, HoldersKnown
<1>2. CASE NeedsBegin(h)
  <2>1. /\ tx' = IF transacted[h] THEN [tx EXCEPT ![h] = "none"] ELSE tx
        /\ transacted' = [transacted EXCEPT ![h] = FALSE]
        /\ w_lock' = [x \in Storages |-> w_lock[x] \/ x = h]
        /\ pc' = [pc EXCEPT ![t] = "transaction"]
        /\ UNCHANGED <<d, call, resource_x, mpc, mh>>
    BY <1>2 DEF BeginStart, lockVars, managerVars
  <2>7. h \in Storages => NobodyEnds(h)
    BY <1>1, CallerIsAlone DEF Endings
  <2> HIDE DEF h
  <2>2. /\ \A g \in Handles : g # h => tx'[g] = tx[g] /\ transacted'[g] = transacted[g]
        /\ ~transacted'[h] /\ tx'[h] \in {tx[h], "none"}
    BY <1>1, <2>1 DEF HandleTypes
  <2>3. \A u \in Threads :
           /\ pc'[u] \in {"start", "transaction"} => pc[u] \in {"start", "transaction"}
           /\ pc'[u] \in Endings => pc[u] = pc'[u]
    BY <1>1, <2>1 DEF CallTypes, Endings
  <2>4. HoldersKnown'
    BY <1>1, <2>1, <2>3 DEF HoldersKnown
  <2>5. ManagerReads'
    <3>1. ASSUME NEW x \in Storages, tx[x] = "reader" PROVE x # h
      BY <1>1, <3>1 DEF ManagerReads, HoldersKnown
    <3> QED
      BY <1>1, <2>1, <2>2, <3>1 DEF ManagerReads, Handles
  <2>6. WritesAreHeld => WritesAreHeld'
    BY <2>1, <2>2 DEF WritesAreHeld, Underway, Handles
  <2>8. \A x \in Storages : x # h => Same(x)
    <3>1. \A x \in Storages : x # h => w_lock'[x] = w_lock[x]
      BY <1>1, <2>1 DEF HandleTypes
    <3> QED
      BY <2>2, <3>1 DEF Same, Handles
  <2>9. EndsKnown'
    BY <1>1, <2>1, <2>3, <2>7, <2>8
       DEF EndsKnown, NobodyEnds, Endings, Same, Underway, In
  <2> QED
    BY <2>4, <2>5, <2>6, <2>9 DEF HoldInv, HoldsAfter
<1>3. CASE ~NeedsBegin(h)
  <2>1. Quiet
    BY <1>1, <1>3 DEF CallTypes, BeginStart, Return, Quiet, NobodyEnters, ManagerStays, Same,
                      Endings, handleVars, lockVars, managerVars
  <2> QED
    BY <2>1, QuietHolds
<1> QED
  BY <1>2, <1>3

LEMMA BeginTransactionHolds ==
    ASSUME HoldInv, NEW t \in Threads, BeginTransaction(t)
    PROVE  HoldsAfter
<1> DEFINE h == d[call[t]]
<1>1. /\ CallTypes /\ CallsAreOwn /\ HandleTypes /\ HoldersKnown /\ ManagerReads
      /\ EndsKnown /\ h \in Handles /\ t # Manager /\ pc[t] = "transaction"
      /\ resource_x[h] = t
  BY Parts, SessionsAssumption DEF HoldInv, CallsAreOwn, BeginTransaction, HoldersKnown
<1>2. /\ tx' = [tx EXCEPT ![h] = IF @ # "none" THEN @
                                 ELSE IF IsWriter(h) THEN "writer" ELSE "reader"]
      /\ transacted' = [transacted EXCEPT ![h] = TRUE]
      /\ pc' = [pc EXCEPT ![t] = "idle"] /\ call' = [call EXCEPT ![t] = None]
      /\ UNCHANGED <<d, w_lock, resource_x, mpc, mh>>
  BY DEF BeginTransaction, Return, lockVars, managerVars
<1>3. NobodyEnters /\ ManagerStays /\ (h \in Storages => NobodyEnds(h))
  <2>1. h \in Storages => NobodyEnds(h)
    BY <1>1, CallerIsAlone DEF Endings
  <2> QED
    BY <1>1, <1>2, <2>1 DEF CallTypes, NobodyEnters, Endings, ManagerStays
<1> HIDE DEF h
<1>4. /\ \A g \in Handles : g # h => tx'[g] = tx[g] /\ transacted'[g] = transacted[g]
      /\ h \in Storages /\ tx'[h] = "reader" => tx[h] = "reader"
  BY <1>1, <1>2 DEF HandleTypes, IsWriter
<1>5. HoldersKnown'
  BY <1>1, <1>2, <1>3 DEF HoldersKnown, NobodyEnters, ManagerStays
<1>6. ManagerReads'
  <2>1. h \in Storages => tx[h] # "reader"
    BY <1>1 DEF ManagerReads, HoldersKnown
  <2> QED
    BY <1>1, <1>2, <1>4, <2>1 DEF ManagerReads, Handles
<1>7. WritesAreHeld => WritesAreHeld'
  BY <1>1, <1>2, <1>4 DEF WritesAreHeld, Underway, Handles
<1>8. EndsKnown'
  BY <1>1, <1>2, <1>3, <1>4, EndsStay DEF Same, Handles
<1> QED
  BY <1>5, <1>6, <1>7, <1>8 DEF HoldInv, HoldsAfter

(* The steps that end a transaction.                                       *)
LEMMA EndsHold ==
    ASSUME HoldInv, NEW t \in Threads, Discard(t) \/ CommitMerge(t) \/ Release(t) \/ Reset(t)
    PROVE  HoldsAfter
<1>1. /\ CallTypes /\ CallsAreOwn /\ HandleTypes /\ HoldersKnown /\ ManagerReads /\ EndsKnown
      /\ pc[t] \in {"discard", "merge", "release", "reset"}
  BY Parts DEF HoldInv, Discard, CommitMerge, Release, Reset, Ends
<1>2. PICK h \in Storages : h = d[call[t]]
  BY <1>1 DEF CallsAreOwn
<1>3. /\ UNCHANGED <<d, call, resource_x, mpc, mh>>
      /\ \/ /\ pc[t] = "discard" /\ pc' = [pc EXCEPT ![t] = "release"]
            /\ tx' = [tx EXCEPT ![h] = "none"] /\ UNCHANGED <<transacted, w_lock>>
         \/ /\ pc[t] = "merge" /\ pc' = [pc EXCEPT ![t] = "release"]
            /\ UNCHANGED <<transacted, tx, w_lock>>
         \/ /\ pc[t] = "release" /\ pc' = [pc EXCEPT ![t] = "reset"]
            /\ w_lock' = [w_lock EXCEPT ![h] = FALSE] /\ UNCHANGED <<transacted, tx>>
         \/ /\ pc[t] = "reset" /\ pc' = [pc EXCEPT ![t] = "unlock"]
            /\ transacted' = [transacted EXCEPT ![h] = FALSE] /\ UNCHANGED <<tx, w_lock>>
  BY <1>2 DEF Discard, CommitMerge, Release, Reset, Ends, handleVars, lockVars, managerVars
<1>4. /\ \A u \in Threads : u # t => pc'[u] = pc[u]
      /\ \A x \in Storages : x # h => Same(x)
  BY <1>1, <1>3 DEF CallTypes, HandleTypes, Same, Handles
<1>5. Underway(h)
  BY <1>1, <1>2 DEF EndsKnown, In
<1>6. \/ pc'[t] = "release" /\ Underway(h)'
      \/ pc'[t] = "reset" /\ Underway(h)' /\ ~w_lock'[h]
      \/ pc'[t] = "unlock" /\ ~Underway(h)'
  <2>1. CASE pc[t] = "discard"
    BY <1>1, <1>3, <1>5, <2>1 DEF CallTypes, HandleTypes, Underway, Handles
  <2>2. CASE pc[t] = "merge"
    BY <1>1, <1>3, <1>5, <2>2 DEF CallTypes, Underway
  <2>3. CASE pc[t] = "release"
    BY <1>1, <1>3, <1>5, <2>3 DEF CallTypes, HandleTypes, Underway
  <2>4. CASE pc[t] = "reset"
    BY <1>1, <1>3, <1>5, <2>4 DEF CallTypes, HandleTypes, Underway, Handles
  <2> QED
    BY <1>1, <2>1, <2>2, <2>3, <2>4
<1>7. HoldersKnown'
  BY <1>1, <1>3, <1>4, <1>6 DEF HoldersKnown
<1>8. ManagerReads'
  <2>1. tx'[h] # "reader"
    BY <1>1, <1>3, <1>5 DEF HandleTypes, Underway, Handles
  <2> QED
    BY <1>1, <1>3, <1>4, <2>1 DEF ManagerReads, Same
<1>9. WritesAreHeld => WritesAreHeld'
  BY <1>3, <1>4, <1>5 DEF WritesAreHeld, Same, Underway
<1>10. EndsKnown'
  <2> SUFFICES ASSUME NEW u \in Threads, NEW x \in Storages
               PROVE  /\ In(u, x, {"discard", "merge", "release", "reset"})' => Underway(x)'
                      /\ In(u, x, {"reset"})' => ~w_lock'[x]
                      /\ In(u, x, {"unlock"})' => ~Underway(x)'
    BY DEF EndsKnown
  <2>1. CASE u = t
    BY <1>2, <1>3, <1>6, <2>1 DEF In
  <2>2. CASE u # t /\ x # h
    BY <1>1, <1>3, <1>4, <2>2 DEF EndsKnown, In, Same, Underway
  <2>3. CASE u # t /\ x = h
    <3>1. ~In(u, h, Endings)
      BY <1>1, <1>2, <2>3, OneThread DEF In, Endings
    <3> QED
      BY <1>3, <1>4, <2>3, <3>1 DEF In, Endings
  <2> QED
    BY <2>1, <2>2, <2>3
<1> QED
  BY <1>7, <1>8, <1>9, <1>10 DEF HoldInv, HoldsAfter

LEMMA UnlockHolds ==
    ASSUME HoldInv, NEW t \in Threads, EndUnlock(t) \/ CommitThrows(t)
    PROVE  HoldsAfter
<1>1. /\ CallTypes /\ CallsAreOwn /\ LockTypes /\ HoldersKnown /\ ManagerReads /\ EndsKnown
      /\ t # Manager /\ pc[t] \in {"merge", "unlock"}
  BY Parts, SessionsAssumption DEF HoldInv, EndUnlock, CommitThrows
<1>2. PICK h \in Storages : h = d[call[t]]
  BY <1>1 DEF CallsAreOwn
<1>3. /\ Frees(h, t) /\ UNCHANGED <<transacted, tx, w_lock, d, mpc, mh>>
      /\ pc' = [pc EXCEPT ![t] = "idle"] /\ call' = [call EXCEPT ![t] = None]
      /\ h \in Handles
  BY <1>1, <1>2, UnlockFrees DEF EndUnlock, CommitThrows, Return, handleVars, managerVars, Handles
<1>4. ManagerStays /\ NobodyEnters /\ \A x \in Storages : Same(x)
  BY <1>1, <1>3 DEF CallTypes, NobodyEnters, Endings, ManagerStays, Same
<1>5. HoldersKnown'
  BY <1>1, <1>3, <1>4, HoldersStay
<1>6. ManagerReads'
  BY <1>1, <1>3 DEF ManagerReads
<1>7. EndsKnown'
  BY <1>1, <1>4, EndsStay
<1>8. FailCommit = {} => (WritesAreHeld => WritesAreHeld')
  <2> SUFFICES ASSUME FailCommit = {}, WritesAreHeld PROVE WritesAreHeld'
    OBVIOUS
  <2>1. pc[t] = "unlock"
    BY DEF CommitThrows, EndUnlock
  <2>2. ~Underway(h)
    BY <1>1, <1>2, <2>1 DEF EndsKnown, In
  <2> QED
    BY <1>3, <2>2 DEF WritesAreHeld, Underway, Frees, Handles
<1> QED
  BY <1>5, <1>6, <1>7, <1>8 DEF HoldInv, HoldsAfter

LEMMA ManagerHolds ==
    ASSUME HoldInv, ManagerLock \/ ManagerBegin \/ ManagerRollback
    PROVE  HoldsAfter
<1>1. /\ CallTypes /\ CallsAreOwn /\ LockTypes /\ HandleTypes /\ LockInv
      /\ HoldersKnown /\ ManagerReads /\ EndsKnown
      /\ mh \in Handles /\ Manager \notin Threads /\ None \notin Threads
  BY Parts, SessionsAssumption DEF HoldInv, CallsAreOwn, ManagerLock, ManagerBegin,
                                   ManagerRollback
<1>6. WritesAreHeld
  BY <1>1, SessionsAssumption
     DEF HoldInv, ManagerReads, ManagerLock, ManagerBegin, ManagerRollback
<1>7. mpc \in {"start", "check"} /\ mh \in Storages =>
          /\ ~Underway(mh)
          /\ \A t \in Threads : ~In(t, mh, {"discard", "merge", "release", "reset"})
  BY <1>1, <1>6 DEF WritesAreHeld, HoldersKnown, EndsKnown
<1>2. UNCHANGED <<d, pc, call>>
  BY DEF ManagerLock, ManagerBegin, ManagerRollback
<1>3. CASE ManagerLock
  <2>1. /\ resource_x[mh] \in {None, Manager}
        /\ resource_x' = [resource_x EXCEPT ![mh] = Manager]
        /\ mpc = "lock" /\ mpc' = "start" /\ UNCHANGED <<transacted, tx, w_lock, mh>>
    BY <1>3 DEF ManagerLock, Lock, handleVars
  <2>2. resource_x'[mh] = Manager /\ \A g \in Handles : g # mh => resource_x'[g] = resource_x[g]
    BY <1>1, <2>1 DEF LockTypes
  <2>3. HoldersKnown'
    BY <1>1, <1>2, <2>1, <2>2 DEF HoldersKnown, CallsAreOwn
  <2>4. ManagerReads'
    BY <1>1, <2>1 DEF ManagerReads
  <2>5. WritesAreHeld'
    BY <1>1, <1>6, <2>1, <2>2 DEF WritesAreHeld, Underway, Handles
  <2>6. EndsKnown'
    BY <1>1, <1>2, <2>1 DEF EndsKnown, In, Underway
  <2> QED
    BY <2>3, <2>4, <2>5, <2>6 DEF HoldsAfter
<1>4. CASE ManagerBegin
  <2>1. /\ mpc = "start" /\ mpc' = "check" /\ UNCHANGED <<resource_x, w_lock, mh>>
    BY <1>4 DEF ManagerBegin, lockVars
  <2>2. /\ \A g \in Handles : g # mh => tx'[g] = tx[g] /\ transacted'[g] = transacted[g]
        /\ \/ tx'[mh] = "reader" /\ transacted'[mh]
           \/ tx'[mh] = tx[mh] /\ transacted'[mh] = transacted[mh]
    BY <1>1, <1>4 DEF ManagerBegin, HandleTypes
  <2>3. HoldersKnown'
    BY <1>1, <1>2, <2>1 DEF HoldersKnown
  <2>4. ManagerReads'
    BY <1>1, <2>1, <2>2 DEF ManagerReads, Handles
  <2>5. WritesAreHeld'
    BY <1>1, <1>6, <2>1, <2>2 DEF WritesAreHeld, Underway, Handles
  <2>6. EndsKnown'
    <3> SUFFICES ASSUME NEW u \in Threads, NEW x \in Storages
                 PROVE  /\ In(u, x, {"discard", "merge", "release", "reset"})' => Underway(x)'
                        /\ In(u, x, {"reset"})' => ~w_lock'[x]
                        /\ In(u, x, {"unlock"})' => ~Underway(x)'
      BY DEF EndsKnown
    <3>1. CASE x # mh
      BY <1>1, <1>2, <2>1, <2>2, <3>1 DEF EndsKnown, In, Underway, Handles
    <3>2. CASE x = mh
      BY <1>2, <1>7, <2>1, <2>2, <3>2 DEF In, Underway
    <3> QED
      BY <3>1, <3>2
  <2> QED
    BY <2>3, <2>4, <2>5, <2>6 DEF HoldsAfter
<1>5. CASE ManagerRollback
  <2>1. mpc = "check" /\ mpc' = "walk" /\ StorageRollback(mh) /\ Frees(mh, Manager)
    BY <1>1, <1>5, UnlockFrees DEF ManagerRollback
  <2>2. /\ \A g \in Handles : g # mh => tx'[g] = tx[g] /\ transacted'[g] = transacted[g]
        /\ ~transacted'[mh] /\ tx'[mh] \in {tx[mh], "none"}
        /\ transacted[mh] => tx'[mh] = "none"
    BY <1>1, <2>1, RolledBack
  <2>3. HoldersKnown'
    BY <1>1, <1>2, <2>1 DEF HoldersKnown, CallsAreOwn, Frees
  <2>4. ManagerReads'
    BY <1>1, <2>1, <2>2 DEF ManagerReads, Handles
  <2>5. WritesAreHeld'
    BY <1>1, <1>6, <2>1, <2>2 DEF WritesAreHeld, Underway, Frees, Handles
  <2>7. ASSUME NEW x \in Storages, x # mh PROVE w_lock'[x] = w_lock[x]
    <3>1. tx[mh] = "writer" => StorageOf(mh) = mh
      BY <1>1 DEF LockInv, ReadersNeverWrite, StorageOf, Handles
    <3>2. w_lock' = w_lock \/ w_lock' = [w_lock EXCEPT ![mh] = FALSE]
      BY <2>1, <3>1 DEF StorageRollback
    <3> QED
      BY <1>1, <2>7, <3>2 DEF HandleTypes
  <2>6. EndsKnown'
    <3> SUFFICES ASSUME NEW u \in Threads, NEW x \in Storages
                 PROVE  /\ In(u, x, {"discard", "merge", "release", "reset"})' => Underway(x)'
                        /\ In(u, x, {"reset"})' => ~w_lock'[x]
                        /\ In(u, x, {"unlock"})' => ~Underway(x)'
      BY DEF EndsKnown
    <3>1. CASE x # mh
      BY <1>1, <1>2, <2>2, <2>7, <3>1 DEF EndsKnown, In, Underway, Handles
    <3>2. CASE x = mh
      BY <1>2, <1>7, <2>1, <2>2, <3>2 DEF In, Underway
    <3> QED
      BY <3>1, <3>2
  <2> QED
    BY <2>3, <2>4, <2>5, <2>6 DEF HoldsAfter
<1> QED
  BY <1>3, <1>4, <1>5

LEMMA InitHold == Init => HoldInv
<1> SUFFICES ASSUME Init PROVE HoldInv
  OBVIOUS
<1>1. WriteLockInv
  BY InitWriteLock
<1>2. HoldersKnown
  BY DEF Init, HoldersKnown
<1>3. ManagerReads /\ EndsKnown /\ WritesAreHeld
  BY DEF Init, ManagerReads, EndsKnown, In, WritesAreHeld, Underway, Handles
<1> QED
  BY <1>1, <1>2, <1>3 DEF HoldInv

LEMMA NextHold ==
    ASSUME HoldInv, [Next]_vars
    PROVE  HoldInv'
<1>1. WriteLockInv /\ WriteLockInv'
  BY NextKeeps DEF HoldInv
<1>2. HoldsAfter
  <2>1. ASSUME NEW s \in Sessions,
               \/ OpenCalled(s) \/ BeginCalled(s) \/ BeginWriterCalled(s) \/ RollbackCalled(s)
               \/ CommitCalled(s) \/ Close(s)
        PROVE  HoldsAfter
    BY <1>1, <2>1, QuietCalls, QuietHolds, CallsHold
  <2>2. ASSUME NEW t \in Threads, ThreadStep(t) PROVE HoldsAfter
    BY <1>1, <2>2, QuietThreads, QuietHolds, BeginLockHolds, BeginStartHolds,
       BeginTransactionHolds, EndsHold, UnlockHolds DEF ThreadStep
  <2>3. CASE ManageMemory \/ ManagerAgain \/ ManagerStep
    BY <2>3, QuietManager, QuietHolds, ManagerHolds DEF ManagerStep
  <2>4. CASE UNCHANGED vars
    <3>1. Quiet
      BY <2>4 DEF vars, handleVars, lockVars, managerVars, Quiet, NobodyEnters, ManagerStays,
                  Same
    <3> QED
      BY <3>1, QuietHolds
  <2> QED
    BY <2>1, <2>2, <2>3, <2>4 DEF Next
<1> QED
  BY <1>1, <1>2 DEF HoldInv, HoldsAfter

(* Whoever is between dbms::begin's lock and its transaction holds         *)
(* resource_x of the handle, as the memory manager does of the handle it   *)
(* checks; only the memory manager reads with a writer handle; commit and  *)
(* rollback find the transaction they have tested for, at every step up to *)
(* order = 0, and none when they unlock; and where no merge throws, a      *)
(* client's thread holds a handle that is writing.                         *)
THEOREM HoldersCorrect == Spec => []HoldInv
BY InitHold, NextHold, PTL DEF Spec

(* check_dbms of the memory manager never ends a client's write            *)
(* transaction: it only rolls back the handle it has locked, and the       *)
(* handle of a write transaction is locked by a client.  (So where memory  *)
(* may be low no merge is assumed to throw: one that throws unlocks a      *)
(* handle that goes on writing.)                                           *)
THEOREM ManagerSparesWrites == Spec => ManagerKeepsWrites
<1> DEFINE Step == \A x \in Storages :
                     /\ mpc = "check" /\ mpc' = "walk"
                     /\ transacted[x] /\ tx[x] = "writer"
                     => transacted'[x] /\ tx'[x] = "writer"
<1>1. ASSUME HoldInv, [Next]_vars PROVE Step
  <2> SUFFICES ASSUME NEW x \in Storages, mpc = "check", mpc' = "walk",
                      transacted[x], tx[x] = "writer"
               PROVE  transacted'[x] /\ tx'[x] = "writer"
    OBVIOUS
  <2>1. CASE ManagerRollback
    <3>1. /\ HandleTypes /\ mh \in Handles /\ resource_x[mh] = Manager
          /\ resource_x[x] \in Threads
      BY <1>1, Parts, SessionsAssumption
         DEF HoldInv, CallsAreOwn, HoldersKnown, ManagerReads, WritesAreHeld, Underway
    <3>2. x # mh /\ x \in Handles
      BY <3>1, SessionsAssumption DEF Handles
    <3> QED
      BY <2>1, <3>1, <3>2, RolledBack DEF ManagerRollback
  <2>2. CASE ~ManagerRollback
    <3>1. ASSUME NEW s \in Sessions,
                 \/ OpenCalled(s) \/ BeginCalled(s) \/ BeginWriterCalled(s)
                 \/ RollbackCalled(s) \/ CommitCalled(s) \/ Close(s)
          PROVE  mpc' = mpc
      BY <3>1 DEF OpenCalled, BeginCalled, BeginWriterCalled, RollbackCalled, CommitCalled,
                  End, Close, managerVars
    <3>2. ASSUME NEW t \in Threads, ThreadStep(t) PROVE mpc' = mpc
      BY <3>2 DEF ThreadStep, AddReader, AddReaderThrows, GetWriter, AddWriter, MakeWriter,
                  MakeWriterThrows, BeginTest, BeginLock, BeginStart, BeginTransaction,
                  BeginThrows, Discard, CommitMerge, CommitThrows, Release, Reset, EndUnlock,
                  Ends, managerVars
    <3>3. CASE ManageMemory \/ ManagerAgain \/ ManagerStep \/ UNCHANGED vars
      BY <2>2, <3>3 DEF ManageMemory, ManagerAgain, ManagerStep, Visit, ManagerLock,
                        ManagerBegin, ManagerDone, vars, managerVars
    <3> QED
      BY <1>1, <3>1, <3>2, <3>3 DEF Next
  <2> QED
    BY <2>1, <2>2
<1>2. Spec => [][Step]_vars
  BY <1>1, HoldersCorrect, PTL DEF Spec
<1> QED
  BY <1>2 DEF ManagerKeepsWrites

-----------------------------------------------------------------------------
(* What a locked write lock is locked for.  Most steps leave those who are *)
(* beginning or about to release it where they are, lock no write lock,    *)
(* and end no write transaction without unlocking it.                      *)
NobodyLeaves ==
    \A t \in Threads : pc[t] \in {"transaction", "release"} =>
        pc'[t] = pc[t] /\ d'[call'[t]] = d[call[t]]

Releases ==
    \A x \in Storages : w_lock'[x] =>
        /\ w_lock[x]
        /\ transacted[x] /\ tx[x] = "writer" => transacted'[x] /\ tx'[x] = "writer"

LEMMA LockedStays ==
    ASSUME LockedByWriter, NobodyLeaves, Releases
    PROVE  LockedByWriter'
BY DEF LockedByWriter, NobodyLeaves, Releases, In

LEMMA RollbackReleases ==
    ASSUME HandleTypes, LockInv, NEW h \in Handles, StorageRollback(h)
    PROVE  Releases
<1>1. tx[h] = "writer" => h \in Storages /\ StorageOf(h) = h
  BY DEF LockInv, ReadersNeverWrite, StorageOf, Handles
<1>2. /\ \A g \in Handles : g # h => tx'[g] = tx[g] /\ transacted'[g] = transacted[g]
  BY RolledBack
<1>3. CASE tx[h] = "writer" /\ transacted[h]
  <2>1. w_lock' = [w_lock EXCEPT ![h] = FALSE]
    BY <1>1, <1>3 DEF StorageRollback
  <2>2. \A x \in Storages : w_lock'[x] => x # h /\ w_lock[x]
    BY <2>1 DEF HandleTypes
  <2> QED
    BY <1>2, <2>2 DEF Releases, Handles
<1>4. CASE ~(tx[h] = "writer" /\ transacted[h])
  <2>1. w_lock' = w_lock
    BY <1>4 DEF StorageRollback
  <2> QED
    BY <1>2, <1>4, <2>1 DEF Releases, Handles
<1> QED
  BY <1>3, <1>4

LEMMA CallsLock ==
    ASSUME HoldInv, LockedByWriter, NEW s \in Sessions,
           \/ OpenCalled(s) \/ BeginCalled(s) \/ BeginWriterCalled(s) \/ RollbackCalled(s)
           \/ CommitCalled(s) \/ Close(s)
    PROVE  LockedByWriter'
<1>1. /\ CallTypes /\ CallsAreOwn /\ HandleTypes /\ LockInv /\ Runs[s] \in Threads
      /\ \A t \in Threads : call[t] = s /\ pc[t] # "idle" => t = Runs[s]
  BY Parts, SessionsAssumption DEF HoldInv, CallsAreOwn
<1>2. pc[Runs[s]] = "idle"
  BY DEF OpenCalled, BeginCalled, BeginWriterCalled, RollbackCalled, CommitCalled, End,
         Close, Enter
<1>3. NobodyLeaves
  <2>1. /\ \A t \in Threads : t # Runs[s] => pc'[t] = pc[t] /\ call'[t] = call[t]
        /\ \A r \in Sessions : r # s => d'[r] = d[r]
    BY <1>1 DEF CallTypes, OpenCalled, BeginCalled, BeginWriterCalled, RollbackCalled,
                CommitCalled, End, Close, Enter
  <2> QED
    BY <1>1, <1>2, <2>1 DEF NobodyLeaves, CallsAreOwn
<1>4. CASE UNCHANGED handleVars
  BY <1>3, <1>4, LockedStays DEF Releases, handleVars
<1>5. ASSUME NEW h \in Handles, DbmsRollback(h, Runs[s]) PROVE LockedByWriter'
  BY <1>1, <1>3, <1>4, <1>5, RollbackReleases, LockedStays DEF DbmsRollback
<1>6. d[s] # None => d[s] \in Handles
  BY <1>1 DEF CallTypes
<1> QED
  BY <1>4, <1>5, <1>6 DEF OpenCalled, BeginCalled, BeginWriterCalled, RollbackCalled,
     CommitCalled, End, Close

LEMMA ThreadsLock ==
    ASSUME HoldInv, LockedByWriter, FailBegin = {}, NEW t \in Threads, ThreadStep(t)
    PROVE  LockedByWriter'
<1> DEFINE h == d[call[t]]
<1>1. /\ CallTypes /\ CallsAreOwn /\ HandleTypes /\ LockInv /\ HoldersKnown /\ ManagerReads
      /\ EndsKnown /\ Manager \notin Threads /\ pc[t] # "idle"
  BY Parts, SessionsAssumption
     DEF HoldInv, ThreadStep, AddReader, AddReaderThrows, GetWriter, AddWriter, MakeWriter,
         MakeWriterThrows, BeginTest, BeginLock, BeginStart, BeginTransaction, BeginThrows,
         Discard, CommitMerge, CommitThrows, Release, Reset, EndUnlock, Ends
<1>2. \A u \in Threads : u # t /\ pc[u] # "idle" => call[u] \in Sessions /\ call[u] # call[t]
  BY <1>1 DEF CallsAreOwn
<1>3. CASE BeginStart(t) /\ NeedsBegin(h)
  <2>1. /\ h \in Handles /\ resource_x[h] = t /\ pc[t] = "start"
    BY <1>1, <1>3 DEF BeginStart, CallsAreOwn, HoldersKnown
  <2>2. /\ w_lock' = [x \in Storages |-> w_lock[x] \/ x = h]
        /\ tx' = IF transacted[h] THEN [tx EXCEPT ![h] = "none"] ELSE tx
        /\ transacted' = [transacted EXCEPT ![h] = FALSE]
        /\ pc' = [pc EXCEPT ![t] = "transaction"]
        /\ UNCHANGED <<d, call>>
    BY <1>3 DEF BeginStart
  <2>3. /\ \A x \in Storages : x = h => In(t, x, {"transaction", "release"})'
        /\ \A u \in Threads, x \in Storages :
              In(u, x, {"transaction", "release"}) => In(u, x, {"transaction", "release"})'
    BY <1>1, <2>1, <2>2 DEF CallTypes, In
  <2> HIDE DEF h
  <2>4. \A x \in Storages : x # h => /\ w_lock'[x] = w_lock[x]
                                     /\ tx'[x] = tx[x]
                                     /\ transacted'[x] = transacted[x]
    <3>1. \A x \in Storages : x # h => tx'[x] = tx[x] /\ transacted'[x] = transacted[x]
      BY <1>1, <2>1, <2>2 DEF HandleTypes, Handles
    <3>2. \A x \in Storages : x # h => w_lock'[x] = w_lock[x]
      BY <1>1, <2>2 DEF HandleTypes
    <3> QED
      BY <3>1, <3>2
  <2> QED
    BY <2>3, <2>4 DEF LockedByWriter
<1>4. CASE BeginTransaction(t)
  <2>1. /\ h \in Handles /\ resource_x[h] = t
    BY <1>1, <1>4 DEF BeginTransaction, CallsAreOwn, HoldersKnown
  <2>2. h \in Storages => tx[h] # "reader"
    BY <1>1, <2>1 DEF ManagerReads, HoldersKnown
  <2>3. /\ tx' = [tx EXCEPT ![h] = IF @ # "none" THEN @
                                   ELSE IF IsWriter(h) THEN "writer" ELSE "reader"]
        /\ transacted' = [transacted EXCEPT ![h] = TRUE]
        /\ w_lock' = w_lock /\ d' = d
        /\ pc' = [pc EXCEPT ![t] = "idle"] /\ call' = [call EXCEPT ![t] = None]
    BY <1>4 DEF BeginTransaction, Return
  <2>4. \A u \in Threads, x \in Storages :
            In(u, x, {"transaction", "release"}) /\ x # h =>
                In(u, x, {"transaction", "release"})'
    BY <1>1, <2>3 DEF CallTypes, In
  <2> HIDE DEF h
  <2>5. /\ h \in Storages => transacted'[h] /\ tx'[h] = "writer"
        /\ \A x \in Storages : x # h => tx'[x] = tx[x] /\ transacted'[x] = transacted[x]
    BY <1>1, <2>1, <2>2, <2>3 DEF HandleTypes, Handles, IsWriter
  <2> QED
    BY <2>3, <2>4, <2>5 DEF LockedByWriter
<1>5. CASE \/ AddReader(t) \/ AddReaderThrows(t) \/ GetWriter(t) \/ AddWriter(t)
           \/ MakeWriter(t) \/ BeginTest(t) \/ BeginLock(t) \/ EndUnlock(t)
           \/ CommitMerge(t) \/ CommitThrows(t) \/ (BeginStart(t) /\ ~NeedsBegin(h))
  <2>1. /\ pc[t] \notin {"transaction", "release"} /\ UNCHANGED handleVars
    BY <1>5 DEF AddReader, AddReaderThrows, GetWriter, AddWriter, MakeWriter, BeginTest,
                BeginLock, EndUnlock, CommitMerge, CommitThrows, Ends, BeginStart
  <2>2. /\ \A u \in Threads : u # t => pc'[u] = pc[u] /\ call'[u] = call[u]
        /\ \A r \in Sessions : r # call[t] => d'[r] = d[r]
    BY <1>1, <1>5 DEF CallTypes, AddReader, AddReaderThrows, GetWriter, AddWriter, MakeWriter,
                      BeginTest, BeginLock, EndUnlock, CommitMerge, CommitThrows, Ends,
                      BeginStart, Return
  <2>3. NobodyLeaves
    BY <1>2, <2>1, <2>2 DEF NobodyLeaves
  <2> QED
    BY <2>1, <2>3, LockedStays DEF Releases, handleVars
<1>6. CASE Discard(t) \/ Release(t) \/ Reset(t)
  <2>1. /\ pc[t] \in {"discard", "release", "reset"} /\ h \in Storages
        /\ d' = d /\ call' = call /\ \A u \in Threads : u # t => pc'[u] = pc[u]
    BY <1>1, <1>6 DEF CallTypes, CallsAreOwn, Discard, Release, Reset, Ends
  <2>2. CASE Discard(t)
    <3>1. /\ UNCHANGED <<transacted, w_lock>> /\ tx' = [tx EXCEPT ![h] = "none"]
          /\ pc'[t] = "release"
      BY <1>1, <2>2 DEF CallTypes, Discard, Ends
    <3>2. \A u \in Threads, x \in Storages :
              In(u, x, {"transaction", "release"}) => In(u, x, {"transaction", "release"})'
      BY <2>1, <3>1 DEF In
    <3>3. \A x \in Storages : x = h => In(t, x, {"transaction", "release"})'
      BY <2>1, <3>1 DEF In
    <3> HIDE DEF h
    <3>4. \A x \in Storages : x # h => tx'[x] = tx[x]
      BY <1>1, <3>1 DEF HandleTypes, Handles
    <3> QED
      BY <3>1, <3>2, <3>3, <3>4 DEF LockedByWriter
  <2>3. CASE Release(t) \/ Reset(t)
    <3>1. \A u \in Threads, x \in Storages : x # h =>
              (In(u, x, {"transaction", "release"}) => In(u, x, {"transaction", "release"})')
      BY <2>1 DEF In
    <3>2. pc[t] = "reset" => ~w_lock[h]
      BY <1>1, <2>1 DEF EndsKnown, In
    <3>3. tx' = tx /\ ~w_lock'[h]
      BY <1>1, <2>1, <2>3, <3>2 DEF Release, Reset, Ends, HandleTypes
    <3>4. \A x \in Storages : x # h => w_lock'[x] = w_lock[x] /\ transacted'[x] = transacted[x]
      BY <1>1, <2>1, <2>3 DEF Release, Reset, HandleTypes, Handles
    <3> HIDE DEF h
    <3> QED
      BY <3>1, <3>3, <3>4 DEF LockedByWriter
  <2> QED
    BY <1>6, <2>2, <2>3
<1> QED
  BY <1>3, <1>4, <1>5, <1>6 DEF ThreadStep, MakeWriterThrows, BeginThrows

LEMMA ManagerLocks ==
    ASSUME HoldInv, LockedByWriter, ManageMemory \/ ManagerAgain \/ ManagerStep
    PROVE  LockedByWriter'
<1>1. HandleTypes /\ LockInv /\ (mpc \in {"start", "check"} => mh \in Handles)
  BY Parts DEF HoldInv, CallsAreOwn
<1>2. NobodyLeaves
  BY DEF NobodyLeaves, ManageMemory, ManagerAgain, ManagerStep, Visit, ManagerLock,
         ManagerBegin, ManagerRollback, ManagerDone
<1>3. CASE ManagerBegin
  BY <1>1, <1>2, <1>3, LockedStays DEF ManagerBegin, HandleTypes, Releases, Handles
<1>4. CASE ManagerRollback
  BY <1>1, <1>2, <1>4, RollbackReleases, LockedStays DEF ManagerRollback
<1>5. CASE UNCHANGED handleVars
  BY <1>2, <1>5, LockedStays DEF Releases, handleVars
<1> QED
  BY <1>3, <1>4, <1>5 DEF ManageMemory, ManagerAgain, ManagerStep, Visit, ManagerLock,
                          ManagerDone

(* Where no begin throws, the write lock is never left locked behind: a    *)
(* write transaction that rollback or commit will release it for is        *)
(* underway, or a thread is about to begin one or, having discarded it, to *)
(* release the lock.  (A begin that throws leaves it locked.)              *)
THEOREM LockIsForWriter ==
    ASSUME FailBegin = {}
    PROVE  Spec => []LockedByWriter
<1>1. Init => LockedByWriter
  BY DEF Init, LockedByWriter
<1>2. ASSUME HoldInv, LockedByWriter, [Next]_vars PROVE LockedByWriter'
  <2>1. CASE UNCHANGED vars
    BY <1>2, <2>1 DEF LockedByWriter, In, vars, handleVars
  <2> QED
    BY <1>2, <2>1, CallsLock, ThreadsLock, ManagerLocks DEF Next
<1> QED
  BY <1>1, <1>2, HoldersCorrect, PTL DEF Spec

-----------------------------------------------------------------------------
(* Without the memory manager, and with one writing session for each       *)
(* storage, a handle belongs to one session.                               *)
OneWriterEach == \A r, s \in Writers : Storage[r] = Storage[s] => r = s

Own(s, h) == h = s \/ (s \in Writers /\ h = Storage[s])

(* Where the call of session s is.                                         *)
At(s) == IF call[Runs[s]] = s THEN pc[Runs[s]] ELSE "idle"

(* What holds of a session: it uses a handle of its own, begins on one     *)
(* that is not transacted, and has a transaction when it has begun.        *)
Kept(s) ==
    /\ d[s] # None => Own(s, d[s])
    /\ At(s) \in {"get_writer", "add_writer", "make_writer"} => s \in Writers
    /\ At(s) \in {"add", "get_writer", "add_writer", "make_writer"} \/ d[s] = None
         => began[s] = "nothing"
    /\ At(s) \in {"lock", "start", "transaction"} => d[s] # None /\ ~transacted[d[s]]
    /\ began[s] # "nothing" => transacted[d[s]] \/ At(s) = "unlock"
    /\ ~transacted[s] => tx[s] = "none"

(* And of its handles: its thread holds them, once, while they are         *)
(* transacted or it is about to begin or to end a transaction.             *)
HeldAt(s, h) ==
    /\ resource_x[h] \in {None, Runs[s]}
    /\ depth[h] = IF resource_x[h] = None THEN 0 ELSE 1
    /\ resource_x[h] # None =>
         transacted[h] \/ (At(s) \in {"start", "transaction", "unlock"} /\ d[s] = h)

ClientInv ==
    /\ mpc = "idle"
    /\ \A s \in Sessions : Kept(s)
    /\ \A s \in Sessions, h \in Handles : Own(s, h) => HeldAt(s, h)
    /\ \A h \in Handles : resource_x[h] # None => \E s \in Sessions : Own(s, h)

(* A step of session s: it leaves the other sessions alone, ...            *)
Others(s) ==
    /\ \A r \in Sessions : r # s => At(r)' = At(r) /\ d'[r] = d[r] /\ began'[r] = began[r]
    /\ mpc' = mpc

(* ... and all handles but one.                                            *)
OnlyHandle(h) ==
    \A g \in Handles : g # h =>
        /\ transacted'[g] = transacted[g] /\ tx'[g] = tx[g]
        /\ resource_x'[g] = resource_x[g] /\ depth'[g] = depth[g]

LEMMA OwnersDiffer ==
    ASSUME OneWriterEach, NEW r \in Sessions, NEW s \in Sessions, r # s, NEW h, Own(r, h)
    PROVE  ~Own(s, h) /\ h \in Handles /\ h # None
BY SessionsAssumption DEF OneWriterEach, Own, Handles

LEMMA MineKeeps ==
    ASSUME OneWriterEach, ClientInv, NEW s \in Sessions, Others(s),
           OnlyHandle(d[s]), Kept(s)',
           \A h \in Handles : h = d[s] => HeldAt(s, h)'
    PROVE  ClientInv'
<1>1. Kept(s) /\ (d[s] # None => Own(s, d[s]))
  BY DEF ClientInv, Kept
<1>2. ASSUME NEW r \in Sessions, r # s, NEW h, Own(r, h)
      PROVE  /\ h \in Handles
             /\ transacted'[h] = transacted[h] /\ tx'[h] = tx[h]
             /\ resource_x'[h] = resource_x[h] /\ depth'[h] = depth[h]
  <2>1. h \in Handles /\ h # d[s]
    BY <1>1, <1>2, OwnersDiffer
  <2> QED
    BY <2>1 DEF OnlyHandle
<1>3. ASSUME NEW r \in Sessions, r # s PROVE Kept(r)'
  <2>1. Kept(r) /\ At(r)' = At(r) /\ d'[r] = d[r] /\ began'[r] = began[r]
    BY <1>3 DEF ClientInv, Others
  <2>2. transacted'[r] = transacted[r] /\ tx'[r] = tx[r]
    BY <1>2, <1>3 DEF Own
  <2>3. d[r] # None => transacted'[d[r]] = transacted[d[r]]
    BY <1>2, <1>3, <2>1 DEF Kept
  <2> QED
    BY <2>1, <2>2, <2>3 DEF Kept
<1>4. ASSUME NEW r \in Sessions, NEW h \in Handles, Own(r, h) PROVE HeldAt(r, h)'
  <2>1. CASE r # s
    <3>1. HeldAt(r, h) /\ At(r)' = At(r) /\ d'[r] = d[r]
      BY <1>4, <2>1 DEF ClientInv, Others
    <3> QED
      BY <1>2, <1>4, <2>1, <3>1 DEF HeldAt
  <2>2. CASE r = s /\ h # d[s]
    <3>1. HeldAt(s, h)
      BY <1>4, <2>2 DEF ClientInv
    <3>2. /\ transacted'[h] = transacted[h]
          /\ resource_x'[h] = resource_x[h] /\ depth'[h] = depth[h]
      BY <2>2 DEF OnlyHandle
    <3> QED
      BY <2>2, <3>1, <3>2 DEF HeldAt
  <2> QED
    BY <2>1, <2>2
<1>5. ASSUME NEW h \in Handles, resource_x'[h] # None
      PROVE  \E r \in Sessions : Own(r, h)
  <2>1. CASE h = d[s]
    BY <1>1, <2>1, SessionsAssumption
  <2>2. CASE h # d[s]
    BY <1>5, <2>2 DEF ClientInv, OnlyHandle
  <2> QED
    BY <2>1, <2>2
<1>6. \A r \in Sessions : Kept(r)'
  BY <1>3
<1>7. mpc' = "idle"
  BY DEF ClientInv, Others
<1> QED
  BY <1>4, <1>5, <1>6, <1>7 DEF ClientInv

(* A step that changes no handle.                                          *)
LEMMA QuietMine ==
    ASSUME OneWriterEach, ClientInv, NEW s \in Sessions, Others(s),
           UNCHANGED <<transacted, tx, resource_x, depth>>,
           At(s) \notin {"start", "transaction", "unlock"}, Kept(s)'
    PROVE  ClientInv'
<1>1. OnlyHandle(d[s])
  BY DEF OnlyHandle
<1>2. ASSUME NEW h \in Handles, h = d[s] PROVE HeldAt(s, h)'
  <2>1. HeldAt(s, h)
    BY <1>2, SessionsAssumption DEF ClientInv, Kept
  <2> QED
    BY <2>1 DEF HeldAt
<1> QED
  BY <1>1, <1>2, MineKeeps

(* The call of session s goes on to b.                                     *)
Goes(s, b) ==
    /\ pc' = [pc EXCEPT ![Runs[s]] = b]
    /\ \/ call' = [call EXCEPT ![Runs[s]] = s]
       \/ call' = call /\ call[Runs[s]] = s
       \/ call' = [call EXCEPT ![Runs[s]] = None] /\ b = "idle"

LEMMA GoesTo ==
    ASSUME CallTypes, NEW s \in Sessions, NEW b, Goes(s, b),
           pc[Runs[s]] = "idle" \/ call[Runs[s]] = s
    PROVE  At(s)' = b /\ \A r \in Sessions : r # s => At(r)' = At(r)
BY SessionsAssumption DEF CallTypes, Goes, At

(* The calls of a session.                                                 *)
LEMMA IdleSession ==
    ASSUME WriteLockInv, ClientInv, NEW s \in Sessions, pc[Runs[s]] = "idle"
    PROVE  /\ CallTypes /\ Kept(s) /\ At(s) = "idle" /\ Runs[s] \in Threads
           /\ Runs[s] # None
           /\ d[s] # None => d[s] \in Handles /\ Own(s, d[s]) /\ HeldAt(s, d[s])
<1>1. CallTypes /\ Kept(s)
  BY Parts DEF ClientInv
<1>2. At(s) = "idle" /\ Runs[s] \in Threads /\ Runs[s] # None
  BY SessionsAssumption DEF At
<1>3. d[s] # None => d[s] \in Handles /\ Own(s, d[s])
  BY <1>1 DEF CallTypes, Kept
<1> QED
  BY <1>1, <1>2, <1>3 DEF ClientInv

LEMMA EnterCalls ==
    ASSUME WriteLockInv, OneWriterEach, ClientInv, NEW s \in Sessions,
           \/ OpenCalled(s) \/ BeginCalled(s) \/ (BeginWriterCalled(s) /\ IsWriter(d[s]))
           \/ /\ RollbackCalled(s) \/ CommitCalled(s)
              /\ IsWriter(d[s]) /\ transacted[d[s]]
    PROVE  ClientInv'
<1>1. /\ pc[Runs[s]] = "idle" /\ UNCHANGED <<d, began, transacted, tx, resource_x, depth, mpc>>
      /\ \/ Enter(s, "add") /\ d[s] = None
         \/ (Enter(s, "begin") \/ Enter(s, "discard") \/ Enter(s, "merge")) /\ d[s] # None
  BY DEF OpenCalled, BeginCalled, BeginWriterCalled, RollbackCalled, CommitCalled, End, Enter,
         handleVars, lockVars, managerVars
<1>2. CallTypes /\ Kept(s) /\ At(s) = "idle"
  BY <1>1, IdleSession
<1>3. \/ Goes(s, "add") /\ d[s] = None
      \/ (Goes(s, "begin") \/ Goes(s, "discard") \/ Goes(s, "merge")) /\ d[s] # None
  BY <1>1 DEF Enter, Goes
<1>4. /\ \/ At(s)' = "add" /\ d[s] = None
         \/ At(s)' \in {"begin", "discard", "merge"} /\ d[s] # None
      /\ Others(s)
  BY <1>1, <1>2, <1>3, GoesTo DEF Others
<1>5. Kept(s)'
  BY <1>1, <1>2, <1>4 DEF Kept
<1> QED
  BY <1>1, <1>2, <1>4, <1>5, QuietMine

LEMMA CloseCalls ==
    ASSUME WriteLockInv, OneWriterEach, ClientInv, NEW s \in Sessions, Close(s)
    PROVE  ClientInv'
<1>1. /\ pc[Runs[s]] = "idle"
      /\ UNCHANGED <<pc, call, transacted, tx, resource_x, depth, mpc>>
      /\ d' = [d EXCEPT ![s] = None] /\ began' = [began EXCEPT ![s] = "nothing"]
  BY DEF Close, handleVars, lockVars, managerVars
<1>2. CallTypes /\ Kept(s) /\ At(s) = "idle"
  BY <1>1, IdleSession
<1>3. /\ At(s)' = "idle" /\ Others(s) /\ d'[s] = None /\ began'[s] = "nothing"
  BY <1>1, <1>2 DEF Others, At, CallTypes
<1>4. Kept(s)'
  BY <1>1, <1>2, <1>3 DEF Kept
<1> QED
  BY <1>1, <1>2, <1>3, <1>4, QuietMine

(* A rollback by the session's thread leaves its handle unlocked.          *)
LEMMA RollbackUnlocks ==
    ASSUME HandleTypes, LockTypes, NEW s \in Sessions, NEW h \in Handles, HeldAt(s, h),
           At(s) = "idle", DbmsRollback(h, Runs[s]), Runs[s] # None
    PROVE  /\ OnlyHandle(h) /\ ~transacted'[h]
           /\ resource_x'[h] = None /\ depth'[h] = 0
           /\ tx'[h] = IF transacted[h] THEN "none" ELSE tx[h]
<1>1. CASE transacted[h]
  <2>1. StorageRollback(h) /\ Unlock(h, Runs[s])
    BY <1>1 DEF DbmsRollback
  <2>2. /\ \A g \in Handles : g # h => tx'[g] = tx[g] /\ transacted'[g] = transacted[g]
        /\ ~transacted'[h] /\ tx'[h] = "none"
    BY <1>1, <2>1, RolledBack
  <2>3. /\ \A g \in Handles : g # h => resource_x'[g] = resource_x[g] /\ depth'[g] = depth[g]
        /\ resource_x'[h] = None /\ depth'[h] = 0
    BY <2>1 DEF Unlock, LockTypes, HeldAt, lockVars
  <2> QED
    BY <1>1, <2>2, <2>3 DEF OnlyHandle
<1>2. CASE ~transacted[h]
  BY <1>2 DEF DbmsRollback, HeldAt, OnlyHandle, handleVars, lockVars
<1> QED
  BY <1>1, <1>2

LEMMA RollbackCalls ==
    ASSUME WriteLockInv, OneWriterEach, ClientInv, NEW s \in Sessions,
           pc[Runs[s]] = "idle", d[s] # None, DbmsRollback(d[s], Runs[s]),
           UNCHANGED <<d, mpc>>, began' = [began EXCEPT ![s] = "nothing"],
           \/ UNCHANGED <<pc, call>>
           \/ s \in Writers /\ Enter(s, "get_writer")
    PROVE  ClientInv'
<1> DEFINE h == d[s]
<1>1. /\ CallTypes /\ HandleTypes /\ LockTypes /\ Kept(s) /\ At(s) = "idle" /\ Runs[s] # None
      /\ h \in Handles /\ Own(s, h) /\ HeldAt(s, h)
  BY IdleSession, Parts
<1>2. /\ OnlyHandle(h) /\ ~transacted'[h]
      /\ resource_x'[h] = None /\ depth'[h] = 0
      /\ tx'[h] = IF transacted[h] THEN "none" ELSE tx[h]
  BY <1>1, RollbackUnlocks
<1>3. (Goes(s, "get_writer") /\ s \in Writers) \/ UNCHANGED <<pc, call>>
  BY DEF Enter, Goes
<1>4. /\ \A r \in Sessions : r # s => At(r)' = At(r)
      /\ At(s)' = "idle" \/ (At(s)' = "get_writer" /\ s \in Writers)
  BY <1>1, <1>3, GoesTo DEF At
<1>5. Others(s) /\ began'[s] = "nothing"
  BY <1>1, <1>4 DEF Others, CallTypes
<1>6. Kept(s)'
  <2>1. ~transacted'[s] => tx'[s] = "none"
    <3>1. CASE s = h
      BY <1>1, <1>2, <3>1 DEF Kept
    <3>2. CASE s # h
      BY <1>1, <1>2, <3>2 DEF Kept, OnlyHandle, Handles
    <3> QED
      BY <3>1, <3>2
  <2> QED
    BY <1>1, <1>4, <1>5, <2>1 DEF Kept
<1>7. HeldAt(s, h)'
  BY <1>2 DEF HeldAt
<1> HIDE DEF h
<1>8. \A g \in Handles : g = h => HeldAt(s, g)'
  BY <1>7 DEF h
<1> QED
  BY <1>2, <1>5, <1>6, <1>8, MineKeeps DEF h

(* The steps of a thread: its call is that of session call[t].             *)
LEMMA BusySession ==
    ASSUME WriteLockInv, ClientInv, NEW t \in Threads, pc[t] # "idle"
    PROVE  /\ call[t] \in Sessions /\ Runs[call[t]] = t /\ At(call[t]) = pc[t]
           /\ Kept(call[t]) /\ CallTypes /\ t # None
           /\ pc[t] \notin {"add", "get_writer", "add_writer", "make_writer"} =>
                /\ d[call[t]] \in Handles /\ d[call[t]] # None
                /\ HeldAt(call[t], d[call[t]])
<1>1. /\ call[t] \in Sessions /\ Runs[call[t]] = t /\ CallTypes
      /\ pc[t] \notin {"add", "get_writer", "add_writer", "make_writer"} =>
           d[call[t]] \in Handles
  BY Parts DEF CallsAreOwn
<1>2. At(call[t]) = pc[t] /\ Kept(call[t]) /\ t # None /\ None \notin Handles
  BY <1>1, SessionsAssumption DEF At, ClientInv
<1> QED
  BY <1>1, <1>2 DEF ClientInv, Kept

LEMMA AddCalls ==
    ASSUME WriteLockInv, OneWriterEach, ClientInv, NEW t \in Threads,
           \/ AddReader(t) \/ GetWriter(t) \/ AddWriter(t) \/ MakeWriter(t)
    PROVE  ClientInv'
<1>1. PICK s \in Sessions : s = call[t]
  BY BusySession DEF AddReader, GetWriter, AddWriter, MakeWriter
<1>2. /\ Runs[s] = t /\ At(s) = pc[t] /\ Kept(s) /\ CallTypes
      /\ pc[t] \in {"add", "get_writer", "add_writer", "make_writer"}
  BY <1>1, BusySession DEF AddReader, GetWriter, AddWriter, MakeWriter
<1>3. UNCHANGED <<began, transacted, tx, resource_x, depth, mpc>>
  BY DEF AddReader, GetWriter, AddWriter, MakeWriter, handleVars, lockVars, managerVars
<1>4. \/ (Goes(s, "begin") \/ Goes(s, "idle")) /\ d' = [d EXCEPT ![s] = s]
      \/ Goes(s, "begin") /\ d' = [d EXCEPT ![s] = Storage[s]] /\ s \in Writers
      \/ (Goes(s, "add_writer") \/ Goes(s, "make_writer")) /\ d' = d /\ s \in Writers
  <2>1. CASE AddReader(t)
    BY <1>1, <1>2, <2>1 DEF AddReader, Return, Goes
  <2>2. CASE GetWriter(t)
    BY <1>1, <1>2, <2>2 DEF GetWriter, Goes, Kept
  <2>3. CASE AddWriter(t)
    BY <1>1, <1>2, <2>3 DEF AddWriter, Goes, Kept
  <2>4. CASE MakeWriter(t)
    BY <1>1, <1>2, <2>4 DEF MakeWriter, Goes, Kept
  <2> QED
    BY <2>1, <2>2, <2>3, <2>4
<1>5. /\ \A r \in Sessions : r # s => At(r)' = At(r)
      /\ \/ At(s)' \in {"begin", "idle"} /\ d' = [d EXCEPT ![s] = s]
         \/ At(s)' = "begin" /\ d' = [d EXCEPT ![s] = Storage[s]] /\ s \in Writers
         \/ At(s)' \in {"add_writer", "make_writer"} /\ d' = d /\ s \in Writers
  BY <1>1, <1>2, <1>4, GoesTo
<1>6. Others(s)
  BY <1>2, <1>3, <1>5 DEF Others, CallTypes
<1>7. Kept(s)'
  <2>1. began'[s] = "nothing" /\ (d'[s] # None => Own(s, d'[s]))
    BY <1>2, <1>3, <1>5 DEF CallTypes, Kept, Own
  <2> QED
    BY <1>2, <1>3, <1>5, <2>1 DEF Kept
<1> QED
  BY <1>2, <1>3, <1>6, <1>7, QuietMine

LEMMA BeginCalls ==
    ASSUME WriteLockInv, OneWriterEach, ClientInv, NEW t \in Threads,
           BeginTest(t) \/ BeginLock(t) \/ BeginStart(t) \/ BeginTransaction(t)
    PROVE  ClientInv'
<1>1. PICK s \in Sessions : s = call[t]
  BY BusySession DEF BeginTest, BeginLock, BeginStart, BeginTransaction
<1>2. PICK h \in Handles : h = d[s]
  BY <1>1, BusySession DEF BeginTest, BeginLock, BeginStart, BeginTransaction
<1>3. /\ Runs[s] = t /\ At(s) = pc[t] /\ Kept(s) /\ CallTypes /\ t # None
      /\ HeldAt(s, h) /\ Own(s, h) /\ h # None /\ HandleTypes /\ LockTypes
  BY <1>1, <1>2, BusySession, Parts
     DEF BeginTest, BeginLock, BeginStart, BeginTransaction, Kept
<1>4. CASE BeginTest(t)
  <2>1. /\ UNCHANGED <<d, transacted, tx, resource_x, depth, mpc>> /\ pc[t] = "begin"
        /\ \/ Goes(s, "idle") /\ transacted[h] /\ Begun(s)
           \/ Goes(s, "lock") /\ ~transacted[h] /\ UNCHANGED began
    BY <1>1, <1>2, <1>3, <1>4 DEF BeginTest, Return, Goes, handleVars, lockVars, managerVars
  <2>2. /\ \A r \in Sessions : r # s => At(r)' = At(r)
        /\ \/ At(s)' = "idle" /\ transacted[h] /\ Begun(s)
           \/ At(s)' = "lock" /\ ~transacted[h] /\ UNCHANGED began
    BY <1>1, <1>3, <2>1, GoesTo
  <2>3. Others(s)
    BY <1>3, <2>1, <2>2 DEF Others, Begun, CallTypes
  <2>4. Kept(s)'
    BY <1>2, <1>3, <2>1, <2>2 DEF Kept
  <2> QED
    BY <1>3, <2>1, <2>3, <2>4, QuietMine
<1>5. CASE BeginLock(t)
  <2>1. /\ UNCHANGED <<d, began, transacted, tx, mpc>> /\ pc[t] = "lock"
        /\ Goes(s, "start") /\ Lock(h, t)
    BY <1>1, <1>2, <1>3, <1>5 DEF BeginLock, Goes, handleVars, managerVars
  <2>2. At(s)' = "start" /\ Others(s)
    BY <1>1, <1>3, <2>1, GoesTo DEF Others
  <2>3. ~transacted[h] /\ resource_x[h] = None /\ depth[h] = 0
    BY <1>2, <1>3, <2>1 DEF Kept, HeldAt
  <2>4. OnlyHandle(h) /\ resource_x'[h] = t /\ depth'[h] = 1
    BY <1>3, <2>1, <2>3 DEF OnlyHandle, Lock, LockTypes
  <2>5. Kept(s)'
    BY <1>2, <1>3, <2>1, <2>2, <2>3 DEF Kept
  <2>6. HeldAt(s, h)'
    BY <1>2, <1>3, <2>1, <2>2, <2>4 DEF HeldAt
  <2> QED
    BY <1>2, <2>2, <2>4, <2>5, <2>6, MineKeeps
<1>6. CASE BeginStart(t)
  <2>1. ~transacted[h] /\ pc[t] = "start" /\ NeedsBegin(h)
    BY <1>1, <1>2, <1>3, <1>6, SessionsAssumption
       DEF BeginStart, Kept, NeedsBegin, IsWriter, Own
  <2>2. /\ UNCHANGED <<d, began, resource_x, depth, mpc, tx>> /\ Goes(s, "transaction")
        /\ transacted' = [transacted EXCEPT ![h] = FALSE]
    BY <1>1, <1>2, <1>3, <1>6, <2>1 DEF BeginStart, Goes, lockVars, managerVars
  <2>3. At(s)' = "transaction" /\ Others(s)
    BY <1>1, <1>3, <2>2, GoesTo DEF Others
  <2>4. OnlyHandle(h) /\ ~transacted'[h] /\ (\A g \in Handles : transacted'[g] = transacted[g])
    BY <1>3, <2>1, <2>2 DEF OnlyHandle, HandleTypes
  <2>5. Kept(s)'
    BY <1>2, <1>3, <2>1, <2>2, <2>3, <2>4 DEF Kept, Handles
  <2>6. HeldAt(s, h)'
    BY <1>2, <1>3, <2>2, <2>3 DEF HeldAt
  <2> QED
    BY <1>2, <2>3, <2>4, <2>5, <2>6, MineKeeps
<1>7. CASE BeginTransaction(t)
  <2>1. /\ UNCHANGED <<d, resource_x, depth, mpc>> /\ Goes(s, "idle") /\ Begun(s)
        /\ transacted' = [transacted EXCEPT ![h] = TRUE]
        /\ tx' = [tx EXCEPT ![h] = IF @ # "none" THEN @
                                   ELSE IF IsWriter(h) THEN "writer" ELSE "reader"]
    BY <1>1, <1>2, <1>3, <1>7 DEF BeginTransaction, Return, Goes, lockVars, managerVars
  <2>2. At(s)' = "idle" /\ \A r \in Sessions : r # s => At(r)' = At(r)
    BY <1>1, <1>3, <2>1, GoesTo
  <2>3. Others(s)
    BY <1>3, <2>1, <2>2 DEF Others, Begun, CallTypes
  <2>4. OnlyHandle(h) /\ transacted'[h]
    BY <1>3, <2>1 DEF OnlyHandle, HandleTypes
  <2>5. Kept(s)'
    BY <1>2, <1>3, <2>1, <2>2, <2>4 DEF Kept, OnlyHandle, Handles
  <2>6. HeldAt(s, h)'
    BY <1>3, <2>1, <2>4 DEF HeldAt
  <2> QED
    BY <1>2, <2>3, <2>4, <2>5, <2>6, MineKeeps
<1> QED
  BY <1>4, <1>5, <1>6, <1>7

LEMMA EndCalls ==
    ASSUME WriteLockInv, OneWriterEach, ClientInv, NEW t \in Threads,
           Discard(t) \/ CommitMerge(t) \/ Release(t) \/ Reset(t)
    PROVE  ClientInv'
<1>0. /\ pc[t] \in {"discard", "merge", "release", "reset"} /\ HandleTypes
      /\ d[call[t]] \in Storages
  BY Parts DEF Discard, CommitMerge, Release, Reset, Ends, CallsAreOwn
<1>1. PICK s \in Sessions : s = call[t]
  BY <1>0, BusySession
<1>2. PICK h \in Handles : h = d[s]
  BY <1>0, <1>1, BusySession
<1>3. /\ Runs[s] = t /\ At(s) = pc[t] /\ Kept(s) /\ CallTypes /\ t # None
      /\ HeldAt(s, h) /\ h # None /\ h # s
  BY <1>0, <1>1, <1>2, BusySession, SessionsAssumption
<1>4. /\ UNCHANGED <<d, began, resource_x, depth, mpc>>
      /\ \/ /\ Goes(s, "release") \/ Goes(s, "reset")
            /\ UNCHANGED transacted /\ (tx' = tx \/ tx' = [tx EXCEPT ![h] = "none"])
         \/ Goes(s, "unlock") /\ transacted' = [transacted EXCEPT ![h] = FALSE] /\ tx' = tx
  BY <1>1, <1>2, <1>3
     DEF Discard, CommitMerge, Release, Reset, Ends, Goes, handleVars, lockVars, managerVars
<1>5. /\ \A r \in Sessions : r # s => At(r)' = At(r)
      /\ \/ At(s)' \in {"release", "reset"} /\ UNCHANGED transacted
         \/ At(s)' = "unlock"
  BY <1>1, <1>3, <1>4, GoesTo
<1>6. Others(s)
  BY <1>4, <1>5 DEF Others
<1>7. OnlyHandle(h) /\ transacted'[s] = transacted[s] /\ tx'[s] = tx[s]
  BY <1>0, <1>3, <1>4 DEF OnlyHandle, HandleTypes, Handles
<1>8. Kept(s)'
  BY <1>0, <1>2, <1>3, <1>4, <1>5, <1>7 DEF Kept
<1>9. HeldAt(s, h)'
  BY <1>0, <1>2, <1>3, <1>4, <1>5 DEF HeldAt
<1> QED
  BY <1>2, <1>6, <1>7, <1>8, <1>9, MineKeeps

LEMMA UnlockCalls ==
    ASSUME WriteLockInv, OneWriterEach, ClientInv, NEW t \in Threads,
           EndUnlock(t) \/ CommitThrows(t)
    PROVE  ClientInv'
<1>1. PICK s \in Sessions : s = call[t]
  BY BusySession DEF EndUnlock, CommitThrows
<1>2. PICK h \in Handles : h = d[s]
  BY <1>1, BusySession DEF EndUnlock, CommitThrows
<1>3. /\ Runs[s] = t /\ At(s) = pc[t] /\ Kept(s) /\ CallTypes /\ t # None
      /\ HeldAt(s, h) /\ h # None /\ LockTypes
  BY <1>1, <1>2, BusySession, Parts DEF EndUnlock, CommitThrows
<1>4. /\ UNCHANGED <<d, transacted, tx, mpc>> /\ Goes(s, "idle") /\ Unlock(h, t)
      /\ began' = [began EXCEPT ![s] = "nothing"]
  BY <1>1, <1>2, <1>3 DEF EndUnlock, CommitThrows, Return, Goes, handleVars, managerVars
<1>5. At(s)' = "idle" /\ \A r \in Sessions : r # s => At(r)' = At(r)
  BY <1>1, <1>3, <1>4, GoesTo
<1>6. Others(s) /\ began'[s] = "nothing"
  BY <1>3, <1>4, <1>5 DEF Others, CallTypes
<1>7. OnlyHandle(h) /\ resource_x'[h] = None /\ depth'[h] = 0
  BY <1>3, <1>4 DEF OnlyHandle, Unlock, LockTypes, HeldAt, lockVars
<1>8. Kept(s)'
  BY <1>3, <1>4, <1>5, <1>6 DEF Kept
<1>9. HeldAt(s, h)'
  BY <1>7 DEF HeldAt
<1> QED
  BY <1>2, <1>6, <1>7, <1>8, <1>9, MineKeeps

(* Where memory is never low, no begin throws and a storage has one        *)
(* writing session.                                                        *)
LEMMA ClientsCorrect ==
    ASSUME MemoryLow = FALSE, FailBegin = {}, OneWriterEach
    PROVE  Spec => []ClientInv
<1>1. Init => ClientInv
  <2> SUFFICES ASSUME Init PROVE ClientInv
    OBVIOUS
  <2>1. \A s \in Sessions : At(s) = "idle"
    BY SessionsAssumption DEF Init, At
  <2>2. \A s \in Sessions : Kept(s)
    BY <2>1 DEF Init, Kept, Handles
  <2>3. \A s \in Sessions, h \in Handles : HeldAt(s, h)
    BY DEF Init, HeldAt
  <2> QED
    BY <2>2, <2>3 DEF Init, ClientInv
<1>2. ASSUME WriteLockInv, ClientInv, [Next]_vars PROVE ClientInv'
  <2>1. ASSUME NEW s \in Sessions,
               \/ OpenCalled(s) \/ BeginCalled(s) \/ BeginWriterCalled(s) \/ RollbackCalled(s)
               \/ CommitCalled(s) \/ Close(s)
        PROVE  ClientInv'
    <3>1. CASE BeginWriterCalled(s) /\ ~IsWriter(d[s])
      BY <1>2, <3>1, RollbackCalls DEF BeginWriterCalled, Enter, managerVars
    <3>2. CASE (RollbackCalled(s) \/ CommitCalled(s)) /\ ~(IsWriter(d[s]) /\ transacted[d[s]])
      BY <1>2, <3>2, RollbackCalls DEF RollbackCalled, CommitCalled, End, managerVars
    <3> QED
      BY <1>2, <2>1, <3>1, <3>2, EnterCalls, CloseCalls
  <2>2. ASSUME NEW t \in Threads, ThreadStep(t) PROVE ClientInv'
    <3>1. ~AddReaderThrows(t) /\ ~MakeWriterThrows(t) /\ ~BeginThrows(t)
      BY DEF AddReaderThrows, MakeWriterThrows, BeginThrows
    <3> QED
      BY <1>2, <2>2, <3>1, AddCalls, BeginCalls, EndCalls, UnlockCalls
         DEF ThreadStep
  <2>3. ~ManageMemory /\ ~ManagerAgain /\ ~ManagerStep
    BY <1>2 DEF ClientInv, ManageMemory, ManagerAgain, ManagerStep, Visit, ManagerLock,
                ManagerBegin, ManagerRollback, ManagerDone
  <2>4. CASE UNCHANGED vars
    BY <1>2, <2>4 DEF vars, handleVars, lockVars, managerVars, ClientInv, Kept, HeldAt, At
  <2> QED
    BY <1>2, <2>1, <2>2, <2>3, <2>4 DEF Next
<1> QED
  BY <1>1, <1>2, WriteLockCorrect, PTL DEF Spec

(* With one writing session for each storage, begins that do not throw and *)
(* memory to spare, resource_x of a handle (dbms::begin locks it, commit   *)
(* and rollback unlock it) is never left locked behind, merges that throw  *)
(* included.                                                               *)
THEOREM IdleStaysUnlocked ==
    ASSUME MemoryLow = FALSE, FailBegin = {}, OneWriterEach
    PROVE  Spec => []IdleIsUnlocked
<1>1. ASSUME ClientInv PROVE IdleIsUnlocked
  <2> SUFFICES ASSUME NEW h \in Handles, NEW t \in Threads, resource_x[h] = t
               PROVE  transacted[h] \/ Inside(t, h)
    BY DEF IdleIsUnlocked
  <2>1. t # None
    BY SessionsAssumption
  <2>2. PICK s \in Sessions : Own(s, h)
    BY <1>1, <2>1 DEF ClientInv
  <2> QED
    BY <1>1, <2>1, <2>2 DEF ClientInv, HeldAt, At, Inside, In
<1> QED
  BY <1>1, ClientsCorrect, PTL

(* Under the same conditions a session whose begin has returned has a      *)
(* transaction until its own client commits or rolls back.                 *)
THEOREM BegunStaysTransacted ==
    ASSUME MemoryLow = FALSE, FailBegin = {}, OneWriterEach
    PROVE  Spec => []BegunIsTransacted
<1>1. ClientInv => BegunIsTransacted
  BY DEF ClientInv, Kept, At, BegunIsTransacted
<1> QED
  BY <1>1, ClientsCorrect, PTL
=============================================================================
