------------------------------ MODULE Sessions ------------------------------
(***************************************************************************)
(* Sessions, the dbms handles they work on, the locks, and the memory      *)
(* manager's thread.                                                       *)
(*                                                                         *)
(* A session starts with a reader handle of its own and, with its first    *)
(* write, goes over to the one writer handle of its storage, which all     *)
(* sessions share.  The reader handle of session s is called s, the writer *)
(* handle of storage x is called x.  A handle has a transaction object     *)
(* (_transaction) and says it is transacted (order # 0); a writer handle   *)
(* keeps its object after a commit.                                        *)
(*                                                                         *)
(* Fields of a handle are read and written without the coordinator's lock, *)
(* under resource_x if the callers keep to it.  The steps are what happens *)
(* between two accesses another thread can observe.  resource_x is         *)
(* recursive and ignores an unlock by a thread that does not hold it       *)
(* (std::recursive_mutex over pthreads); w_lock is a plain mutex with no   *)
(* owner (Poco::FastMutex).                                                *)
(*                                                                         *)
(* Nothing keeps two threads out of one writer handle: begin returns at    *)
(* once to the second, and one thread's commit or rollback runs into the   *)
(* other's.  So only programs with one writing thread for each storage are *)
(* modelled.  Nor does anything keep the memory manager out of a handle    *)
(* whose merge threw, or a client out of the manager's transaction; these  *)
(* are left out by MemoryLow => FailCommit = {} and by Visited.            *)
(***************************************************************************)
EXTENDS Integers, FiniteSets

CONSTANTS
    Storages,      \* named storages
    Sessions,      \* sessions
    Threads,       \* client threads
    Runs,          \* the thread each session is used by
    Storage,       \* the storage each session is for
    Writers,       \* sessions whose clients write
    Manager,       \* the memory manager's thread
    None,          \* nobody, nothing
    MemoryLow,     \* the pool may come near depletion
    FailCommit,    \* storages whose merge may throw
    FailBegin,     \* storages whose begin may throw (ReplicationFailure)
    MaxDepth       \* bound: times resource_x is locked by its holder

Handles == Sessions \cup Storages

ASSUME SessionsAssumption ==
    /\ Runs \in [Sessions -> Threads]
    /\ Storage \in [Sessions -> Storages]
    /\ Sessions \cap Storages = {}
    /\ Manager \notin Threads
    /\ None \notin Threads \cup Handles \cup {Manager}
    /\ Writers \subseteq Sessions
    /\ \A r, s \in Writers : Storage[r] = Storage[s] => Runs[r] = Runs[s]
    /\ FailCommit \subseteq Storages /\ FailBegin \subseteq Storages
    /\ MemoryLow => FailCommit = {}
    /\ MemoryLow \in BOOLEAN /\ MaxDepth \in Nat \ {0}

VARIABLES
    d,            \* the handle of each session
    began,        \* what the client of each session has begun and not ended
    made,         \* handles that exist
    transacted,   \* order # 0
    tx,           \* kind of _transaction
    resource_x,   \* holder of each handle's lock
    depth,        \* and how often it holds it
    w_lock,       \* the coordinators' write locks
    mwriters,     \* holder of the lock on the map of writers
    manage_x,     \* holder of the memory manager's lock
    pc,           \* what each client thread is doing
    call,         \* the session whose call it is
    mpc,          \* what the memory manager is doing
    todo,         \* handles it has still to visit
    mh            \* the handle it is visiting

handleVars == <<transacted, tx, w_lock>>
lockVars == <<resource_x, depth>>
managerVars == <<mpc, todo, mh>>
vars == <<d, began, made, mwriters, manage_x, pc, call, handleVars, lockVars, managerVars>>

StorageOf(h) == IF h \in Storages THEN h ELSE Storage[h]
IsWriter(h) == h \in Storages

Init ==
    /\ d = [s \in Sessions |-> None]
    /\ began = [s \in Sessions |-> "nothing"]
    /\ made = {}
    /\ transacted = [h \in Handles |-> FALSE]
    /\ tx = [h \in Handles |-> "none"]
    /\ resource_x = [h \in Handles |-> None]
    /\ depth = [h \in Handles |-> 0]
    /\ w_lock = [x \in Storages |-> FALSE]
    /\ mwriters = None /\ manage_x = None
    /\ pc = [t \in Threads |-> "idle"]
    /\ call = [t \in Threads |-> None]
    /\ mpc = "idle" /\ todo = {} /\ mh = None

-----------------------------------------------------------------------------
(* resource_x.                                                             *)
Lock(h, t) ==
    /\ resource_x[h] \in {None, t}
    /\ depth[h] < MaxDepth
    /\ resource_x' = [resource_x EXCEPT ![h] = t]
    /\ depth' = [depth EXCEPT ![h] = @ + 1]

(* Unlocking by a thread that does not hold it changes nothing.            *)
Unlock(h, t) ==
    IF resource_x[h] = t
    THEN /\ depth' = [depth EXCEPT ![h] = @ - 1]
         /\ resource_x' = [resource_x EXCEPT ![h] = IF depth[h] = 1 THEN None ELSE t]
    ELSE UNCHANGED lockVars

(* abstracted_storage::rollback.                                           *)
StorageRollback(h) ==
    /\ transacted' = [transacted EXCEPT ![h] = FALSE]
    /\ IF tx[h] # "none" /\ transacted[h]
       THEN /\ tx' = [tx EXCEPT ![h] = "none"]
            /\ w_lock' = IF tx[h] = "writer"
                         THEN [w_lock EXCEPT ![StorageOf(h)] = FALSE] ELSE w_lock
       ELSE UNCHANGED <<tx, w_lock>>

(* The memory manager has a transaction on the handle; it rolls it back    *)
(* without a lock that a client's rollback or commit would wait for.       *)
Visited(h) == mpc = "check" /\ mh = h /\ transacted[h]

(* dbms::rollback by thread t, of a reader handle: it has no write lock,   *)
(* and besides its session's thread only the manager, which waits for      *)
(* resource_x, looks at it.                                                *)
DbmsRollback(h, t) ==
    /\ ~Visited(h)
    /\ IF transacted[h] THEN StorageRollback(h) /\ Unlock(h, t)
                        ELSE UNCHANGED <<handleVars, lockVars>>

-----------------------------------------------------------------------------
(* The calls of a client.                                                  *)
Enter(s, where) ==
    /\ pc[Runs[s]] = "idle"
    /\ pc' = [pc EXCEPT ![Runs[s]] = where]
    /\ call' = [call EXCEPT ![Runs[s]] = s]

Return(t) ==
    /\ pc' = [pc EXCEPT ![t] = "idle"]
    /\ call' = [call EXCEPT ![t] = None]

(* A session is opened, or a route to its storage followed.                *)
OpenCalled(s) ==
    /\ d[s] = None /\ s \notin made
    /\ Enter(s, "add")
    /\ UNCHANGED <<d, began, made, mwriters, manage_x, handleVars, lockVars, managerVars>>

(* dbms_memmanager::add of a reader, which is given a transaction and      *)
(* rolled back as it is made, or fails to begin it.  A session that is     *)
(* opened then begins a transaction, one a route leads to does not.        *)
AddReader(t) ==
    LET s == call[t]
    IN
    /\ pc[t] = "add"
    /\ manage_x = None
    /\ d' = [d EXCEPT ![s] = s]
    /\ made' = made \cup {s}
    /\ \/ pc' = [pc EXCEPT ![t] = "begin"] /\ UNCHANGED call
       \/ Return(t)
    /\ UNCHANGED <<began, mwriters, manage_x, handleVars, lockVars, managerVars>>

AddReaderThrows(t) ==
    /\ pc[t] = "add"
    /\ manage_x = None
    /\ Storage[call[t]] \in FailBegin
    /\ Return(t)
    /\ UNCHANGED <<d, began, made, mwriters, manage_x, handleVars, lockVars, managerVars>>

(* begin(true): whatever handle the session has.                           *)
BeginCalled(s) ==
    /\ d[s] # None
    /\ Enter(s, "begin")
    /\ UNCHANGED <<d, began, made, mwriters, manage_x, handleVars, lockVars, managerVars>>

(* begin(false): a reader is rolled back and exchanged for the writer.     *)
BeginWriterCalled(s) ==
    /\ d[s] # None
    /\ s \in Writers
    /\ IF IsWriter(d[s])
       THEN /\ Enter(s, "begin")
            /\ UNCHANGED <<began, handleVars, lockVars>>
       ELSE /\ Enter(s, "get_writer")
            /\ DbmsRollback(d[s], Runs[s])
            /\ began' = [began EXCEPT ![s] = "nothing"]
    /\ UNCHANGED <<d, made, mwriters, manage_x, managerVars>>

(* get_writer: under mwriters, the writer if there is one ...              *)
GetWriter(t) ==
    LET x == Storage[call[t]]
    IN
    /\ pc[t] = "get_writer"
    /\ mwriters = None
    /\ IF x \in made
       THEN /\ d' = [d EXCEPT ![call[t]] = x]
            /\ pc' = [pc EXCEPT ![t] = "begin"]
            /\ UNCHANGED mwriters
       ELSE /\ mwriters' = t
            /\ pc' = [pc EXCEPT ![t] = "add_writer"]
            /\ UNCHANGED d
    /\ UNCHANGED <<began, made, manage_x, call, handleVars, lockVars, managerVars>>

(* ... else add makes a new one, under manage_x ...                        *)
AddWriter(t) ==
    /\ pc[t] = "add_writer"
    /\ manage_x = None
    /\ manage_x' = t
    /\ pc' = [pc EXCEPT ![t] = "make_writer"]
    /\ UNCHANGED <<d, began, made, mwriters, call, handleVars, lockVars, managerVars>>

(* ... which takes the write lock, begins and rolls back.  A slip would be *)
(* not to release the map.                                                 *)
MakeWriterLocked(t) ==
    LET x == Storage[call[t]]
    IN
    /\ pc[t] = "make_writer"
    /\ ~w_lock[x]
    /\ made' = made \cup {x}
    /\ d' = [d EXCEPT ![call[t]] = x]
    /\ manage_x' = None
    /\ pc' = [pc EXCEPT ![t] = "begin"]
    /\ UNCHANGED <<began, mwriters, call, handleVars, lockVars, managerVars>>

MakeWriter(t) ==
    LET x == Storage[call[t]]
    IN
    /\ pc[t] = "make_writer"
    /\ ~w_lock[x]
    /\ made' = made \cup {x}
    /\ d' = [d EXCEPT ![call[t]] = x]
    /\ manage_x' = None /\ mwriters' = None
    /\ pc' = [pc EXCEPT ![t] = "begin"]
    /\ UNCHANGED <<began, call, handleVars, lockVars, managerVars>>

(* If it fails to begin, the write lock stays locked.                      *)
MakeWriterThrows(t) ==
    LET x == Storage[call[t]]
    IN
    /\ pc[t] = "make_writer"
    /\ ~w_lock[x]
    /\ x \in FailBegin
    /\ w_lock' = [w_lock EXCEPT ![x] = TRUE]
    /\ manage_x' = None /\ mwriters' = None
    /\ Return(t)
    /\ UNCHANGED <<d, began, made, transacted, tx, lockVars, managerVars>>

(* What the client may take its transaction for when begin returns.        *)
Begun(s) ==
    began' = [began EXCEPT ![s] = IF IsWriter(d[s]) THEN "write" ELSE "read"]

(* dbms::begin: nothing to do if the handle is transacted ...              *)
BeginTest(t) ==
    /\ pc[t] = "begin"
    /\ IF transacted[d[call[t]]]
       THEN Begun(call[t]) /\ Return(t)
       ELSE /\ pc' = [pc EXCEPT ![t] = "lock"]
            /\ UNCHANGED <<began, call>>
    /\ UNCHANGED <<d, made, mwriters, manage_x, handleVars, lockVars, managerVars>>

(* ... else it is locked ...                                               *)
BeginLock(t) ==
    /\ pc[t] = "lock"
    /\ Lock(d[call[t]], t)
    /\ pc' = [pc EXCEPT ![t] = "start"]
    /\ UNCHANGED <<d, began, made, mwriters, manage_x, call, handleVars, managerVars>>

(* abstracted_tx_begin_1: a writer begins unless it is writing already, a  *)
(* reader if it is stale; a reader that has a transaction is not, since it *)
(* only keeps one while it is transacted.                                  *)
NeedsBegin(h) ==
    IF IsWriter(h) THEN ~transacted[h] \/ tx[h] # "writer" ELSE tx[h] = "none"

(* ... and what is still open on it given up; a writer then waits for the  *)
(* write lock.                                                             *)
BeginStart(t) ==
    LET h == d[call[t]]
    IN
    /\ pc[t] = "start"
    /\ IF NeedsBegin(h)
       THEN /\ IsWriter(h) => ~w_lock[h]
            /\ w_lock' = [x \in Storages |-> w_lock[x] \/ x = h]
            /\ tx' = IF transacted[h] THEN [tx EXCEPT ![h] = "none"] ELSE tx
            /\ transacted' = [transacted EXCEPT ![h] = FALSE]
            /\ pc' = [pc EXCEPT ![t] = "transaction"]
            /\ UNCHANGED <<began, call>>
       ELSE /\ Begun(call[t]) /\ Return(t)
            /\ UNCHANGED handleVars
    /\ UNCHANGED <<d, made, mwriters, manage_x, lockVars, managerVars>>

(* A slip: a transaction that was kept is not said to be underway.         *)
BeginTransactionKept(t) ==
    LET h == d[call[t]]
    IN
    /\ pc[t] = "transaction"
    /\ tx' = [tx EXCEPT ![h] = IF IsWriter(h) THEN "writer" ELSE "reader"]
    /\ transacted' = [transacted EXCEPT ![h] = (tx[h] = "none")]
    /\ Begun(call[t])
    /\ Return(t)
    /\ UNCHANGED <<d, made, w_lock, mwriters, manage_x, lockVars, managerVars>>

(* The coordinator gives it a transaction, unless it has kept one.         *)
BeginTransaction(t) ==
    LET h == d[call[t]]
    IN
    /\ pc[t] = "transaction"
    /\ tx' = [tx EXCEPT ![h] = IF @ # "none" THEN @
                               ELSE IF IsWriter(h) THEN "writer" ELSE "reader"]
    /\ transacted' = [transacted EXCEPT ![h] = TRUE]
    /\ Begun(call[t])
    /\ Return(t)
    /\ UNCHANGED <<d, made, w_lock, mwriters, manage_x, lockVars, managerVars>>

(* Or throws, and nothing unlocks what is locked.                          *)
BeginThrows(t) ==
    LET h == d[call[t]]
    IN
    /\ pc[t] = "transaction"
    /\ StorageOf(h) \in FailBegin
    /\ tx[h] = "none"
    /\ Return(t)
    /\ UNCHANGED <<d, began, made, mwriters, manage_x, handleVars, lockVars, managerVars>>

(* rollback and commit: nothing to do if the handle is not transacted.     *)
(* Otherwise a reader is rolled back, and the transaction on a writer      *)
(* ended step by step.                                                     *)
End(s, how) ==
    LET h == d[s]
    IN
    /\ h # None
    /\ pc[Runs[s]] = "idle"
    /\ IF IsWriter(h) /\ transacted[h]
       THEN /\ ~Visited(h)
            /\ Enter(s, how)
            /\ UNCHANGED <<began, handleVars, lockVars>>
       ELSE /\ DbmsRollback(h, Runs[s])
            /\ began' = [began EXCEPT ![s] = "nothing"]
            /\ UNCHANGED <<pc, call>>
    /\ UNCHANGED <<d, made, mwriters, manage_x, managerVars>>

RollbackCalled(s) == End(s, "discard")

CommitCalled(s) == End(s, "merge")

Ends(t, from, to) ==
    /\ pc[t] = from
    /\ pc' = [pc EXCEPT ![t] = to]
    /\ UNCHANGED <<d, began, made, mwriters, manage_x, call, lockVars, managerVars>>

(* A slip: the write lock is kept.                                         *)
DiscardLocked(t) ==
    /\ Ends(t, "discard", "reset")
    /\ tx' = [tx EXCEPT ![d[call[t]]] = "none"]
    /\ UNCHANGED <<transacted, w_lock>>

(* The transaction is discarded and forgotten ...                          *)
Discard(t) ==
    /\ Ends(t, "discard", "release")
    /\ tx' = [tx EXCEPT ![d[call[t]]] = "none"]
    /\ UNCHANGED <<transacted, w_lock>>

(* ... or merged, and kept ...                                             *)
CommitMerge(t) ==
    /\ Ends(t, "merge", "release")
    /\ tx[d[call[t]]] = "writer"
    /\ UNCHANGED handleVars

(* A slip: an exception leaves resource_x locked and the handle reset.     *)
CommitThrowsReset(t) ==
    /\ pc[t] = "merge"
    /\ d[call[t]] \in FailCommit
    /\ StorageRollback(d[call[t]])
    /\ began' = [began EXCEPT ![call[t]] = "nothing"]
    /\ Return(t)
    /\ UNCHANGED <<d, made, mwriters, manage_x, lockVars, managerVars>>

(* ... or the merge throws: resource_x is unlocked, and the handle still   *)
(* transacted.                                                             *)
CommitThrows(t) ==
    /\ pc[t] = "merge"
    /\ d[call[t]] \in FailCommit
    /\ Unlock(d[call[t]], t)
    /\ began' = [began EXCEPT ![call[t]] = "nothing"]
    /\ Return(t)
    /\ UNCHANGED <<d, made, mwriters, manage_x, handleVars, managerVars>>

(* write_unlock ...                                                        *)
Release(t) ==
    /\ Ends(t, "release", "reset")
    /\ w_lock' = [w_lock EXCEPT ![d[call[t]]] = FALSE]
    /\ UNCHANGED <<transacted, tx>>

(* A slip: the order is not reset, so that the handle stays transacted.    *)
ResetForgotten(t) ==
    /\ Ends(t, "reset", "unlock")
    /\ UNCHANGED handleVars

(* ... order = 0 ...                                                       *)
Reset(t) ==
    /\ Ends(t, "reset", "unlock")
    /\ transacted' = [transacted EXCEPT ![d[call[t]]] = FALSE]
    /\ UNCHANGED <<tx, w_lock>>

(* ... and, after a commit has synched the journal, resource_x.            *)
EndUnlock(t) ==
    /\ pc[t] = "unlock"
    /\ Unlock(d[call[t]], t)
    /\ began' = [began EXCEPT ![call[t]] = "nothing"]
    /\ Return(t)
    /\ UNCHANGED <<d, made, mwriters, manage_x, handleVars, managerVars>>

(* The session is closed; its handle, and a transaction on it, stay.       *)
Close(s) ==
    /\ d[s] # None
    /\ pc[Runs[s]] = "idle"
    /\ d' = [d EXCEPT ![s] = None]
    /\ began' = [began EXCEPT ![s] = "nothing"]
    /\ UNCHANGED <<made, mwriters, manage_x, pc, call, handleVars, lockVars, managerVars>>

-----------------------------------------------------------------------------
(* check_dbms: under manage_x, with little memory left, all handles ...    *)
ManageMemory ==
    /\ MemoryLow
    /\ mpc = "idle"
    /\ manage_x = None
    /\ manage_x' = Manager
    /\ mpc' = "walk"
    /\ todo' = made
    /\ UNCHANGED <<d, began, made, mwriters, pc, call, handleVars, lockVars, mh>>

(* ... are visited, those that are transacted left alone ...               *)
Visit(h) ==
    /\ mpc = "walk"
    /\ h \in todo
    /\ todo' = todo \ {h}
    /\ IF transacted[h]
       THEN UNCHANGED <<mpc, mh>>
       ELSE mpc' = "lock" /\ mh' = h
    /\ UNCHANGED <<d, began, made, mwriters, manage_x, pc, call, handleVars, lockVars>>

(* A slip: the lock is not waited for.                                     *)
ManagerLockIgnored ==
    /\ mpc = "lock"
    /\ mpc' = "start"
    /\ UNCHANGED <<d, began, made, mwriters, manage_x, pc, call, handleVars, lockVars,
                   todo, mh>>

(* ... the others locked ...                                               *)
ManagerLock ==
    /\ mpc = "lock"
    /\ Lock(mh, Manager)
    /\ mpc' = "start"
    /\ UNCHANGED <<d, began, made, mwriters, manage_x, pc, call, handleVars, todo, mh>>

(* ... given a reader's transaction if they have none, to free memory ...  *)
ManagerBegin ==
    /\ mpc = "start"
    /\ IF tx[mh] = "none"
       THEN /\ tx' = [tx EXCEPT ![mh] = "reader"]
            /\ transacted' = [transacted EXCEPT ![mh] = TRUE]
       ELSE UNCHANGED <<tx, transacted>>
    /\ mpc' = "check"
    /\ UNCHANGED <<d, began, made, w_lock, mwriters, manage_x, pc, call, lockVars, todo, mh>>

(* ... and rolled back.                                                    *)
ManagerRollback ==
    /\ mpc = "check"
    /\ StorageRollback(mh)
    /\ Unlock(mh, Manager)
    /\ mpc' = "walk"
    /\ mh' = None
    /\ UNCHANGED <<d, began, made, mwriters, manage_x, pc, call, todo>>

(* Memory may still be low, or manage_x is released.                       *)
ManagerAgain ==
    /\ mpc = "walk" /\ todo = {}
    /\ todo' = made
    /\ UNCHANGED <<d, began, made, mwriters, manage_x, pc, call, handleVars, lockVars, mpc, mh>>

ManagerDone ==
    /\ mpc = "walk" /\ todo = {}
    /\ manage_x' = None
    /\ mpc' = "idle"
    /\ UNCHANGED <<d, began, made, mwriters, pc, call, handleVars, lockVars, todo, mh>>

-----------------------------------------------------------------------------
ThreadStep(t) ==
    \/ AddReader(t)
    \/ AddReaderThrows(t)
    \/ GetWriter(t)
    \/ AddWriter(t)
    \/ MakeWriter(t)
    \/ MakeWriterThrows(t)
    \/ BeginTest(t)
    \/ BeginLock(t)
    \/ BeginStart(t)
    \/ BeginTransaction(t)
    \/ BeginThrows(t)
    \/ Discard(t)
    \/ CommitMerge(t)
    \/ CommitThrows(t)
    \/ Release(t)
    \/ Reset(t)
    \/ EndUnlock(t)

ManagerStep ==
    \/ \E h \in Handles : Visit(h)
    \/ ManagerLock
    \/ ManagerBegin
    \/ ManagerRollback
    \/ ManagerDone

Next ==
    \/ \E s \in Sessions :
        \/ OpenCalled(s)
        \/ BeginCalled(s)
        \/ BeginWriterCalled(s)
        \/ RollbackCalled(s)
        \/ CommitCalled(s)
        \/ Close(s)
    \/ \E t \in Threads : ThreadStep(t)
    \/ ManageMemory
    \/ ManagerStep
    \/ ManagerAgain

(* The operating system runs every thread; nothing makes a client call or  *)
(* memory be low.                                                          *)
Fairness ==
    /\ \A t \in Threads : WF_vars(ThreadStep(t))
    /\ WF_vars(ManagerStep)

Spec == Init /\ [][Next]_vars /\ Fairness

-----------------------------------------------------------------------------
TypeOK ==
    /\ d \in [Sessions -> Handles \cup {None}]
    /\ began \in [Sessions -> {"nothing", "read", "write"}]
    /\ made \subseteq Handles
    /\ transacted \in [Handles -> BOOLEAN]
    /\ tx \in [Handles -> {"none", "reader", "writer"}]
    /\ resource_x \in [Handles -> Threads \cup {Manager, None}]
    /\ depth \in [Handles -> 0..MaxDepth]
    /\ w_lock \in [Storages -> BOOLEAN]
    /\ mwriters \in Threads \cup {None}
    /\ manage_x \in Threads \cup {Manager, None}
    /\ pc \in [Threads -> {"idle", "add", "get_writer", "add_writer", "make_writer", "begin",
                           "lock", "start", "transaction", "discard", "merge", "release",
                           "reset", "unlock"}]
    /\ call \in [Threads -> Sessions \cup {None}]
    /\ mpc \in {"idle", "walk", "lock", "start", "check"}
    /\ todo \subseteq Handles
    /\ mh \in Handles \cup {None}

(* Thread t is at one of the places, in a call on handle h.                *)
In(t, h, places) == pc[t] \in places /\ d[call[t]] = h

(* It has locked it, and not begun, or ended, and not unlocked it.         *)
Inside(t, h) == In(t, h, {"start", "transaction", "unlock"})

(* A write transaction underway has the write lock of its storage until    *)
(* its commit lets go of it, through commits that keep the transaction and *)
(* failures that keep it open.                                             *)
WriterHoldsLock ==
    \A x \in Storages :
        transacted[x] /\ tx[x] = "writer" =>
            w_lock[x] \/ \E t \in Threads : In(t, x, {"reset"})

(* What that rests on: one thread at a time is between the write lock and  *)
(* its transaction, and nobody is writing meanwhile; a call is made by the *)
(* session's own thread, on a handle that is its own, or its storage's if  *)
(* it writes; reader handles never write; resource_x is counted.           *)
Beginning(t, x) == In(t, x, {"transaction"})

BeginnerIsAlone ==
    \A t \in Threads, x \in Storages :
        Beginning(t, x) => /\ w_lock[x]
                           /\ ~(transacted[x] /\ tx[x] = "writer")
                           /\ \A u \in Threads : Beginning(u, x) => u = t

CallsAreOwn ==
    /\ \A t \in Threads :
         pc[t] # "idle" =>
             /\ call[t] \in Sessions
             /\ Runs[call[t]] = t
             /\ pc[t] \notin {"add", "get_writer", "add_writer", "make_writer"} =>
                    d[call[t]] \in Handles
             /\ pc[t] \in {"get_writer", "add_writer", "make_writer"} => call[t] \in Writers
             /\ pc[t] \in {"discard", "merge", "release", "reset", "unlock"} =>
                    d[call[t]] \in Storages
    /\ \A s \in Sessions : d[s] \in Storages => s \in Writers /\ d[s] = Storage[s]
    /\ mpc \in {"lock", "start", "check"} => mh \in Handles

ReadersNeverWrite == \A s \in Sessions : tx[s] # "writer"

DepthCounts == \A h \in Handles : resource_x[h] # None => depth[h] > 0

WriteLockInv ==
    /\ TypeOK
    /\ CallsAreOwn
    /\ DepthCounts
    /\ ReadersNeverWrite
    /\ BeginnerIsAlone
    /\ WriterHoldsLock

(* What the other promises rest on: whoever is beginning a transaction on a*)
(* handle holds its lock; a reader's transaction on a writer handle is the *)
(* memory manager's; a thread that is ending a transaction finds it as it  *)
(* was; and where no merge throws, a client's thread holds the lock of a   *)
(* handle with a transaction that is not the manager's.                    *)
HoldersKnown ==
    /\ \A t \in Threads :
         pc[t] \in {"start", "transaction"} => resource_x[d[call[t]]] = t
    /\ mpc \in {"start", "check"} => resource_x[mh] = Manager

ManagerReads ==
    /\ mpc # "idle" => MemoryLow
    /\ \A x \in Storages :
         tx[x] = "reader" => transacted[x] /\ mpc = "check" /\ mh = x

Underway(x) == transacted[x] /\ tx[x] # "reader"

EndsKnown ==
    \A t \in Threads, x \in Storages :
        /\ In(t, x, {"discard", "merge", "release", "reset"}) => Underway(x)
        /\ In(t, x, {"reset"}) => ~w_lock[x]
        /\ In(t, x, {"unlock"}) => ~Underway(x)

WritesAreHeld == \A x \in Storages : Underway(x) => resource_x[x] \in Threads

(* Handles and locks always match: resource_x and the write lock are held  *)
(* by whom dbms::begin, commit, rollback and the memory manager's check    *)
(* take to hold them, at every step of theirs.                             *)
HoldInv ==
    /\ WriteLockInv
    /\ HoldersKnown
    /\ ManagerReads
    /\ EndsKnown
    /\ FailCommit = {} => WritesAreHeld

(* The write lock is only ever locked on behalf of a write transaction     *)
(* underway or one just being begun or rolled back, so that rollback,      *)
(* which "releases whatever version locks may be used" of a transaction,   *)
(* can release it.                                                         *)
LockedByWriter ==
    \A x \in Storages :
        w_lock[x] => \/ transacted[x] /\ tx[x] = "writer"
                     \/ \E t \in Threads : In(t, x, {"transaction", "release"})

(* resource_x is held only while there is a transaction on the handle, or  *)
(* its holder is about to begin or to end one.                             *)
IdleIsUnlocked ==
    \A h \in Handles, t \in Threads :
        resource_x[h] = t => transacted[h] \/ Inside(t, h)

(* "Starts a read only transaction": when begin has returned there is a    *)
(* transaction, until the client of the session ends it.                   *)
BegunIsTransacted ==
    \A s \in Sessions :
        began[s] # "nothing" /\ pc[Runs[s]] # "unlock" => transacted[d[s]]

(* The memory manager never ends a client's write transaction.             *)
ManagerKeepsWrites ==
    [][\A x \in Storages :
         /\ mpc = "check" /\ mpc' = "walk"
         /\ transacted[x] /\ tx[x] = "writer"
         => transacted'[x] /\ tx'[x] = "writer"]_vars

(* A call returns.                                                         *)
CallsReturn == \A t \in Threads : pc[t] # "idle" ~> pc[t] = "idle"
=============================================================================
