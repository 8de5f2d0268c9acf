---------------------------- MODULE Replication -----------------------------
(***************************************************************************)
(* Block replication: the nodes that write (replication_control with its   *)
(* block_replication_clients, storage/network/replication.h) and the       *)
(* replicants they write to (block_replication_server::run,                *)
(* replication.cpp).                                                       *)
(*                                                                         *)
(* A remote call is one step, as the server runs its handlers on one       *)
(* thread; the loops over the replicants are made of such steps, so that   *)
(* the calls of several nodes, crashes and broken connections come in      *)
(* between.  A transaction writes all of Blocks; an entry <<v, b>> is what *)
(* transaction v wrote to block b.                                         *)
(*                                                                         *)
(* No timeout is set on an rpc::client, so a call on a connection that     *)
(* broke, or that could not be made, waits for ever: no step of the node   *)
(* is enabled.  The exception the loops do meet is that of a replicant's   *)
(* name that does not resolve, in open.                                    *)
(*                                                                         *)
(* The server has ONE storage handle for all connections: "null", or with  *)
(* a read transaction (as it is constructed), a write transaction, none,   *)
(* or "kept", the transaction that a commit merged and kept, which is not  *)
(* underway (order = 0) until a begin for writing takes it up, or one for  *)
(* reading, when it is "revived": underway, and written to by store.       *)
(*                                                                         *)
(* The node's writer handle keeps its transaction in the same way, and the *)
(* coordinator's begin, which alone calls begin_replicants, is called only *)
(* for a handle without one: a transaction that follows an acknowledged    *)
(* one on the same handle is not begun on the replicants.  Readers keep    *)
(* none; every begin of theirs is a begin for reading on every replicant.  *)
(***************************************************************************)
EXTENDS Integers, Sequences, FiniteSets, Functions

CONSTANTS
    Nodes,       \* writing nodes, each with one replication_control
    N,           \* number of replicants
    B,           \* number of blocks of a transaction
    Plans,       \* sets of the kinds of fault, and reads, that come together
    MaxTx,       \* bound: transactions
    MaxFaults    \* bound: faults and reads

ASSUME ReplicationAssumption ==
    /\ IsFiniteSet(Nodes)
    /\ N \in Nat \ {0} /\ B \in Nat \ {0}
    /\ Plans \subseteq SUBSET {"node", "replicant", "network", "resolve", "commit", "read"}
    /\ MaxTx \in Nat /\ MaxFaults \in Nat

VARIABLES
    server,     \* replicant -> [handle, staged, log]: log is what it committed
    up,         \* replicant -> is it running
    conn,       \* node -> replicant -> "none" (remote == nullptr), "up", "broken"
    node,       \* node -> where its writer is in replication_control, see Idle
    kept,       \* node -> its writer handle has kept its transaction
    reader,     \* node -> where a reader's begin is
    outcome,    \* transaction -> how it ended, see Finish
    plan,       \* the kinds of fault there are
    faults,     \* faults and reads so far
    faultAt     \* the last transaction that began before the last of them

ends == <<outcome, kept>>
vars == <<server, up, conn, node, reader, ends, plan, faults, faultAt>>

Replicants == 1..N

Blocks == 1..B

\* replicated.size() / 2
Quorum == N \div 2

----------------------------------------------------------------------------
(* The server's handlers                                                   *)

\* A slip: only a storage that is new is opened, and is_new is false
ServerOpenNew(s) == s

\* open: the storage is constructed with a read transaction.
ServerOpen(s) == IF s.handle = "null" THEN [s EXCEPT !.handle = "reading"] ELSE s

\* A process that starts has no storage open.
Stopped(s) == [s EXCEPT !.handle = "null", !.staged = {}]

\* A slip: what was stored and not committed stays
ServerBeginOver(s, writer) ==
    IF s.handle = "null" THEN s
    ELSE [s EXCEPT !.handle = IF writer THEN "writing"
                              ELSE IF s.handle = "kept" THEN "revived" ELSE "reading"]

\* A slip: the transaction the storage was constructed with stays
ServerBeginKeeps(s, writer) ==
    IF s.handle \in {"null", "reading"} THEN s
    ELSE [s EXCEPT !.staged = {},
                   !.handle = IF writer THEN "writing"
                              ELSE IF s.handle = "kept" THEN "revived" ELSE "reading"]

\* beginVersion: a transaction that is underway is rolled back, one that was
\* kept is taken up again, for writing or for reading.
ServerBegin(s, writer) ==
    IF s.handle = "null" THEN s
    ELSE [s EXCEPT !.staged = {},
                   !.handle = IF writer THEN "writing"
                              ELSE IF s.handle = "kept" THEN "revived" ELSE "reading"]

\* store throws in a read transaction and does nothing with none underway.
StoreThrows(s) == s.handle = "reading"

Writes(s) == s.handle \in {"writing", "revived"}

ServerStore(s, e) == IF Writes(s) THEN [s EXCEPT !.staged = @ \cup {e}] ELSE s

\* commit merges the transaction begun for writing and keeps it, and commits
\* the one begun for reading, which ends it; all else changes nothing.
ServerCommit(s) ==
    IF ~Writes(s) THEN s
    ELSE [s EXCEPT !.handle = IF s.handle = "writing" THEN "kept" ELSE "none", !.staged = {},
                   !.log = IF s.staged = {} THEN @ ELSE Append(@, s.staged)]

ServerRollback(s) ==
    IF s.handle \in {"reading", "writing", "revived"}
    THEN [s EXCEPT !.handle = "none", !.staged = {}] ELSE s

----------------------------------------------------------------------------
(* A node: its place in a loop over the replicants.  The results of the    *)
(* remote begin, store and commit are not looked at, only exceptions are.  *)

\* At the first replicant.
First(pc, then, tx) ==
    [pc |-> pc, then |-> then, at |-> 1, block |-> 1, ok |-> {}, tx |-> tx]

Idle == First("idle", "idle", 0)

Started == Cardinality(DOMAIN outcome) + Cardinality({n \in Nodes : node[n].pc # "idle"})

\* A call on it returns.
Answers(n, r) == conn[n][r] # "broken"

\* is_open, when it returns
IsOpen(n, r) == conn[n][r] = "up" /\ server[r].handle # "null"

Enough(n) == Cardinality(node[n].ok) >= Quorum

\* The next loop.
Go(n, pc) == node' = [node EXCEPT ![n] = First(pc, node[n].then, node[n].tx)]

\* Every loop over the replicants checks first that enough of them are open.
CheckThen(n, loop) == node' = [node EXCEPT ![n] = First("check", loop, node[n].tx)]

\* The next replicant.
Proceed(n, counts) ==
    node' = [node EXCEPT ![n] =
                [node[n] EXCEPT !.at = node[n].at + 1, !.block = 1,
                                !.ok = node[n].ok \cup (IF counts THEN {node[n].at} ELSE {})]]

\* "acked" after a remote begin, "unbegun" when acknowledged without one,
\* "failed", or "open" when the node stopped.  commit keeps the transaction.
Finish(n, how) ==
    /\ node' = [node EXCEPT ![n] = Idle]
    /\ outcome' = [v \in DOMAIN outcome \cup {node[n].tx} |->
                        IF v = node[n].tx THEN how ELSE outcome[v]]
    /\ kept' = [kept EXCEPT ![n] = how \in {"acked", "unbegun"}]

Acknowledge(n) == Finish(n, IF kept[n] THEN "unbegun" ELSE "acked")

In(n, pc) == node[n].pc = pc /\ node[n].at <= N

Through(n, pc) == node[n].pc = pc /\ node[n].at > N

Quiet == UNCHANGED <<up, reader, plan, faults, faultAt>>

\* abstracted_storage::begin of the writer: mvcc_coordinator::begin, which
\* begins on the replicants, only if there is no transaction yet.
Begin(n) ==
    /\ node[n].pc = "idle"
    /\ Started < MaxTx
    /\ node' = [node EXCEPT ![n] = First(IF kept[n] THEN "work" ELSE "check", "begin", Started + 1)]
    /\ UNCHANGED <<server, conn, ends>> /\ Quiet

\* check_open_replicants at one replicant: open it if it is not.  A client
\* that cannot connect never tries again.
Opens(n, r) == conn[n][r] = "up" \/ up[r]

OpenCall(n, r) ==
    /\ Answers(n, r)
    /\ server' = IF Opens(n, r) THEN [server EXCEPT ![r] = ServerOpen(@)] ELSE server
    /\ conn' = [conn EXCEPT ![n][r] = IF Opens(n, r) THEN "up" ELSE "broken"]

Check(n) ==
    /\ In(n, "check")
    /\ OpenCall(n, node[n].at)
    /\ IF Opens(n, node[n].at) THEN Proceed(n, TRUE) ELSE UNCHANGED node
    /\ UNCHANGED ends /\ Quiet

\* Too few: begin throws, merge throws and leaves the transaction to the
\* client, and discard goes on without the replicants.
CheckDone(n) ==
    /\ Through(n, "check")
    /\ \/ Enough(n) /\ Go(n, node[n].then) /\ UNCHANGED ends
       \/ /\ ~Enough(n)
          /\ IF node[n].then \in {"begin", "rollback"} THEN Finish(n, "failed")
             ELSE Go(n, "toofew") /\ UNCHANGED ends
    /\ UNCHANGED <<server, conn>> /\ Quiet

\* begin_replicants; without a connection begin only returns false.
BeginCall(n) ==
    /\ In(n, "begin")
    /\ LET r == node[n].at
       IN  /\ Answers(n, r)
           /\ Proceed(n, TRUE)
           /\ server' = IF conn[n][r] = "up" THEN [server EXCEPT ![r] = ServerBegin(@, TRUE)] ELSE server
    /\ UNCHANGED <<conn, ends>> /\ Quiet

BeginDone(n) ==
    /\ Through(n, "begin")
    /\ Go(n, "work")
    /\ UNCHANGED <<server, conn, ends>> /\ Quiet

\* mvcc_coordinator::merge of the transaction
Merge(n) ==
    /\ node[n].pc = "work"
    /\ CheckThen(n, "write")
    /\ UNCHANGED <<server, conn, ends>> /\ Quiet

\* The replicants that are not open are passed over.
Skip(n) ==
    /\ \E pc \in {"write", "commit", "rollback"} : In(n, pc)
    /\ Answers(n, node[n].at) /\ ~IsOpen(n, node[n].at) /\ node[n].block = 1
    /\ Proceed(n, FALSE)
    /\ UNCHANGED <<server, conn, ends>> /\ Quiet

\* write_replicants and replicate: one block to one replicant.
WriteCall(n) ==
    /\ In(n, "write") /\ Answers(n, node[n].at) /\ IsOpen(n, node[n].at)
    /\ LET r == node[n].at
           b == node[n].block
       IN  /\ ~StoreThrows(server[r])
           /\ server' = [server EXCEPT ![r] = ServerStore(@, <<node[n].tx, b>>)]
           /\ IF b = B THEN Proceed(n, TRUE) ELSE node' = [node EXCEPT ![n].block = b + 1]
    /\ UNCHANGED <<conn, ends>> /\ Quiet

\* The loop that takes back what too few did is left out: see NeverTooFew.
WriteDone(n) ==
    /\ Through(n, "write")
    /\ IF Enough(n) THEN CheckThen(n, "commit") ELSE Go(n, "toofew")
    /\ UNCHANGED <<server, conn, ends>> /\ Quiet

\* A slip: enough is enough
CommitCallEnough(n) ==
    /\ In(n, "commit") /\ Answers(n, node[n].at) /\ IsOpen(n, node[n].at)
    /\ Proceed(n, TRUE)
    /\ server' = IF Enough(n) THEN server ELSE [server EXCEPT ![node[n].at] = ServerCommit(@)]
    /\ UNCHANGED <<conn, ends>> /\ Quiet

\* commit_replicants counts every open replicant.
CommitCall(n) ==
    /\ In(n, "commit") /\ Answers(n, node[n].at) /\ IsOpen(n, node[n].at)
    /\ Proceed(n, TRUE)
    /\ server' = [server EXCEPT ![node[n].at] = ServerCommit(@)]
    /\ UNCHANGED <<conn, ends>> /\ Quiet

\* A slip: all must have committed
CommitDoneAll(n) ==
    /\ Through(n, "commit")
    /\ IF node[n].ok = Replicants THEN Acknowledge(n) ELSE Go(n, "toofew") /\ UNCHANGED ends
    /\ UNCHANGED <<server, conn>> /\ Quiet

CommitDone(n) ==
    /\ Through(n, "commit")
    /\ IF Enough(n) THEN Acknowledge(n) ELSE Go(n, "toofew") /\ UNCHANGED ends
    /\ UNCHANGED <<server, conn>> /\ Quiet

\* discard: the client rolls back, also after an exception of merge.
Abort(n) ==
    /\ node[n].pc \in {"work", "toofew"}
    /\ CheckThen(n, "rollback")
    /\ UNCHANGED <<server, conn, ends>> /\ Quiet

\* rolback_replicants
RollbackCall(n) ==
    /\ In(n, "rollback") /\ Answers(n, node[n].at) /\ IsOpen(n, node[n].at)
    /\ Proceed(n, TRUE)
    /\ server' = [server EXCEPT ![node[n].at] = ServerRollback(@)]
    /\ UNCHANGED <<conn, ends>> /\ Quiet

\* The transaction is discarded in any case.
RollbackDone(n) ==
    /\ Through(n, "rollback")
    /\ Finish(n, "failed")
    /\ UNCHANGED <<server, conn>> /\ Quiet

----------------------------------------------------------------------------
(* A reader of the node, a session's or the memory manager's: its begin    *)
(* runs the same two loops on a thread of its own, whatever the writer is  *)
(* doing; its commit and rollback call no replicant.  Reads are counted    *)
(* with the faults.                                                        *)

ReadAt(pc) == [pc |-> pc, at |-> 1, ok |-> {}]

Reads(n, pc) == reader[n].pc = pc /\ reader[n].at <= N

ReadProceed(n, counts) ==
    reader' = [reader EXCEPT ![n] =
                  [reader[n] EXCEPT !.at = reader[n].at + 1,
                                    !.ok = reader[n].ok \cup (IF counts THEN {reader[n].at} ELSE {})]]

ReadCheck(n) ==
    /\ Reads(n, "check")
    /\ OpenCall(n, reader[n].at)
    /\ IF Opens(n, reader[n].at) THEN ReadProceed(n, TRUE) ELSE UNCHANGED reader
    /\ UNCHANGED <<up, node, ends, plan, faults, faultAt>>

\* begin_replicants(false)
ReadCall(n) ==
    /\ Reads(n, "begin")
    /\ LET r == reader[n].at
       IN  /\ Answers(n, r)
           /\ server' = IF conn[n][r] = "up" THEN [server EXCEPT ![r] = ServerBegin(@, FALSE)] ELSE server
    /\ ReadProceed(n, TRUE)
    /\ faultAt' = Started
    /\ UNCHANGED <<up, conn, node, ends, plan, faults>>

\* The second loop, or the begin has returned, or has thrown for too few.
ReadDone(n) ==
    /\ reader[n].pc # "idle" /\ reader[n].at > N
    /\ reader' = [reader EXCEPT ![n] =
                      ReadAt(IF reader[n].pc = "check" /\ Cardinality(reader[n].ok) >= Quorum
                             THEN "begin" ELSE "idle")]
    /\ UNCHANGED <<server, up, conn, node, ends, plan, faults, faultAt>>

Read(n) == ReadCheck(n) \/ ReadCall(n) \/ ReadDone(n)

----------------------------------------------------------------------------
(* Faults                                                                  *)

Fault(kind) ==
    /\ kind \in plan
    /\ faults < MaxFaults
    /\ faults' = faults + 1
    /\ faultAt' = Started
    /\ UNCHANGED plan

ReadBegin(n) ==
    /\ Fault("read")
    /\ reader[n].pc = "idle"
    /\ reader' = [reader EXCEPT ![n] = ReadAt("check")]
    /\ UNCHANGED <<server, up, conn, node, ends>>

\* open throws, before there is a client.
Unresolved(n) ==
    /\ Fault("resolve")
    /\ In(n, "check") /\ conn[n][node[n].at] = "none"
    /\ Proceed(n, FALSE)
    /\ UNCHANGED <<server, up, conn, reader, ends>>

ReadUnresolved(n) ==
    /\ Fault("resolve")
    /\ Reads(n, "check") /\ conn[n][reader[n].at] = "none"
    /\ ReadProceed(n, FALSE)
    /\ UNCHANGED <<server, up, conn, node, ends>>

\* The replicant's merge throws, and commit returns false.
CommitFails(n) ==
    /\ Fault("commit")
    /\ In(n, "commit") /\ Answers(n, node[n].at) /\ IsOpen(n, node[n].at)
    /\ Proceed(n, TRUE)
    /\ UNCHANGED <<server, up, conn, reader, ends>>

\* One connection breaks; the replicant's handle stays as it is.
Disconnect(n, r) ==
    /\ Fault("network")
    /\ conn[n][r] = "up"
    /\ conn' = [conn EXCEPT ![n][r] = "broken"]
    /\ UNCHANGED <<server, up, node, reader, ends>>

\* A node stops and starts, with new handles; its transaction ends in nobody's
\* knowledge.
NodeRestart(n) ==
    /\ Fault("node")
    /\ IF node[n].pc # "idle" THEN Finish(n, "open")
       ELSE kept' = [kept EXCEPT ![n] = FALSE] /\ UNCHANGED <<node, outcome>>
    /\ conn' = [conn EXCEPT ![n] = [r \in Replicants |-> "none"]]
    /\ reader' = [reader EXCEPT ![n] = ReadAt("idle")]
    /\ UNCHANGED <<server, up>>

\* A replicant stops; what it committed is on its disk (see Journal).
Stop(r) ==
    /\ up[r]
    /\ up' = [up EXCEPT ![r] = FALSE]
    /\ server' = [server EXCEPT ![r] = Stopped(@)]
    /\ conn' = [n \in Nodes |-> [conn[n] EXCEPT ![r] = IF @ = "up" THEN "broken" ELSE @]]

Crash(r) ==
    /\ Fault("replicant")
    /\ Stop(r)
    /\ UNCHANGED <<node, reader, ends>>

\* The exception of store leaves the server's run.
StoreStops(n) ==
    /\ In(n, "write") /\ Answers(n, node[n].at) /\ IsOpen(n, node[n].at)
    /\ StoreThrows(server[node[n].at])
    /\ Stop(node[n].at)
    /\ UNCHANGED <<node, reader, ends, plan, faults, faultAt>>

Restart(r) ==
    /\ ~up[r]
    /\ up' = [up EXCEPT ![r] = TRUE]
    /\ faultAt' = Started
    /\ UNCHANGED <<server, conn, node, reader, ends, plan, faults>>

----------------------------------------------------------------------------

Init ==
    /\ server = [r \in Replicants |-> [handle |-> "null", staged |-> {}, log |-> <<>>]]
    /\ up = [r \in Replicants |-> TRUE]
    /\ conn = [n \in Nodes |-> [r \in Replicants |-> "none"]]
    /\ node = [n \in Nodes |-> Idle]
    /\ kept = [n \in Nodes |-> FALSE]
    /\ reader = [n \in Nodes |-> ReadAt("idle")]
    /\ outcome = <<>>
    /\ plan \in Plans
    /\ faults = 0 /\ faultAt = 0

Call(n) ==
    \/ Check(n) \/ CheckDone(n) \/ BeginCall(n) \/ BeginDone(n) \/ Skip(n)
    \/ WriteCall(n) \/ StoreStops(n) \/ WriteDone(n) \/ CommitCall(n) \/ CommitDone(n)
    \/ RollbackCall(n) \/ RollbackDone(n)

Client(n) == Begin(n) \/ Merge(n) \/ Abort(n)

Faulty(n) ==
    \/ ReadBegin(n) \/ ReadUnresolved(n) \/ Unresolved(n) \/ CommitFails(n) \/ NodeRestart(n)
    \/ \E r \in Replicants : Disconnect(n, r)

Next ==
    \/ \E n \in Nodes : Call(n) \/ Read(n) \/ Client(n) \/ Faulty(n)
    \/ \E r \in Replicants : Crash(r) \/ Restart(r)

\* Loops of remote calls go on, and a client ends the transactions it began.
Fairness ==
    \A n \in Nodes : WF_vars(Call(n)) /\ WF_vars(Merge(n) \/ Abort(n))

Spec == Init /\ [][Next]_vars /\ Fairness

----------------------------------------------------------------------------
(* Properties                                                              *)

Whole(v) == {<<v, b>> : b \in Blocks}

\* What a replicant committed goes forward in the order of the node's
\* transactions, with nothing twice, and, as long as nobody reads, in whole
\* transactions: no part of one, and nothing left over from one whose node
\* stopped.  (After a commit that failed the next transaction joins the one
\* before it.)
LogsAreHistories ==
    \A r \in Replicants :
        LET log == server[r].log
        IN  /\ \A i, j \in DOMAIN log : i < j => \A e \in log[i], f \in log[j] : e[1] < f[1]
            /\ "read" \notin plan =>
                 \A i \in DOMAIN log : \A e \in log[i] : Whole(e[1]) \subseteq log[i]

\* A transaction the client saw fail is on no replicant, not even a part of it.
FailedIsNowhere ==
    \A v \in DOMAIN outcome : outcome[v] = "failed" =>
        \A r \in Replicants : \A i \in DOMAIN server[r].log : \A e \in server[r].log[i] : e[1] # v

\* A transaction that began on enough replicants finds enough of them open until
\* it ends: the code that takes back a write or a commit that too few did, which
\* closes the storage of every node and cannot take back a commit, is not needed.
NeverTooFew == \A n \in Nodes : node[n].pc # "toofew"

Holds(r, v) == Whole(v) \in Range(server[r].log)

\* Whatever was lost before, a transaction that is begun on the replicants,
\* meets no fault and no read and is acknowledged is on every replicant: the
\* ones that came back are part of it.
AckedIsEverywhere ==
    \A v \in DOMAIN outcome :
        (outcome[v] = "acked" /\ v > faultAt) => \A r \in Replicants : Holds(r, v)

\* Commits that fail on replicants and nodes that stop keep no transaction from
\* ending, and the client can start the next one.  (A replicant or a connection
\* that is lost does: the next call waits for ever.)
TransactionsEnd ==
    \A n \in Nodes :
        (plan \subseteq {"node", "commit"} /\ node[n].pc # "idle") ~> (node[n].pc = "idle")

=============================================================================
