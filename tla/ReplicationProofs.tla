------------------------- MODULE ReplicationProofs --------------------------
(***************************************************************************)
(* What replicants hold.  For any number of nodes and replicants and any   *)
(* faults, a transaction that began on enough replicants never finds too   *)
(* few of them.  For one node whose faults are not both restarts and names *)
(* that do not resolve, replicants commit in the order of the transactions *)
(* and none that failed, whole ones as long as nobody reads, and all that  *)
(* were begun on them and met no fault and no read.                        *)
(***************************************************************************)
EXTENDS Replication, FiniteSetTheorems, TLAPS

Entries == Nat \X Nat

Pcs == {"idle", "check", "begin", "work", "write", "commit", "rollback", "toofew"}

Loops == {"idle", "begin", "write", "commit", "rollback"}

Servers ==
    [handle : {"null", "reading", "writing", "none", "kept", "revived"}, staged : SUBSET Entries,
     log : Seq(SUBSET Entries)]

NodeStates ==
    [pc : Pcs, then : Loops, at : Nat \ {0}, block : Nat \ {0}, ok : SUBSET Replicants, tx : Nat]

ReaderStates == [pc : {"idle", "check", "begin"}, at : Nat \ {0}, ok : SUBSET Replicants]

TypeInv ==
    /\ server \in [Replicants -> Servers]
    /\ up \in [Replicants -> BOOLEAN]
    /\ conn \in [Nodes -> [Replicants -> {"none", "up", "broken"}]]
    /\ node \in [Nodes -> NodeStates]
    /\ kept \in [Nodes -> BOOLEAN]
    /\ reader \in [Nodes -> ReaderStates]
    /\ IsFiniteSet(DOMAIN outcome)
    /\ plan \in Plans /\ faults \in Nat /\ faultAt \in Nat

LEMMA InitTypes == Init => TypeInv
<1> SUFFICES ASSUME Init PROVE TypeInv
  OBVIOUS
<1>1. node \in [Nodes -> NodeStates]
  BY DEF Init, Idle, First, NodeStates, Pcs, Loops
<1>2. server \in [Replicants -> Servers]
  BY DEF Init, Servers
<1>3. DOMAIN outcome = {}
  BY DEF Init
<1>4. kept \in [Nodes -> BOOLEAN] /\ reader \in [Nodes -> ReaderStates]
  BY DEF Init, ReadAt, ReaderStates
<1> QED
  BY <1>1, <1>2, <1>3, <1>4, FS_EmptySet DEF Init, TypeInv

LEMMA StartedType ==
    ASSUME TypeInv
    PROVE  Started \in Nat
<1>1. IsFiniteSet({n \in Nodes : node[n].pc # "idle"})
  BY FS_Subset, ReplicationAssumption
<1> QED
  BY <1>1, FS_CardinalityType DEF TypeInv, Started

(* The server's handlers.                                                  *)
LEMMA HandlersType ==
    ASSUME NEW s \in Servers, NEW e \in Entries
    PROVE  /\ ServerOpen(s) \in Servers /\ Stopped(s) \in Servers
           /\ ServerBegin(s, TRUE) \in Servers /\ ServerBegin(s, FALSE) \in Servers
           /\ ServerStore(s, e) \in Servers
           /\ ServerCommit(s) \in Servers /\ ServerRollback(s) \in Servers
<1>1. ServerOpen(s) \in Servers
  BY DEF Servers, ServerOpen
<1>2. Stopped(s) \in Servers /\ ServerRollback(s) \in Servers
  BY DEF Servers, Stopped, ServerRollback
<1>5. ServerBegin(s, TRUE) \in Servers /\ ServerBegin(s, FALSE) \in Servers
  BY DEF Servers, ServerBegin
<1>3. ServerStore(s, e) \in Servers
  BY DEF Servers, ServerStore
<1>4. ServerCommit(s) \in Servers
  <2> DEFINE l == IF s.staged = {} THEN s.log ELSE Append(s.log, s.staged)
  <2>1. l \in Seq(SUBSET Entries)
    BY DEF Servers
  <2>2. ServerCommit(s) = s \/
        \E h \in {"kept", "none"} : ServerCommit(s) = [s EXCEPT !.handle = h, !.staged = {}, !.log = l]
    BY DEF ServerCommit
  <2> HIDE DEF l
  <2> QED
    BY <2>1, <2>2 DEF Servers
<1> QED
  BY <1>1, <1>2, <1>3, <1>4, <1>5

(* What becomes of a node in a step.                                       *)
Moves(n, x) ==
    /\ node' \in [Nodes -> NodeStates]
    /\ \A m \in Nodes : m # n => node'[m] = node[m]
    /\ node'[n] = x

LEMMA FirstMoves ==
    ASSUME TypeInv, NEW n \in Nodes, NEW p \in Pcs, NEW l \in Loops, NEW v \in Nat,
           node' = [node EXCEPT ![n] = First(p, l, v)]
    PROVE  Moves(n, First(p, l, v))
<1>1. First(p, l, v) \in NodeStates
  BY DEF First, NodeStates
<1> QED
  BY <1>1 DEF TypeInv, Moves

LEMMA FirstFields ==
    ASSUME NEW p, NEW l, NEW v
    PROVE  /\ First(p, l, v).pc = p /\ First(p, l, v).then = l /\ First(p, l, v).at = 1
           /\ First(p, l, v).block = 1 /\ First(p, l, v).ok = {} /\ First(p, l, v).tx = v
BY DEF First

LEMMA GoMoves ==
    ASSUME TypeInv, NEW n \in Nodes, NEW p \in Pcs, Go(n, p)
    PROVE  Moves(n, First(p, node[n].then, node[n].tx))
<1>1. node[n].then \in Loops /\ node[n].tx \in Nat
  BY DEF TypeInv, NodeStates
<1> QED
  BY <1>1, FirstMoves DEF Go

LEMMA CheckThenMoves ==
    ASSUME TypeInv, NEW n \in Nodes, NEW l \in Loops, CheckThen(n, l)
    PROVE  Moves(n, First("check", l, node[n].tx))
<1>1. node[n].tx \in Nat /\ "check" \in Pcs
  BY DEF TypeInv, NodeStates, Pcs
<1> QED
  BY <1>1, FirstMoves DEF CheckThen

LEMMA ProceedMoves ==
    ASSUME TypeInv, NEW n \in Nodes, NEW c \in BOOLEAN, Proceed(n, c), node[n].at <= N
    PROVE  /\ Moves(n, node'[n])
           /\ node'[n].pc = node[n].pc /\ node'[n].then = node[n].then
           /\ node'[n].at = node[n].at + 1 /\ node'[n].block = 1
           /\ node'[n].ok = node[n].ok \cup (IF c THEN {node[n].at} ELSE {})
           /\ node'[n].tx = node[n].tx
<1>1. node[n] \in NodeStates /\ node[n].at \in Replicants
  BY ReplicationAssumption DEF TypeInv, NodeStates, Replicants
<1>2. PICK y : y = node[n]
  OBVIOUS
<1>3. PICK k : k = node[n].ok \cup (IF c THEN {node[n].at} ELSE {})
  OBVIOUS
<1>4. PICK a : a = node[n].at + 1
  OBVIOUS
<1>5. y \in NodeStates /\ a \in Nat \ {0} /\ k \in SUBSET Replicants
  BY <1>1, <1>2, <1>3, <1>4 DEF NodeStates
<1>6. PICK z1 : z1 = [y EXCEPT !.at = a]
  OBVIOUS
<1>7. z1 \in NodeStates
  BY <1>5, <1>6 DEF NodeStates
<1>8. PICK z2 : z2 = [z1 EXCEPT !.block = 1]
  OBVIOUS
<1>9. z2 \in NodeStates
  BY <1>7, <1>8 DEF NodeStates
<1>10. PICK z3 : z3 = [z2 EXCEPT !.ok = k]
  OBVIOUS
<1>11. z3 \in NodeStates
  BY <1>5, <1>9, <1>10 DEF NodeStates
<1>12. z3 = [y EXCEPT !.at = a, !.block = 1, !.ok = k]
  BY <1>6, <1>8, <1>10
<1>13. /\ z3.pc = y.pc /\ z3.then = y.then /\ z3.at = a /\ z3.block = 1 /\ z3.ok = k
       /\ z3.tx = y.tx
  BY <1>5, <1>12 DEF NodeStates
<1>14. node' = [node EXCEPT ![n] = z3]
  BY <1>2, <1>3, <1>4, <1>12 DEF Proceed
<1>15. Moves(n, z3)
  BY <1>11, <1>14 DEF TypeInv, Moves
<1> QED
  BY <1>2, <1>3, <1>4, <1>13, <1>15 DEF Moves

LEMMA FinishMoves ==
    ASSUME TypeInv, NEW n \in Nodes, NEW how, Finish(n, how)
    PROVE  Moves(n, Idle) /\ IsFiniteSet(DOMAIN outcome') /\ kept' \in [Nodes -> BOOLEAN]
<1>1. Idle \in NodeStates
  BY DEF Idle, First, NodeStates, Pcs, Loops
<1>2. DOMAIN outcome' = DOMAIN outcome \cup {node[n].tx}
  BY DEF Finish
<1>3. kept' \in [Nodes -> BOOLEAN]
  <2>1. ASSUME NEW k \in BOOLEAN PROVE [kept EXCEPT ![n] = k] \in [Nodes -> BOOLEAN]
    BY DEF TypeInv
  <2>2. (how \in {"acked", "unbegun"}) \in BOOLEAN
    OBVIOUS
  <2>3. kept' = [kept EXCEPT ![n] = how \in {"acked", "unbegun"}]
    BY DEF Finish
  <2> QED
    BY <2>1, <2>2, <2>3, Zenon
<1>4. Moves(n, Idle)
  BY <1>1 DEF TypeInv, Finish, Moves
<1>5. IsFiniteSet(DOMAIN outcome')
  <2>1. IsFiniteSet(DOMAIN outcome)
    BY DEF TypeInv
  <2>2. IsFiniteSet(DOMAIN outcome \cup {node[n].tx})
    BY <2>1, FS_AddElement
  <2> QED
    BY <1>2, <2>2
<1> QED
  BY <1>3, <1>4, <1>5

(* The types are kept.  The steps of a node that change no server, ...     *)
LEMMA NodeTypes ==
    ASSUME TypeInv, NEW n \in Nodes,
           \/ Begin(n) \/ CheckDone(n) \/ BeginDone(n) \/ Merge(n) \/ Skip(n) \/ WriteDone(n)
           \/ CommitDone(n) \/ Abort(n) \/ RollbackDone(n)
    PROVE  TypeInv'
<1>1. UNCHANGED <<server, conn, up, reader, plan, faults, faultAt>>
  BY DEF Begin, CheckDone, BeginDone, Merge, Skip, WriteDone, CommitDone, Abort, RollbackDone,
         Quiet
<1>2. node[n] \in NodeStates /\ Started \in Nat
  BY StartedType DEF TypeInv
<1>3. /\ node' \in [Nodes -> NodeStates] /\ IsFiniteSet(DOMAIN outcome')
      /\ kept' \in [Nodes -> BOOLEAN]
  <2>1. CASE Begin(n)
    <3>1. PICK v \in Nat : v = Started + 1
      BY <1>2
    <3>2. PICK p \in Pcs : p = IF kept[n] THEN "work" ELSE "check"
      BY DEF Pcs
    <3>3. Moves(n, First(p, "begin", v))
      BY <2>1, <3>1, <3>2, FirstMoves DEF Begin, Loops
    <3> QED
      BY <2>1, <3>3 DEF Begin, TypeInv, Moves, ends
  <2>2. CASE CheckDone(n)
    <3>1. node[n].then \in Pcs /\ "toofew" \in Pcs
      BY <1>2 DEF NodeStates, Pcs, Loops
    <3> QED
      BY <2>2, <3>1, GoMoves, FinishMoves DEF CheckDone, TypeInv, Moves, ends
  <2>3. CASE BeginDone(n)
    BY <2>3, GoMoves DEF BeginDone, TypeInv, Moves, Pcs, ends
  <2>4. CASE Merge(n) \/ Abort(n)
    BY <2>4, CheckThenMoves DEF Merge, Abort, TypeInv, Moves, Loops, ends
  <2>5. CASE Skip(n)
    BY <2>5, ProceedMoves DEF Skip, In, TypeInv, Moves, ends
  <2>6. CASE WriteDone(n)
    BY <2>6, GoMoves, CheckThenMoves DEF WriteDone, TypeInv, Moves, Pcs, Loops, ends
  <2>7. CASE CommitDone(n)
    <3>1. (\E how : Finish(n, how)) \/ (Go(n, "toofew") /\ UNCHANGED ends)
      BY <2>7 DEF CommitDone, Acknowledge
    <3> QED
      BY <3>1, GoMoves, FinishMoves DEF TypeInv, Moves, Pcs, ends
  <2>8. CASE RollbackDone(n)
    BY <2>8, FinishMoves DEF RollbackDone, Moves
  <2> QED
    BY <2>1, <2>2, <2>3, <2>4, <2>5, <2>6, <2>7, <2>8
<1> QED
  BY <1>1, <1>3 DEF TypeInv

(* ... those that make a remote call, ...                                  *)
LEMMA CallTypes ==
    ASSUME TypeInv, NEW n \in Nodes,
           Check(n) \/ BeginCall(n) \/ WriteCall(n) \/ CommitCall(n) \/ RollbackCall(n)
    PROVE  TypeInv'
<1>1. UNCHANGED <<outcome, kept, reader, up, plan, faults, faultAt>>
  BY DEF Check, BeginCall, WriteCall, CommitCall, RollbackCall, Quiet, ends
<1>2. /\ node[n] \in NodeStates /\ node[n].at <= N /\ node[n].at \in Replicants
      /\ server[node[n].at] \in Servers
  <2>1. node[n] \in NodeStates /\ node[n].at <= N
    BY DEF TypeInv, Check, BeginCall, WriteCall, CommitCall, RollbackCall, In
  <2>2. node[n].at \in Replicants
    BY <2>1, ReplicationAssumption DEF NodeStates, Replicants
  <2> QED
    BY <2>1, <2>2 DEF TypeInv
<1>3. node' \in [Nodes -> NodeStates]
  <2>1. CASE Proceed(n, TRUE)
    BY <1>2, <2>1, ProceedMoves DEF Moves
  <2>2. CASE UNCHANGED node
    BY <2>2 DEF TypeInv
  <2>3. CASE node' = [node EXCEPT ![n].block = node[n].block + 1]
    <3>1. [node[n] EXCEPT !.block = node[n].block + 1] \in NodeStates
      BY <1>2 DEF NodeStates
    <3>2. node' = [node EXCEPT ![n] = [node[n] EXCEPT !.block = node[n].block + 1]]
      BY <2>3 DEF TypeInv
    <3> QED
      BY <3>1, <3>2 DEF TypeInv
  <2> QED
    BY <2>1, <2>2, <2>3 DEF Check, BeginCall, WriteCall, CommitCall, RollbackCall
<1>4. server' \in [Replicants -> Servers]
  <2>1. <<node[n].tx, node[n].block>> \in Entries
    BY <1>2 DEF NodeStates, Entries
  <2>2. PICK x \in Servers : server' = [server EXCEPT ![node[n].at] = x] \/ server' = server
    BY <1>2, <2>1, HandlersType
       DEF Check, OpenCall, BeginCall, WriteCall, CommitCall, RollbackCall
  <2> QED
    BY <2>2 DEF TypeInv
<1>5. conn' \in [Nodes -> [Replicants -> {"none", "up", "broken"}]]
  <2>1. conn' = conn \/ \E c \in {"up", "broken"} :
            conn' = [conn EXCEPT ![n] = [conn[n] EXCEPT ![node[n].at] = c]]
    BY DEF TypeInv, Check, OpenCall, BeginCall, WriteCall, CommitCall, RollbackCall
  <2> QED
    BY <2>1 DEF TypeInv
<1> QED
  BY <1>1, <1>3, <1>4, <1>5 DEF TypeInv

(* ... those of a reader, ...                                              *)
LEMMA ReadAtType == \A p \in {"idle", "check", "begin"} : ReadAt(p) \in ReaderStates
BY DEF ReadAt, ReaderStates

LEMMA ReadProceeds ==
    ASSUME TypeInv, NEW n \in Nodes, NEW c \in BOOLEAN, ReadProceed(n, c), reader[n].at <= N
    PROVE  reader' \in [Nodes -> ReaderStates] /\ reader'[n].pc = reader[n].pc
<1>1. reader[n] \in ReaderStates /\ reader[n].at \in Replicants
  BY ReplicationAssumption DEF TypeInv, ReaderStates, Replicants
<1>2. PICK k : k = reader[n].ok \cup (IF c THEN {reader[n].at} ELSE {})
  OBVIOUS
<1>3. PICK a : a = reader[n].at + 1
  OBVIOUS
<1>4. k \in SUBSET Replicants /\ a \in Nat \ {0}
  BY <1>1, <1>2, <1>3 DEF ReaderStates
<1>5. PICK z : z = [reader[n] EXCEPT !.at = a, !.ok = k]
  OBVIOUS
<1>6. z \in ReaderStates /\ z.pc = reader[n].pc
  BY <1>1, <1>4, <1>5 DEF ReaderStates
<1>7. reader' = [reader EXCEPT ![n] = z]
  BY <1>2, <1>3, <1>5 DEF ReadProceed
<1> QED
  BY <1>6, <1>7 DEF TypeInv

LEMMA ReadTypes ==
    ASSUME TypeInv, NEW n \in Nodes, Read(n)
    PROVE  TypeInv'
<1>1. UNCHANGED <<outcome, kept, node, up, plan, faults>> /\ faultAt' \in Nat
  BY StartedType DEF Read, ReadCheck, ReadCall, ReadDone, ends, TypeInv
<1>2. CASE ReadDone(n)
  <2>1. PICK z \in ReaderStates : reader' = [reader EXCEPT ![n] = z]
    BY <1>2, ReadAtType DEF ReadDone
  <2>2. reader' \in [Nodes -> ReaderStates] /\ UNCHANGED <<server, conn>>
    BY <1>2, <2>1 DEF ReadDone, TypeInv
  <2> QED
    BY <1>1, <2>2 DEF TypeInv
<1>3. CASE ReadCheck(n) \/ ReadCall(n)
  <2>1. PICK a \in Replicants : a = reader[n].at /\ a <= N
    <3>1. reader[n] \in ReaderStates /\ reader[n].at <= N
      BY <1>3 DEF TypeInv, ReadCheck, ReadCall, Reads
    <3> QED
      BY <3>1, ReplicationAssumption DEF ReaderStates, Replicants
  <2>2. reader' \in [Nodes -> ReaderStates]
    BY <1>3, <2>1, ReadProceeds DEF ReadCheck, ReadCall, TypeInv
  <2>3. server' \in [Replicants -> Servers]
    <3>1. server[a] \in Servers /\ <<1, 1>> \in Entries
      BY DEF TypeInv, Entries
    <3>2. PICK x \in Servers : server' = [server EXCEPT ![a] = x] \/ server' = server
      BY <1>3, <2>1, <3>1, HandlersType DEF ReadCheck, OpenCall, ReadCall
    <3> QED
      BY <3>2 DEF TypeInv
  <2>4. conn' \in [Nodes -> [Replicants -> {"none", "up", "broken"}]]
    <3>1. CASE ReadCheck(n)
      <4>1. PICK c \in {"up", "broken"} : c = IF Opens(n, a) THEN "up" ELSE "broken"
        OBVIOUS
      <4>2. conn' = [conn EXCEPT ![n] = [conn[n] EXCEPT ![a] = c]]
        BY <2>1, <3>1, <4>1 DEF TypeInv, ReadCheck, OpenCall
      <4> QED
        BY <4>2 DEF TypeInv
    <3>2. CASE ReadCall(n)
      BY <3>2 DEF TypeInv, ReadCall
    <3> QED
      BY <1>3, <3>1, <3>2
  <2> QED
    BY <1>1, <2>2, <2>3, <2>4 DEF TypeInv
<1> QED
  BY <1>2, <1>3 DEF Read

(* ... and faults.                                                         *)
LEMMA FaultTypes ==
    ASSUME TypeInv,
           \/ \E n \in Nodes : Faulty(n) \/ StoreStops(n)
           \/ \E r \in Replicants : Crash(r) \/ Restart(r)
    PROVE  TypeInv'
<1>1. plan' = plan /\ faults' \in Nat /\ faultAt' \in Nat
  <2>1. \/ \E kind : Fault(kind)
        \/ UNCHANGED <<plan, faults, faultAt>>
        \/ UNCHANGED <<plan, faults>> /\ faultAt' = Started
    BY DEF Faulty, ReadBegin, ReadUnresolved, Unresolved, CommitFails, NodeRestart, Disconnect,
           StoreStops, Crash, Restart
  <2> QED
    BY <2>1, StartedType DEF Fault, TypeInv
<1>2. ASSUME NEW n \in Nodes, Unresolved(n) \/ CommitFails(n) PROVE TypeInv'
  <2>1. node' \in [Nodes -> NodeStates] /\ UNCHANGED <<server, up, conn, reader, outcome, kept>>
    BY <1>2, ProceedMoves DEF Unresolved, CommitFails, In, Moves, ends
  <2> QED
    BY <1>1, <2>1 DEF TypeInv
<1>3. ASSUME NEW n \in Nodes, NodeRestart(n) PROVE TypeInv'
  <2>1. /\ node' \in [Nodes -> NodeStates] /\ IsFiniteSet(DOMAIN outcome')
        /\ kept' \in [Nodes -> BOOLEAN]
    BY <1>3, FinishMoves DEF NodeRestart, Moves, TypeInv
  <2>2. reader' \in [Nodes -> ReaderStates]
    BY <1>3, ReadAtType DEF NodeRestart, TypeInv
  <2>3. /\ UNCHANGED <<server, up>>
        /\ conn' = [conn EXCEPT ![n] = [r \in Replicants |-> "none"]]
    BY <1>3 DEF NodeRestart
  <2> QED
    BY <1>1, <2>1, <2>2, <2>3 DEF TypeInv
<1>4. ASSUME NEW n \in Nodes, NEW r \in Replicants, Disconnect(n, r) PROVE TypeInv'
  <2>1. /\ UNCHANGED <<server, up, node, reader, outcome, kept>>
        /\ conn' = [conn EXCEPT ![n] = [conn[n] EXCEPT ![r] = "broken"]]
    BY <1>4 DEF Disconnect, TypeInv, ends
  <2> QED
    BY <1>1, <2>1 DEF TypeInv
<1>5. ASSUME NEW r \in Replicants, Stop(r), UNCHANGED <<node, reader, ends>> PROVE TypeInv'
  <2>1. server' \in [Replicants -> Servers]
    <3>1. Stopped(server[r]) \in Servers /\ server' = [server EXCEPT ![r] = Stopped(server[r])]
      BY <1>5 DEF TypeInv, Stop, Stopped, Servers
    <3> QED
      BY <3>1 DEF TypeInv
  <2>2. up' \in [Replicants -> BOOLEAN]
    BY <1>5 DEF TypeInv, Stop
  <2>3. conn' \in [Nodes -> [Replicants -> {"none", "up", "broken"}]]
    <3>1. ASSUME NEW n \in Nodes
          PROVE  [conn[n] EXCEPT ![r] = IF @ = "up" THEN "broken" ELSE @]
                     \in [Replicants -> {"none", "up", "broken"}]
      BY DEF TypeInv
    <3> QED
      BY <1>5, <3>1 DEF Stop
  <2> QED
    BY <1>1, <1>5, <2>1, <2>2, <2>3 DEF TypeInv, ends
<1>6. ASSUME NEW r \in Replicants, Restart(r) PROVE TypeInv'
  BY <1>1, <1>6 DEF Restart, TypeInv, ends
<1>7. ASSUME NEW n \in Nodes, StoreStops(n) PROVE TypeInv'
  <2>1. node[n].at \in Replicants
    BY <1>7, ReplicationAssumption DEF TypeInv, NodeStates, Replicants, StoreStops, In
  <2> QED
    BY <1>5, <1>7, <2>1 DEF StoreStops
<1>8. ASSUME NEW n \in Nodes, ReadBegin(n) \/ ReadUnresolved(n) PROVE TypeInv'
  <2>1. UNCHANGED <<server, up, conn, node, outcome, kept>>
    BY <1>8 DEF ReadBegin, ReadUnresolved, ends
  <2>2. reader' \in [Nodes -> ReaderStates]
    BY <1>8, ReadAtType, ReadProceeds DEF ReadBegin, ReadUnresolved, Reads, TypeInv
  <2> QED
    BY <1>1, <2>1, <2>2 DEF TypeInv
<1> QED
  BY <1>2, <1>3, <1>4, <1>5, <1>6, <1>7, <1>8 DEF Faulty, Crash

LEMMA NextTypes ==
    ASSUME TypeInv, [Next]_vars
    PROVE  TypeInv'
<1>1. CASE UNCHANGED vars
  BY <1>1 DEF vars, ends, TypeInv
<1> QED
  BY <1>1, NodeTypes, CallTypes, ReadTypes, FaultTypes DEF Next, Call, Client

-----------------------------------------------------------------------------
(* The loops.  A transaction that is past the beginning, and a handle that *)
(* has kept one, have found a connection to enough replicants; a loop has  *)
(* counted enough, or has them before it (a reader may connect one the     *)
(* loop has passed); a replicant with a connection is open.                *)
Past(n) ==
    \/ node[n].pc \in {"begin", "work", "write", "commit"}
    \/ node[n].pc = "check" /\ node[n].then \in {"write", "commit"}

Connected(n) == {r \in Replicants : conn[n][r] # "none"}

Counted(n) == node[n].ok \cup {r \in Connected(n) : r >= node[n].at}

LoopInv(n) ==
    /\ node[n].pc # "toofew"
    /\ node[n].pc = "check" => node[n].then # "idle"
    /\ Past(n) \/ kept[n] => Cardinality(Connected(n)) >= Quorum
    /\ node[n].pc \in {"check", "write", "commit"} /\ Past(n) => Cardinality(Counted(n)) >= Quorum
    /\ node[n].pc = "check" => node[n].ok \subseteq Connected(n)

UpIsOpen ==
    \A n \in Nodes, r \in Replicants : conn[n][r] = "up" => server[r].handle # "null"

EnoughInv ==
    /\ TypeInv
    /\ UpIsOpen
    /\ \A n \in Nodes : LoopInv(n)

(* More than enough are enough.                                            *)
LEMMA MoreAreEnough ==
    ASSUME NEW S, NEW T, S \subseteq T, T \subseteq Replicants, Cardinality(S) >= Quorum
    PROVE  Cardinality(T) >= Quorum
<1>1. IsFiniteSet(Replicants)
  BY FS_Interval, ReplicationAssumption DEF Replicants
<1>2. IsFiniteSet(T)
  BY <1>1, FS_Subset
<1>3. Cardinality(S) <= Cardinality(T) /\ IsFiniteSet(S)
  BY <1>2, FS_Subset
<1>4. /\ Cardinality(S) \in Nat /\ Cardinality(T) \in Nat
      /\ Quorum \in Nat
  BY <1>2, <1>3, FS_CardinalityType, ReplicationAssumption DEF Quorum
<1> QED
  BY <1>3, <1>4

(* A loop that has passed all replicants has counted enough of them.       *)
LEMMA ThroughIsEnough ==
    ASSUME TypeInv, NEW n \in Nodes, LoopInv(n), Past(n), node[n].at > N,
           node[n].pc \in {"check", "write", "commit"}
    PROVE  Enough(n)
<1>1. node[n] \in NodeStates
  BY DEF TypeInv
<1>2. Counted(n) = node[n].ok
  BY <1>1, ReplicationAssumption DEF Counted, Connected, Replicants, NodeStates
<1> QED
  BY <1>2 DEF LoopInv, Enough

(* And then there are enough.                                              *)
LEMMA EnoughAreConnected ==
    ASSUME NEW n \in Nodes, LoopInv(n), node[n].pc = "check", Enough(n)
    PROVE  Cardinality(Connected(n)) >= Quorum
<1>1. node[n].ok \subseteq Connected(n) /\ Connected(n) \subseteq Replicants
  BY DEF LoopInv, Connected
<1> QED
  BY <1>1, MoreAreEnough DEF Enough

(* A connection that is made stays, if only broken.                        *)
LEMMA ConnectedGrows ==
    ASSUME NEW n \in Nodes, Connected(n) \subseteq Connected(n)',
           Cardinality(Connected(n)) >= Quorum
    PROVE  Cardinality(Connected(n)') >= Quorum
<1>1. Connected(n)' \subseteq Replicants
  BY DEF Connected
<1> QED
  BY <1>1, MoreAreEnough

(* A node that does not move keeps its place.                              *)
LEMMA StaysLooping ==
    ASSUME TypeInv, NEW n \in Nodes, LoopInv(n), node'[n] = node[n], kept'[n] = kept[n],
           Connected(n) \subseteq Connected(n)'
    PROVE  LoopInv(n)'
<1>1. Past(n)' <=> Past(n)
  BY DEF Past
<1>2. Cardinality(Connected(n)) >= Quorum => Cardinality(Connected(n)') >= Quorum
  BY ConnectedGrows
<1>3. Cardinality(Counted(n)) >= Quorum => Cardinality(Counted(n)') >= Quorum
  <2>1. Counted(n) \subseteq Counted(n)' /\ Counted(n)' \subseteq Replicants
    BY DEF Counted, Connected, TypeInv, NodeStates
  <2> QED
    BY <2>1, MoreAreEnough
<1> QED
  BY <1>1, <1>2, <1>3 DEF LoopInv

(* A node that starts a loop, or is idle or at work.                       *)
LEMMA StartsLoop ==
    ASSUME NEW n \in Nodes, NEW p, NEW l, NEW v, node'[n] = First(p, l, v),
           p # "toofew", p = "check" => l # "idle",
           \/ Cardinality(Connected(n)') >= Quorum
           \/ /\ ~kept'[n]
              /\ p \in {"idle", "rollback"} \/ (p = "check" /\ l \notin {"write", "commit"})
    PROVE  LoopInv(n)'
<1>1. /\ node'[n].pc = p /\ node'[n].then = l /\ node'[n].at = 1 /\ node'[n].ok = {}
  BY FirstFields
<1>2. Counted(n)' = Connected(n)'
  <2>1. \A r \in Connected(n)' : r >= 1
    BY ReplicationAssumption DEF Connected, Replicants
  <2> QED
    BY <1>1, <2>1 DEF Counted
<1> QED
  BY <1>1, <1>2 DEF LoopInv, Past

(* A node that passes replicant at.                                        *)
LEMMA PassesOne ==
    ASSUME TypeInv, NEW n \in Nodes, NEW c \in BOOLEAN, LoopInv(n), Proceed(n, c),
           kept'[n] = kept[n], node[n].at <= N,
           Connected(n)' \in {Connected(n), Connected(n) \cup {node[n].at}},
           c \/ node[n].at \notin Connected(n)',
           node[n].pc = "check" /\ c => node[n].at \in Connected(n)'
    PROVE  LoopInv(n)'
<1>1. /\ node'[n].pc = node[n].pc /\ node'[n].then = node[n].then
      /\ node'[n].at = node[n].at + 1
      /\ node'[n].ok = node[n].ok \cup (IF c THEN {node[n].at} ELSE {})
  BY ProceedMoves
<1>2. Past(n)' <=> Past(n)
  BY <1>1 DEF Past
<1>3. Cardinality(Connected(n)) >= Quorum => Cardinality(Connected(n)') >= Quorum
  BY ConnectedGrows
<1>4. Cardinality(Counted(n)) >= Quorum => Cardinality(Counted(n)') >= Quorum
  <2>1. ASSUME NEW r \in Counted(n) PROVE r \in Counted(n)'
    <3>1. CASE r \in node[n].ok
      BY <1>1, <3>1 DEF Counted
    <3>2. CASE r \in Connected(n) /\ r >= node[n].at
      <4>1. r \in Int /\ node[n].at \in Int /\ r \in Connected(n)'
        <5>1. r \in Connected(n)'
          BY <3>2
        <5> QED
          BY <3>2, <5>1, ReplicationAssumption DEF Connected, Replicants, TypeInv, NodeStates
      <4>2. CASE r = node[n].at
        BY <1>1, <4>1, <4>2 DEF Counted
      <4>3. CASE r # node[n].at
        <5>1. r >= node[n].at + 1
          BY <3>2, <4>1, <4>3
        <5> QED
          BY <1>1, <4>1, <5>1 DEF Counted
      <4> QED
        BY <4>2, <4>3
    <3> QED
      BY <3>1, <3>2 DEF Counted
  <2>2. Counted(n)' \subseteq Replicants
    <3>1. node[n].ok \subseteq Replicants /\ node[n].at \in Replicants
      BY ReplicationAssumption DEF TypeInv, NodeStates, Replicants
    <3> QED
      BY <1>1, <3>1 DEF Counted, Connected
  <2> QED
    BY <2>1, <2>2, MoreAreEnough
<1>5. node[n].pc = "check" => node'[n].ok \subseteq Connected(n)'
  BY <1>1 DEF LoopInv
<1> QED
  BY <1>1, <1>2, <1>3, <1>4, <1>5 DEF LoopInv

(* No handler but the end of the process closes a storage.                 *)
LEMMA HandlersOpen ==
    ASSUME NEW s \in Servers, NEW e
    PROVE  /\ ServerOpen(s).handle # "null"
           /\ s.handle # "null" => /\ ServerBegin(s, TRUE).handle # "null"
                                   /\ ServerBegin(s, FALSE).handle # "null"
                                   /\ ServerStore(s, e).handle # "null"
                                   /\ ServerCommit(s).handle # "null"
                                   /\ ServerRollback(s).handle # "null"
<1>1. ServerOpen(s).handle # "null"
  BY DEF ServerOpen, Servers
<1>2. s.handle # "null" => /\ ServerBegin(s, TRUE).handle # "null"
                           /\ ServerBegin(s, FALSE).handle # "null"
                           /\ ServerRollback(s).handle # "null"
  BY DEF ServerBegin, ServerRollback, Servers
<1>3. s.handle # "null" => ServerStore(s, e).handle # "null"
  BY DEF ServerStore, Servers
<1>4. s.handle # "null" => ServerCommit(s).handle # "null"
  BY DEF ServerCommit, Servers
<1> QED
  BY <1>1, <1>2, <1>3, <1>4

(* The steps of a node that change no server.                              *)
LEMMA NodeLoops ==
    ASSUME EnoughInv, NEW n \in Nodes,
           \/ Begin(n) \/ CheckDone(n) \/ BeginDone(n) \/ Merge(n) \/ Skip(n) \/ WriteDone(n)
           \/ CommitDone(n) \/ Abort(n) \/ RollbackDone(n)
    PROVE  EnoughInv'
<1>1. TypeInv /\ LoopInv(n) /\ TypeInv' /\ node[n] \in NodeStates
  BY NodeTypes DEF EnoughInv, TypeInv
<1>2. UNCHANGED <<server, conn>> /\ Connected(n)' = Connected(n)
  BY DEF Begin, CheckDone, BeginDone, Merge, Skip, WriteDone, CommitDone, Abort, RollbackDone,
         Connected
<1>3. UpIsOpen'
  BY <1>2 DEF EnoughInv, UpIsOpen
<1>4. /\ \A m \in Nodes : m # n => node'[m] = node[m] /\ kept'[m] = kept[m]
      /\ kept' = kept \/ \E how : Finish(n, how)
  BY <1>1 DEF TypeInv, Begin, CheckDone, BeginDone, Merge, Skip, WriteDone, CommitDone, Abort,
              RollbackDone, Go, CheckThen, Proceed, Finish, Acknowledge, ends
<1>5. \A m \in Nodes : m # n => LoopInv(m)'
  BY <1>1, <1>2, <1>4, StaysLooping DEF EnoughInv, Connected
<1>6. LoopInv(n)'
  <2>1. ASSUME NEW how, Finish(n, how), how = "failed" \/ Past(n) PROVE LoopInv(n)'
    <3>1. node'[n] = First("idle", "idle", 0)
      BY <1>1, <2>1, FinishMoves DEF Moves, Idle
    <3>2. how = "failed" => ~kept'[n]
      BY <1>1, <2>1 DEF Finish, TypeInv
    <3> QED
      BY <1>1, <1>2, <2>1, <3>1, <3>2, StartsLoop DEF LoopInv
  <2>2. CASE Begin(n)
    <3>1. PICK v : v = Started + 1
      OBVIOUS
    <3>2. node'[n] = First(IF kept[n] THEN "work" ELSE "check", "begin", v) /\ kept' = kept
      BY <1>1, <2>2, <3>1 DEF Begin, TypeInv, ends
    <3>3. CASE kept[n]
      BY <1>1, <1>2, <3>2, <3>3, StartsLoop DEF LoopInv
    <3>4. CASE ~kept[n]
      BY <3>2, <3>4, StartsLoop
    <3> QED
      BY <3>3, <3>4
  <2>3. ASSUME Past(n), NEW p \in Pcs, Go(n, p), p \notin {"check", "toofew"} PROVE LoopInv(n)'
    BY <1>1, <1>2, <2>3, GoMoves, StartsLoop DEF Moves, LoopInv
  <2>4. ASSUME Past(n), NEW l \in {"write", "commit"}, CheckThen(n, l) PROVE LoopInv(n)'
    <3>1. node'[n] = First("check", l, node[n].tx)
      BY <1>1, <2>4, CheckThenMoves DEF Moves, Loops
    <3>2. Cardinality(Connected(n)') >= Quorum
      BY <1>1, <1>2, <2>4 DEF LoopInv
    <3> QED
      BY <3>1, <3>2, StartsLoop
  <2>5. CASE CheckDone(n)
    <3>1. node[n].pc = "check" /\ node[n].at > N /\ node[n].then \in Loops \ {"idle"}
      BY <1>1, <2>5 DEF CheckDone, Through, LoopInv, NodeStates
    <3>2. CASE Enough(n)
      <4>1. Go(n, node[n].then)
        BY <2>5, <3>2 DEF CheckDone
      <4>2. Cardinality(Connected(n)') >= Quorum
        BY <1>1, <1>2, <3>1, <3>2, EnoughAreConnected
      <4>3. node'[n] = First(node[n].then, node[n].then, node[n].tx)
        BY <1>1, <3>1, <4>1, GoMoves DEF Moves, Loops, Pcs
      <4> QED
        BY <3>1, <4>2, <4>3, StartsLoop DEF Loops
    <3>3. CASE ~Enough(n)
      <4>1. ~Past(n)
        BY <1>1, <3>1, <3>3, ThroughIsEnough
      <4>2. node[n].then \in {"begin", "rollback"}
        BY <3>1, <4>1 DEF Past, Loops
      <4> QED
        BY <2>1, <2>5, <3>3, <4>2 DEF CheckDone
    <3> QED
      BY <3>2, <3>3
  <2>6. CASE BeginDone(n)
    BY <2>3, <2>6 DEF BeginDone, Through, Past, Pcs
  <2>7. CASE Merge(n)
    BY <2>4, <2>7 DEF Merge, Past
  <2>8. CASE Skip(n)
    <3>1. node[n].at <= N /\ node[n].pc # "check" /\ Proceed(n, FALSE)
      BY <2>8 DEF Skip, In
    <3>2. node[n].at \notin Connected(n)
      BY <2>8 DEF Skip, Answers, IsOpen, Connected, EnoughInv, UpIsOpen, TypeInv
    <3>3. kept' = kept
      BY <2>8 DEF Skip, ends
    <3> QED
      BY <1>1, <1>2, <3>1, <3>2, <3>3, PassesOne
  <2>9. CASE WriteDone(n)
    <3>1. Enough(n) /\ Past(n)
      BY <1>1, <2>9, ThroughIsEnough DEF WriteDone, Through, Past
    <3> QED
      BY <2>4, <2>9, <3>1 DEF WriteDone
  <2>10. CASE CommitDone(n)
    <3>1. Enough(n) /\ Past(n)
      BY <1>1, <2>10, ThroughIsEnough DEF CommitDone, Through, Past
    <3> QED
      BY <2>1, <2>10, <3>1 DEF CommitDone, Acknowledge
  <2>11. CASE Abort(n)
    <3>1. node'[n] = First("check", "rollback", node[n].tx) /\ kept' = kept
      BY <1>1, <2>11, CheckThenMoves DEF Abort, Moves, Loops, ends
    <3>2. kept[n] => Cardinality(Connected(n)') >= Quorum
      BY <1>1, <1>2 DEF LoopInv
    <3> QED
      BY <3>1, <3>2, StartsLoop
  <2>12. CASE RollbackDone(n)
    BY <2>1, <2>12 DEF RollbackDone
  <2> QED
    BY <2>2, <2>5, <2>6, <2>7, <2>8, <2>9, <2>10, <2>11, <2>12
<1> QED
  BY <1>1, <1>3, <1>5, <1>6 DEF EnoughInv

(* Those that make a remote call.                                          *)
LEMMA CallLoops ==
    ASSUME EnoughInv, NEW n \in Nodes,
           Check(n) \/ BeginCall(n) \/ WriteCall(n) \/ CommitCall(n) \/ RollbackCall(n)
    PROVE  EnoughInv'
<1>1. /\ TypeInv /\ LoopInv(n) /\ TypeInv' /\ node[n] \in NodeStates
  BY CallTypes DEF EnoughInv, TypeInv
<1>2. node[n].at <= N
  BY DEF Check, BeginCall, WriteCall, CommitCall, RollbackCall, In
<1>3. PICK a \in Replicants : a = node[n].at
  BY <1>1, <1>2, ReplicationAssumption DEF NodeStates, Replicants
<1>4. /\ \A m \in Nodes : m # n => node'[m] = node[m] /\ conn'[m] = conn[m]
      /\ kept' = kept
  BY <1>1 DEF TypeInv, Check, OpenCall, BeginCall, WriteCall, CommitCall, RollbackCall, Proceed, ends
<1>5. \A m \in Nodes : m # n => LoopInv(m)'
  BY <1>1, <1>4, StaysLooping DEF EnoughInv, Connected
<1>6. CASE Check(n)
  <2>1. node[n].pc = "check" /\ conn[n][a] # "broken"
    BY <1>3, <1>6 DEF Check, OpenCall, In, Answers
  <2>2. PICK opens \in BOOLEAN : opens <=> (conn[n][a] = "up" \/ up[a])
    OBVIOUS
  <2>3. PICK c : c = IF opens THEN "up" ELSE "broken"
    OBVIOUS
  <2>4. /\ opens => Proceed(n, TRUE) /\ server' = [server EXCEPT ![a] = ServerOpen(server[a])]
        /\ ~opens => UNCHANGED <<node, server>>
        /\ conn' = [conn EXCEPT ![n] = [conn[n] EXCEPT ![a] = c]]
    BY <1>1, <1>3, <1>6, <2>2, <2>3 DEF Check, OpenCall, Opens, TypeInv
  <2>5. /\ conn'[n] = [conn[n] EXCEPT ![a] = c] /\ conn[n] \in [Replicants -> {"none", "up", "broken"}]
    BY <1>1, <2>4 DEF TypeInv
  <2>6. /\ conn'[n][a] = c
        /\ \A r \in Replicants : r # a => conn'[n][r] = conn[n][r]
    BY <2>5
  <2>7. Connected(n)' = Connected(n) \cup {a}
    BY <2>3, <2>6 DEF Connected
  <2>8. UpIsOpen'
    <3>1. opens => server'[a].handle # "null"
      <4>1. server[a] \in Servers /\ (opens => server'[a] = ServerOpen(server[a]))
        BY <1>1, <2>4 DEF TypeInv
      <4> QED
        BY <4>1, HandlersOpen
    <3>2. \A r \in Replicants : r # a => server'[r] = server[r]
      BY <1>1, <2>4 DEF TypeInv
    <3>3. CASE opens
      BY <1>4, <2>6, <3>1, <3>2, <3>3 DEF EnoughInv, UpIsOpen
    <3>4. CASE ~opens
      BY <1>4, <2>3, <2>4, <2>6, <3>4 DEF EnoughInv, UpIsOpen
    <3> QED
      BY <3>3, <3>4
  <2>9. LoopInv(n)'
    <3>1. CASE opens
      <4>1. /\ Connected(n)' \in {Connected(n), Connected(n) \cup {node[n].at}}
            /\ node[n].at \in Connected(n)' /\ Proceed(n, TRUE)
        BY <1>3, <2>4, <2>7, <3>1
      <4> QED
        BY <1>1, <1>2, <1>4, <4>1, PassesOne
    <3>2. CASE ~opens
      BY <1>1, <1>4, <2>4, <2>7, <3>2, StaysLooping
    <3> QED
      BY <3>1, <3>2
  <2> QED
    BY <1>1, <1>5, <2>8, <2>9 DEF EnoughInv
<1>7. CASE BeginCall(n) \/ WriteCall(n) \/ CommitCall(n) \/ RollbackCall(n)
  <2>1. /\ conn' = conn /\ node[n].pc # "check" /\ Connected(n)' = Connected(n)
        /\ Proceed(n, TRUE) \/ node' = [node EXCEPT ![n].block = node[n].block + 1]
    BY <1>7 DEF BeginCall, WriteCall, CommitCall, RollbackCall, In, Connected
  <2>2. \A r \in Replicants : server[r].handle # "null" => server'[r].handle # "null"
    <3>1. server[a] \in Servers
      BY <1>1 DEF TypeInv
    <3>2. PICK x : /\ server' = server \/ server' = [server EXCEPT ![a] = x]
                   /\ server[a].handle # "null" => x.handle # "null"
      <4>1. CASE BeginCall(n)
        <5>1. server' = server \/ server' = [server EXCEPT ![a] = ServerBegin(server[a], TRUE)]
          BY <1>3, <4>1 DEF BeginCall
        <5> QED
          BY <3>1, <5>1, HandlersOpen
      <4>2. CASE WriteCall(n)
        <5>1. server' = [server EXCEPT ![a] = ServerStore(server[a], <<node[n].tx, node[n].block>>)]
          BY <1>3, <4>2 DEF WriteCall
        <5>2. PICK x : x = ServerStore(server[a], <<node[n].tx, node[n].block>>)
          OBVIOUS
        <5>3. server[a].handle # "null" => x.handle # "null"
          BY <3>1, <5>2, HandlersOpen
        <5> QED
          BY <5>1, <5>2, <5>3
      <4>3. CASE CommitCall(n)
        BY <1>3, <3>1, <4>3, HandlersOpen DEF CommitCall
      <4>4. CASE RollbackCall(n)
        BY <1>3, <3>1, <4>4, HandlersOpen DEF RollbackCall
      <4> QED
        BY <1>7, <4>1, <4>2, <4>3, <4>4
    <3> QED
      BY <1>1, <3>2 DEF TypeInv
  <2>3. UpIsOpen'
    BY <2>1, <2>2 DEF EnoughInv, UpIsOpen
  <2>4. LoopInv(n)'
    <3>1. CASE Proceed(n, TRUE)
      BY <1>1, <1>2, <1>4, <2>1, <3>1, PassesOne
    <3>2. CASE node' = [node EXCEPT ![n].block = node[n].block + 1]
      <4>1. /\ node'[n].pc = node[n].pc /\ node'[n].then = node[n].then
            /\ node'[n].at = node[n].at /\ node'[n].ok = node[n].ok
        BY <1>1, <3>2 DEF TypeInv, NodeStates
      <4> QED
        BY <1>1, <1>4, <2>1, <4>1 DEF LoopInv, Past, Counted
    <3> QED
      BY <2>1, <3>1, <3>2
  <2> QED
    BY <1>1, <1>5, <2>3, <2>4 DEF EnoughInv
<1> QED
  BY <1>6, <1>7

(* Those of a reader.  Its check connects replicants in the middle of the  *)
(* writer's loop; nothing it calls closes one.                             *)
Attends(n, a) ==
    /\ server'[a] = ServerOpen(server[a]) /\ conn'[n][a] = "up" /\ conn[n][a] # "broken"

Gives(n, a) ==
    server'[a] = server[a] /\ conn'[n][a] = "broken" /\ conn[n][a] = "none"

Demotes(n, a) ==
    /\ server'[a] = IF conn[n][a] = "up" THEN ServerBegin(server[a], FALSE) ELSE server[a]
    /\ conn'[n][a] = conn[n][a] /\ faultAt' = Started

LEMMA ReadCases ==
    ASSUME TypeInv, NEW n \in Nodes, Read(n)
    PROVE  /\ UNCHANGED <<outcome, kept, node, plan>>
           /\ reader[n].pc # "idle"
           /\ \A m \in Nodes : m # n => conn'[m] = conn[m]
           /\ \/ UNCHANGED <<server, conn, faultAt>>
              \/ \E a \in Replicants :
                    /\ \A r \in Replicants \ {a} : server'[r] = server[r] /\ conn'[n][r] = conn[n][r]
                    /\ \/ faultAt' = faultAt /\ (Attends(n, a) \/ Gives(n, a))
                       \/ Demotes(n, a)
<1>1. UNCHANGED <<outcome, kept, node, plan>> /\ reader[n].pc # "idle"
  BY DEF Read, ReadCheck, ReadCall, ReadDone, ends, Reads
<1>2. CASE ReadDone(n)
  BY <1>1, <1>2 DEF ReadDone
<1>3. CASE ReadCheck(n) \/ ReadCall(n)
  <2>1. PICK a \in Replicants : a = reader[n].at
    <3>1. reader[n] \in ReaderStates /\ reader[n].at <= N
      BY <1>3 DEF TypeInv, ReadCheck, ReadCall, Reads
    <3> QED
      BY <3>1, ReplicationAssumption DEF ReaderStates, Replicants
  <2>2. conn[n] \in [Replicants -> {"none", "up", "broken"}] /\ up[a] \in BOOLEAN
    BY DEF TypeInv
  <2>3. ASSUME NEW x, server' = [server EXCEPT ![a] = x]
        PROVE  server'[a] = x /\ \A r \in Replicants \ {a} : server'[r] = server[r]
    BY <2>3 DEF TypeInv
  <2>4. CASE ReadCheck(n)
    <3>1. PICK opens \in BOOLEAN : opens <=> (conn[n][a] = "up" \/ up[a])
      OBVIOUS
    <3>2. PICK c : c = IF opens THEN "up" ELSE "broken"
      OBVIOUS
    <3>3. /\ server' = IF opens THEN [server EXCEPT ![a] = ServerOpen(server[a])] ELSE server
          /\ conn' = [conn EXCEPT ![n] = [conn[n] EXCEPT ![a] = c]]
          /\ conn[n][a] # "broken" /\ faultAt' = faultAt
      BY <2>1, <2>4, <3>1, <3>2 DEF ReadCheck, OpenCall, Opens, Answers, TypeInv
    <3>4. conn'[n] = [conn[n] EXCEPT ![a] = c] /\ \A m \in Nodes : m # n => conn'[m] = conn[m]
      BY <3>3 DEF TypeInv
    <3>5. conn'[n][a] = c /\ \A r \in Replicants \ {a} : conn'[n][r] = conn[n][r]
      BY <2>2, <3>4
    <3>6. CASE opens
      <4>1. Attends(n, a) /\ \A r \in Replicants \ {a} : server'[r] = server[r]
        BY <2>3, <3>2, <3>3, <3>5, <3>6 DEF Attends
      <4> QED
        BY <1>1, <3>3, <3>4, <3>5, <4>1
    <3>7. CASE ~opens
      <4>1. Gives(n, a) /\ \A r \in Replicants \ {a} : server'[r] = server[r]
        BY <2>2, <3>1, <3>2, <3>3, <3>5, <3>7 DEF Gives
      <4> QED
        BY <1>1, <3>3, <3>4, <3>5, <4>1
    <3> QED
      BY <3>6, <3>7
  <2>5. CASE ReadCall(n)
    <3>1. /\ server' = IF conn[n][a] = "up" THEN [server EXCEPT ![a] = ServerBegin(server[a], FALSE)]
                       ELSE server
          /\ conn' = conn /\ faultAt' = Started
      BY <2>1, <2>5 DEF ReadCall
    <3>2. Demotes(n, a) /\ \A r \in Replicants \ {a} : server'[r] = server[r]
      BY <2>3, <3>1 DEF Demotes
    <3> QED
      BY <1>1, <3>1, <3>2
  <2> QED
    BY <1>3, <2>4, <2>5
<1> QED
  BY <1>2, <1>3 DEF Read

LEMMA ReadLoops ==
    ASSUME EnoughInv, NEW n \in Nodes, Read(n)
    PROVE  EnoughInv'
<1>1. TypeInv /\ TypeInv' /\ UpIsOpen
  BY ReadTypes DEF EnoughInv
<1>2. /\ UNCHANGED <<node, kept>>
      /\ \A m \in Nodes : m # n => conn'[m] = conn[m]
  BY <1>1, ReadCases
<1>3. CASE UNCHANGED <<server, conn>>
  BY <1>1, <1>2, <1>3, StaysLooping DEF EnoughInv, UpIsOpen, Connected
<1>4. ASSUME NEW a \in Replicants,
             \A r \in Replicants \ {a} : server'[r] = server[r] /\ conn'[n][r] = conn[n][r],
             Attends(n, a) \/ Gives(n, a) \/ Demotes(n, a)
      PROVE  EnoughInv'
  <2>1. server[a] \in Servers
    BY <1>1 DEF TypeInv
  <2>2. server[a].handle # "null" => server'[a].handle # "null"
    BY <1>4, <2>1, HandlersOpen DEF Attends, Gives, Demotes
  <2>3. conn'[n][a] = "up" => server'[a].handle # "null"
    BY <1>1, <1>4, <2>1, <2>2, HandlersOpen DEF Attends, Gives, Demotes, UpIsOpen
  <2>4. UpIsOpen'
    BY <1>1, <1>2, <1>4, <2>2, <2>3 DEF UpIsOpen
  <2>5. \A m \in Nodes : Connected(m) \subseteq Connected(m)'
    <3>1. conn'[n][a] = "none" => conn[n][a] = "none"
      BY <1>4 DEF Attends, Gives, Demotes
    <3> QED
      BY <1>2, <1>4, <3>1 DEF Connected
  <2>6. \A m \in Nodes : LoopInv(m)'
    BY <1>1, <1>2, <2>5, StaysLooping DEF EnoughInv
  <2> QED
    BY <1>1, <2>4, <2>6 DEF EnoughInv
<1> QED
  BY <1>1, <1>3, <1>4, ReadCases

(* Faults.                                                                 *)
LEMMA FaultLoops ==
    ASSUME EnoughInv,
           \/ \E n \in Nodes : Faulty(n) \/ StoreStops(n)
           \/ \E r \in Replicants : Crash(r) \/ Restart(r)
    PROVE  EnoughInv'
<1>1. TypeInv /\ UpIsOpen /\ TypeInv'
  BY FaultTypes DEF EnoughInv
<1>2. ASSUME NEW n \in Nodes, Unresolved(n) \/ CommitFails(n) PROVE EnoughInv'
  <2>1. /\ LoopInv(n) /\ UNCHANGED <<server, conn, kept>> /\ node[n].at <= N
        /\ Connected(n)' = Connected(n)
    BY <1>2 DEF EnoughInv, Unresolved, CommitFails, In, Connected, ends
  <2>2. PICK c \in BOOLEAN : /\ Proceed(n, c)
                             /\ c \/ conn[n][node[n].at] = "none"
                             /\ ~(node[n].pc = "check" /\ c)
    BY <1>2 DEF Unresolved, CommitFails, In
  <2>3. LoopInv(n)'
    BY <1>1, <2>1, <2>2, PassesOne DEF Connected
  <2>4. \A m \in Nodes : m # n => node'[m] = node[m]
    BY <1>1, <2>1, <2>2, ProceedMoves DEF Moves
  <2>5. \A m \in Nodes : m # n => LoopInv(m)'
    BY <1>1, <2>1, <2>4, StaysLooping DEF EnoughInv, Connected
  <2> QED
    BY <1>1, <2>1, <2>3, <2>5 DEF EnoughInv, UpIsOpen
<1>3. ASSUME NEW n \in Nodes, NodeRestart(n) PROVE EnoughInv'
  <2>1. node'[n].pc = "idle" /\ ~kept'[n] /\ server' = server
    <3>1. CASE node[n].pc # "idle"
      BY <1>1, <1>3, <3>1, FinishMoves, FirstFields DEF NodeRestart, Finish, Moves, Idle, TypeInv
    <3>2. CASE node[n].pc = "idle"
      BY <1>1, <1>3, <3>2 DEF NodeRestart, TypeInv
    <3> QED
      BY <1>3, <3>1, <3>2 DEF NodeRestart
  <2>2. /\ \A m \in Nodes : m # n => conn'[m] = conn[m]
        /\ \A r \in Replicants : conn'[n][r] = "none"
    BY <1>1, <1>3 DEF NodeRestart, TypeInv
  <2>3. LoopInv(n)'
    BY <2>1 DEF LoopInv, Past
  <2>4. \A m \in Nodes : m # n => node'[m] = node[m] /\ kept'[m] = kept[m]
    BY <1>1, <1>3 DEF NodeRestart, Finish, TypeInv
  <2>5. \A m \in Nodes : m # n => LoopInv(m)'
    BY <1>1, <2>2, <2>4, StaysLooping DEF EnoughInv, Connected
  <2> QED
    BY <1>1, <2>1, <2>2, <2>3, <2>5 DEF EnoughInv, UpIsOpen
<1>4. ASSUME node' = node, kept' = kept,
             \A m \in Nodes, r \in Replicants :
                 /\ conn'[m][r] = "none" <=> conn[m][r] = "none"
                 /\ conn'[m][r] = "up" => conn[m][r] = "up" /\ server'[r].handle = server[r].handle
      PROVE  EnoughInv'
  <2>1. \A m \in Nodes : Connected(m)' = Connected(m)
    BY <1>4 DEF Connected
  <2>2. \A m \in Nodes : LoopInv(m)'
    BY <1>1, <1>4, <2>1, StaysLooping DEF EnoughInv
  <2> QED
    BY <1>1, <1>4, <2>2 DEF EnoughInv, UpIsOpen
<1>5. ASSUME NEW n \in Nodes, NEW r \in Replicants, Disconnect(n, r) PROVE EnoughInv'
  <2>1. UNCHANGED <<server, node, kept>> /\ conn[n][r] = "up"
    BY <1>5 DEF Disconnect, ends
  <2>2. conn' = [conn EXCEPT ![n] = [conn[n] EXCEPT ![r] = "broken"]]
    BY <1>1, <1>5 DEF Disconnect, TypeInv
  <2>3. /\ \A m \in Nodes : m # n => conn'[m] = conn[m]
        /\ conn'[n][r] = "broken" /\ \A q \in Replicants : q # r => conn'[n][q] = conn[n][q]
    BY <1>1, <2>2 DEF TypeInv
  <2> QED
    BY <1>4, <2>1, <2>3
<1>6. ASSUME NEW r \in Replicants, Stop(r), node' = node, kept' = kept PROVE EnoughInv'
  <2>1. \A q \in Replicants : q # r => server'[q] = server[q]
    BY <1>1, <1>6 DEF Stop, TypeInv
  <2>2. ASSUME NEW m \in Nodes
        PROVE  /\ \A q \in Replicants : q # r => conn'[m][q] = conn[m][q]
               /\ conn'[m][r] = IF conn[m][r] = "up" THEN "broken" ELSE conn[m][r]
    <3>1. conn'[m] = [conn[m] EXCEPT ![r] = IF conn[m][r] = "up" THEN "broken" ELSE conn[m][r]]
      BY <1>6 DEF Stop
    <3>2. conn[m] \in [Replicants -> {"none", "up", "broken"}]
      BY <1>1 DEF TypeInv
    <3> QED
      BY <3>1, <3>2
  <2> QED
    BY <1>4, <1>6, <2>1, <2>2
<1>7. ASSUME NEW n \in Nodes, StoreStops(n) PROVE EnoughInv'
  <2>1. node[n].at \in Replicants
    BY <1>1, <1>7, ReplicationAssumption DEF TypeInv, NodeStates, Replicants, StoreStops, In
  <2> QED
    BY <1>6, <1>7, <2>1 DEF StoreStops, ends
<1>8. ASSUME NEW r \in Replicants, Restart(r) PROVE EnoughInv'
  BY <1>4, <1>8 DEF Restart, ends
<1>9. ASSUME NEW n \in Nodes, ReadBegin(n) \/ ReadUnresolved(n) PROVE EnoughInv'
  BY <1>4, <1>9 DEF ReadBegin, ReadUnresolved, ends
<1> QED
  BY <1>2, <1>3, <1>5, <1>6, <1>7, <1>8, <1>9 DEF Faulty, Crash, ends

LEMMA NextLoops ==
    ASSUME EnoughInv, [Next]_vars
    PROVE  EnoughInv'
<1>1. CASE UNCHANGED vars
  BY <1>1, StaysLooping DEF vars, ends, EnoughInv, TypeInv, UpIsOpen, Connected
<1> QED
  BY <1>1, NodeLoops, CallLoops, ReadLoops, FaultLoops DEF Next, Call, Client

LEMMA InitLoops == Init => EnoughInv
<1> SUFFICES ASSUME Init PROVE EnoughInv
  OBVIOUS
<1>1. \A n \in Nodes : /\ node[n].pc = "idle" /\ ~kept[n]
                       /\ \A r \in Replicants : conn[n][r] = "none"
  BY DEF Init, Idle, First
<1> QED
  BY <1>1, InitTypes DEF EnoughInv, UpIsOpen, LoopInv, Past

(* A transaction that began on enough replicants never finds too few of    *)
(* them open: merge and commit (replication.h) do not throw for that, for  *)
(* any number of nodes and replicants, whatever faults there are and       *)
(* whoever reads.                                                          *)
THEOREM EnoughStayOpen == Spec => []NeverTooFew
<1>1. EnoughInv => NeverTooFew
  BY DEF EnoughInv, LoopInv, NeverTooFew
<1> QED
  BY <1>1, InitLoops, NextLoops, PTL DEF Spec

-----------------------------------------------------------------------------
(* One node.  Its faults are not both restarts and names that do not       *)
(* resolve: after the two together a replicant with the blocks of an       *)
(* earlier transaction would join at the write or the commit.              *)
OneNode(n) ==
    /\ Nodes = {n}
    /\ \A p \in Plans : ~({"node", "resolve"} \subseteq p)

(* The transactions that ended.                                            *)
K == Cardinality(DOMAIN outcome)

Begun(n, r) ==
    \/ node[n].pc = "begin" /\ r < node[n].at
    \/ node[n].pc \in {"work", "write", "commit"}
    \/ node[n].pc = "check" /\ node[n].then \in {"write", "commit"}

Written(n, r) ==
    \/ node[n].pc = "write" /\ r < node[n].at
    \/ node[n].pc = "check" /\ node[n].then = "commit"
    \/ node[n].pc = "commit"

Committed(n, r) == node[n].pc = "commit" /\ r < node[n].at

Checked(n, r) == Past(n) \/ (node[n].pc = "check" /\ r < node[n].at)

Part(v, k) == {<<v, b>> : b \in 1..k}

Wrote(n, r) ==
    IF node[n].pc = "write" /\ r = node[n].at THEN Part(node[n].tx, node[n].block - 1)
    ELSE IF Written(n, r) THEN Part(node[n].tx, B)
    ELSE {}

(* Transactions are numbered as they begin.                                *)
CountInv(n) ==
    /\ DOMAIN outcome = 1..K
    /\ K <= MaxTx
    /\ node[n].pc # "idle" => node[n].tx = K + 1 /\ K + 1 <= MaxTx
    /\ node[n].block <= B

ReaderInv(n) == reader[n].pc # "idle" => "read" \in plan

(* A server has staged transactions up to b and committed ones up to l,    *)
(* which go forward; it has staged nothing with no transaction underway.   *)
Numbered(s, b, l) ==
    /\ \A e \in s.staged : e[1] \in 1..b
    /\ \A i \in DOMAIN s.log : \A e \in s.log[i] : e[1] \in 1..l
    /\ \A i \in DOMAIN s.log : \A e \in s.log[i], f \in s.staged : e[1] < f[1]
    /\ \A i, j \in DOMAIN s.log : i < j => \A e \in s.log[i], f \in s.log[j] : e[1] < f[1]
    /\ ~Writes(s) => s.staged = {}

(* A server has nothing of transaction v.                                  *)
Lacks(s, v) ==
    /\ \A e \in s.staged : e[1] # v
    /\ \A i \in DOMAIN s.log : \A e \in s.log[i] : e[1] # v

(* The transaction underway is stored from the write loop on.              *)
Storing(n) ==
    \/ node[n].pc \in {"write", "commit"}
    \/ node[n].pc = "check" /\ node[n].then = "commit"

Bound(n) == IF Storing(n) THEN K + 1 ELSE K

Latest(n, r) == IF Committed(n, r) THEN K + 1 ELSE K

OrderInv(n, r) ==
    /\ Numbered(server[r], Bound(n), Latest(n, r))
    /\ \A v \in DOMAIN outcome : outcome[v] = "failed" => Lacks(server[r], v)

(* A replicant that is, or was, part of the transaction has staged whole   *)
(* transactions and what the one underway wrote so far, or stores nothing. *)
Engaged(n, r) == conn[n][r] = "up" /\ (kept[n] \/ Begun(n, r))

StagedInv(n, r) ==
    Engaged(n, r) =>
        /\ \A e \in server[r].staged :
              e[1] # K + 1 \/ Committed(n, r) => Whole(e[1]) \subseteq server[r].staged
        /\ Writes(server[r]) /\ ~Committed(n, r) => Wrote(n, r) \subseteq server[r].staged

(* A replicant joins a transaction after its begin only if it is new.      *)
JoinInv(n, r) ==
    /\ "node" \notin plan /\ conn[n][r] = "none" => server[r].handle = "null"
    /\ "resolve" \notin plan /\ (Checked(n, r) \/ kept[n]) => conn[n][r] # "none"

LogIsWhole(s) == \A i \in DOMAIN s.log : \A e \in s.log[i] : Whole(e[1]) \subseteq s.log[i]

WholeInv(n, r) ==
    "read" \notin plan => StagedInv(n, r) /\ JoinInv(n, r) /\ LogIsWhole(server[r])

(* All replicants take part in a transaction that was begun on them and    *)
(* met no fault and no read.                                               *)
Clean(n) == node[n].pc # "idle" /\ node[n].tx > faultAt /\ ~kept[n]

CleanInv(n, r) ==
    Clean(n) =>
        /\ Checked(n, r) => conn[n][r] = "up"
        /\ Begun(n, r) /\ ~Committed(n, r) =>
              server[r].handle = "writing" /\ server[r].staged = Wrote(n, r)
        /\ Committed(n, r) => Holds(r, node[n].tx)

PartInv(n, r) == WholeInv(n, r) /\ CleanInv(n, r)

OneInv(n) ==
    /\ EnoughInv
    /\ CountInv(n) /\ ReaderInv(n)
    /\ \A r \in Replicants : OrderInv(n, r) /\ PartInv(n, r)
    /\ AckedIsEverywhere

LEMMA WholeIsPart == \A v : Whole(v) = Part(v, B)
BY DEF Whole, Part, Blocks

LEMMA WholeIsNotEmpty == \A v : Whole(v) # {}
<1> TAKE v
<1>1. <<v, 1>> \in Whole(v)
  BY ReplicationAssumption DEF Whole, Blocks
<1> QED
  BY <1>1

LEMMA PartGrows ==
    ASSUME NEW v, NEW k \in Nat \ {0}
    PROVE  Part(v, k - 1) \cup {<<v, k>>} = Part(v, k)
<1>1. 1..k = (1..(k - 1)) \cup {k}
  OBVIOUS
<1> QED
  BY <1>1 DEF Part

LEMMA PartEmpty == \A v : Part(v, 0) = {}
BY DEF Part

LEMMA BegunIsChecked ==
    ASSUME NEW n, NEW r
    PROVE  (Begun(n, r) => Checked(n, r)) /\ (Committed(n, r) => Begun(n, r))
BY DEF Begun, Checked, Past, Committed

(* What the handlers do to the numbers.                                    *)
LEMMA NumbersGrow ==
    ASSUME NEW s, NEW b \in Int, NEW l \in Int, NEW c \in Int, NEW m \in Int,
           Numbered(s, b, l), b <= c, l <= m
    PROVE  Numbered(s, c, m)
<1>1. 1..b \subseteq 1..c /\ 1..l \subseteq 1..m
  OBVIOUS
<1> QED
  BY <1>1 DEF Numbered

LEMMA LogStays ==
    ASSUME NEW s, NEW t, NEW b, NEW l, NEW v, Numbered(s, b, l), t.log = s.log,
           t.staged = {} \/ (t.staged = s.staged /\ (Writes(s) => Writes(t)))
    PROVE  Numbered(t, b, l) /\ (Lacks(s, v) => Lacks(t, v))
BY DEF Numbered, Lacks

LEMMA StoreNumbers ==
    ASSUME NEW s \in Servers, NEW b \in Nat, NEW l \in Nat, NEW w \in Nat, NEW k \in Nat,
           Numbered(s, b, l), l < w, w <= b
    PROVE  /\ Numbered(ServerStore(s, <<w, k>>), b, l)
           /\ \A v : v # w /\ Lacks(s, v) => Lacks(ServerStore(s, <<w, k>>), v)
<1>1. PICK e : e = <<w, k>>
  OBVIOUS
<1>2. e[1] = w /\ w \in 1..b
  BY <1>1
<1>3. CASE ~Writes(s)
  BY <1>3 DEF ServerStore
<1>4. CASE Writes(s)
  <2>1. PICK t : t = ServerStore(s, e)
    OBVIOUS
  <2>2. t.staged = s.staged \cup {e} /\ t.log = s.log /\ Writes(t)
    BY <1>4, <2>1 DEF ServerStore, Servers, Writes
  <2>3. \A i \in DOMAIN s.log : \A f \in s.log[i] : f[1] < w
    BY DEF Numbered
  <2>4. Numbered(t, b, l)
    BY <1>2, <2>2, <2>3 DEF Numbered
  <2>5. \A v : v # w /\ Lacks(s, v) => Lacks(t, v)
    BY <1>2, <2>2 DEF Lacks
  <2> QED
    BY <1>1, <2>1, <2>4, <2>5
<1> QED
  BY <1>3, <1>4

(* Commit appends what is staged.                                          *)
LEMMA CommitDoes ==
    ASSUME NEW s \in Servers, NEW t, t = ServerCommit(s)
    PROVE  /\ Writes(s) => t.staged = {} /\ ~Writes(t)
           /\ Writes(s) /\ s.staged # {} => t.log = Append(s.log, s.staged)
           /\ ~(Writes(s) /\ s.staged # {}) => t.log = s.log
           /\ ~Writes(s) => t = s
BY DEF ServerCommit, Writes, Servers

LEMMA AppendDoes ==
    ASSUME NEW s \in Servers, NEW x
    PROVE  /\ DOMAIN s.log = 1..Len(s.log) /\ Len(s.log) \in Nat
           /\ DOMAIN Append(s.log, x) = 1..(Len(s.log) + 1)
           /\ Append(s.log, x)[Len(s.log) + 1] = x
           /\ \A i \in 1..Len(s.log) : Append(s.log, x)[i] = s.log[i]
<1>1. PICK q \in Seq(SUBSET Entries) : q = s.log
  BY DEF Servers
<1> QED
  BY <1>1

LEMMA CommitNumbers ==
    ASSUME NEW s \in Servers, NEW b \in Nat, NEW l \in Nat, Numbered(s, b, l), l <= b
    PROVE  /\ Numbered(ServerCommit(s), b, b)
           /\ \A v : Lacks(s, v) => Lacks(ServerCommit(s), v)
           /\ (\A e \in s.staged : Whole(e[1]) \subseteq s.staged) /\ LogIsWhole(s)
                 => LogIsWhole(ServerCommit(s))
           /\ ServerCommit(s).staged = {}
<1>1. PICK t : t = ServerCommit(s)
  OBVIOUS
<1>2. Numbered(s, b, b)
  BY NumbersGrow
<1>3. CASE ~(Writes(s) /\ s.staged # {})
  <2>1. t.log = s.log /\ t.staged = {} /\ s.staged = {}
    BY <1>1, <1>3, CommitDoes DEF Numbered
  <2> QED
    BY <1>1, <1>2, <2>1, LogStays DEF LogIsWhole
<1>4. CASE Writes(s) /\ s.staged # {}
  <2>1. PICK k : k = Len(s.log)
    OBVIOUS
  <2>2. t.log = Append(s.log, s.staged) /\ t.staged = {}
    BY <1>1, <1>4, CommitDoes
  <2>3. /\ DOMAIN s.log = 1..k /\ k \in Nat /\ DOMAIN t.log = 1..(k + 1)
        /\ t.log[k + 1] = s.staged /\ \A i \in 1..k : t.log[i] = s.log[i]
    BY <2>1, <2>2, AppendDoes
  <2>4. \A i \in DOMAIN t.log : i = k + 1 \/ i \in 1..k
    BY <2>3
  <2>5. \A i \in DOMAIN t.log : \A e \in t.log[i] : e[1] \in 1..b
    BY <1>2, <2>3, <2>4 DEF Numbered
  <2>6. ASSUME NEW i \in DOMAIN t.log, NEW j \in DOMAIN t.log, i < j,
               NEW e \in t.log[i], NEW f \in t.log[j]
        PROVE  e[1] < f[1]
    <3>1. i \in 1..k
      BY <2>3, <2>6
    <3>2. CASE j = k + 1
      BY <2>3, <2>6, <3>1, <3>2 DEF Numbered
    <3>3. CASE j \in 1..k
      BY <2>3, <2>6, <3>1, <3>3 DEF Numbered
    <3> QED
      BY <2>4, <3>2, <3>3
  <2>7. Numbered(t, b, b)
    BY <2>2, <2>5, <2>6 DEF Numbered
  <2>8. ASSUME NEW v, Lacks(s, v) PROVE Lacks(t, v)
    BY <2>2, <2>3, <2>4, <2>8 DEF Lacks
  <2>9. (\A e \in s.staged : Whole(e[1]) \subseteq s.staged) /\ LogIsWhole(s) => LogIsWhole(t)
    BY <2>3, <2>4 DEF LogIsWhole
  <2> QED
    BY <1>1, <2>2, <2>7, <2>8, <2>9
<1> QED
  BY <1>3, <1>4

(* What the other handlers do.                                             *)
LEMMA OpenDoes ==
    ASSUME NEW s \in Servers, NEW t, t = ServerOpen(s)
    PROVE  /\ s.handle # "null" => t = s
           /\ s.handle = "null" => t.handle = "reading"
           /\ t.log = s.log /\ t.staged = s.staged /\ (Writes(s) => Writes(t))
BY DEF ServerOpen, Servers, Writes

LEMMA BeginDoes ==
    ASSUME NEW s \in Servers, NEW t, t = ServerBegin(s, TRUE) \/ t = ServerBegin(s, FALSE)
    PROVE  /\ t.log = s.log
           /\ s.handle # "null" => t.staged = {}
           /\ s.handle = "null" => t = s
           /\ t = ServerBegin(s, TRUE) /\ s.handle # "null" => t.handle = "writing"
BY DEF ServerBegin, Servers

LEMMA RollbackDoes ==
    ASSUME NEW s \in Servers, NEW t, t = ServerRollback(s)
    PROVE  t.log = s.log /\ (t.staged = {} \/ (t = s /\ ~Writes(s)))
BY DEF ServerRollback, Servers, Writes

LEMMA StoppedDoes ==
    ASSUME NEW s \in Servers
    PROVE  Stopped(s).log = s.log /\ Stopped(s).staged = {} /\ Stopped(s).handle = "null"
BY DEF Stopped, Servers

LEMMA StoreDoes ==
    ASSUME NEW s \in Servers, NEW e, NEW t, t = ServerStore(s, e)
    PROVE  /\ t.log = s.log /\ t.handle = s.handle
           /\ Writes(s) => t.staged = s.staged \cup {e}
           /\ ~Writes(s) => t = s
BY DEF ServerStore, Writes, Servers

(* The counts.                                                             *)
LEMMA StartedIs ==
    ASSUME TypeInv, NEW n, OneNode(n)
    PROVE  K \in Nat /\ Started = IF node[n].pc = "idle" THEN K ELSE K + 1
<1>1. K \in Nat
  BY FS_CardinalityType DEF K, TypeInv
<1>2. {m \in Nodes : node[m].pc # "idle"} = IF node[n].pc = "idle" THEN {} ELSE {n}
  BY DEF OneNode
<1>3. Cardinality({m \in Nodes : node[m].pc # "idle"}) = IF node[n].pc = "idle" THEN 0 ELSE 1
  BY <1>2, FS_EmptySet, FS_Singleton
<1> QED
  BY <1>1, <1>3 DEF Started, K

LEMMA BoundsAre ==
    ASSUME NEW n, NEW r, K \in Nat
    PROVE  /\ Bound(n) \in Nat /\ Latest(n, r) \in Nat
           /\ K <= Latest(n, r) /\ Latest(n, r) <= Bound(n) /\ Bound(n) <= K + 1
BY DEF Bound, Latest, Storing, Committed

LEMMA FinishCounts ==
    ASSUME TypeInv, NEW n, OneNode(n), NEW how, CountInv(n), node[n].pc # "idle", Finish(n, how)
    PROVE  /\ K' = K + 1 /\ CountInv(n)' /\ node'[n] = Idle /\ node'[n].pc = "idle"
           /\ outcome'[K + 1] = how /\ K + 1 \notin DOMAIN outcome
           /\ \A v \in DOMAIN outcome : outcome'[v] = outcome[v]
           /\ DOMAIN outcome' = DOMAIN outcome \cup {K + 1}
           /\ kept'[n] => how \in {"acked", "unbegun"}
<1>1. K \in Nat /\ n \in Nodes /\ IsFiniteSet(DOMAIN outcome)
  BY StartedIs DEF OneNode, TypeInv
<1>2. node[n].tx = K + 1 /\ K + 1 \notin DOMAIN outcome /\ DOMAIN outcome = 1..K
  BY <1>1 DEF CountInv
<1>3. outcome' = [v \in DOMAIN outcome \cup {K + 1} |-> IF v = K + 1 THEN how ELSE outcome[v]]
  BY <1>2 DEF Finish
<1>4. DOMAIN outcome' = DOMAIN outcome \cup {K + 1}
  BY <1>3
<1>5. K' = K + 1
  BY <1>1, <1>2, <1>4, FS_AddElement DEF K
<1>6. node'[n] = Idle /\ node'[n].pc = "idle" /\ node'[n].block = 1
  BY <1>1, FinishMoves, FirstFields DEF Moves, Idle
<1>7. CountInv(n)'
  <2>1. 1..(K + 1) = (1..K) \cup {K + 1}
    BY <1>1
  <2>2. DOMAIN outcome' = 1..K'
    BY <1>2, <1>4, <1>5, <2>1
  <2> QED
    BY <1>1, <1>5, <1>6, <2>2, ReplicationAssumption DEF CountInv
<1>8. kept'[n] => how \in {"acked", "unbegun"}
  BY <1>1 DEF Finish, TypeInv
<1> QED
  BY <1>2, <1>3, <1>4, <1>5, <1>6, <1>7, <1>8

(* The steps of the node that change no server.                            *)
NodeStep(n) ==
    \/ Begin(n) \/ CheckDone(n) \/ BeginDone(n) \/ Merge(n) \/ Skip(n) \/ WriteDone(n)
    \/ CommitDone(n) \/ Abort(n) \/ RollbackDone(n)

Is(x, p, l, a, b, v) == x.pc = p /\ x.then = l /\ x.at = a /\ x.block = b /\ x.tx = v

Begins(n) ==
    /\ node[n].pc = "idle" /\ Started < MaxTx
    /\ Is(node'[n], IF kept[n] THEN "work" ELSE "check", "begin", 1, 1, Started + 1)

Checks(n, p, l) ==
    node[n].pc = p /\ Is(node'[n], "check", l, 1, 1, node[n].tx)

Enters(n, p, q) ==
    /\ node[n].pc = p /\ node[n].at > N
    /\ p = "check" => node[n].then = q
    /\ Is(node'[n], q, node[n].then, 1, 1, node[n].tx)

Skips(n) ==
    /\ node[n].pc \in {"write", "commit", "rollback"} /\ node[n].at <= N
    /\ conn[n][node[n].at] = "none" /\ node[n].block = 1
    /\ Is(node'[n], node[n].pc, node[n].then, node[n].at + 1, 1, node[n].tx)

Succeeds(n, how) ==
    /\ node[n].pc = "commit" /\ node[n].at > N /\ Finish(n, how)
    /\ (how = "acked" /\ ~kept[n]) \/ how = "unbegun"

Fails(n) ==
    /\ \/ node[n].pc = "rollback"
       \/ node[n].pc = "check" /\ node[n].then \in {"begin", "rollback"}
    /\ Finish(n, "failed")

Ends(n) == Fails(n) \/ \E how : Succeeds(n, how)

GoesOn(n) ==
    \/ Skips(n)
    \/ \E q \in {"begin", "write", "commit", "rollback"} : Enters(n, "check", q)
    \/ Enters(n, "begin", "work")
    \/ Checks(n, "work", "write") \/ Checks(n, "work", "rollback")
    \/ Checks(n, "write", "commit") /\ node[n].at > N

LEMMA NodeCases ==
    ASSUME EnoughInv, NEW n \in Nodes, NodeStep(n)
    PROVE  /\ UNCHANGED <<server, conn, up, reader, plan, faults, faultAt>>
           /\ Ends(n) \/ (UNCHANGED <<outcome, kept>> /\ (Begins(n) \/ GoesOn(n)))
<1>1. TypeInv /\ LoopInv(n) /\ node[n] \in NodeStates
  BY DEF EnoughInv, TypeInv
<1>2. UNCHANGED <<server, conn, up, reader, plan, faults, faultAt>>
  BY DEF NodeStep, Begin, CheckDone, BeginDone, Merge, Skip, WriteDone, CommitDone, Abort,
         RollbackDone, Quiet
<1>3. ASSUME NEW p \in Pcs, Go(n, p)
      PROVE  Is(node'[n], p, node[n].then, 1, 1, node[n].tx)
  BY <1>1, <1>3, GoMoves, FirstFields DEF Moves, Is
<1>4. ASSUME NEW l \in Loops, CheckThen(n, l)
      PROVE  Is(node'[n], "check", l, 1, 1, node[n].tx)
  BY <1>1, <1>4, CheckThenMoves, FirstFields DEF Moves, Is
<1>5. CASE Begin(n)
  <2>1. PICK v : v = Started + 1
    OBVIOUS
  <2>2. PICK p : p = IF kept[n] THEN "work" ELSE "check"
    OBVIOUS
  <2>3. node'[n] = First(p, "begin", v)
    BY <1>1, <1>5, <2>1, <2>2 DEF Begin, TypeInv
  <2>4. Is(node'[n], p, "begin", 1, 1, v)
    BY <2>3, FirstFields DEF Is
  <2> QED
    BY <1>2, <1>5, <2>1, <2>2, <2>4 DEF Begin, Begins, ends
<1>6. CASE CheckDone(n)
  <2>1. node[n].pc = "check" /\ node[n].at > N /\ node[n].then \in Loops \ {"idle"}
    BY <1>1, <1>6 DEF CheckDone, Through, LoopInv, NodeStates
  <2>2. CASE Enough(n)
    <3>1. Go(n, node[n].then) /\ UNCHANGED <<outcome, kept>> /\ node[n].then \in Pcs
      BY <1>6, <2>1, <2>2 DEF CheckDone, Pcs, Loops, ends
    <3>2. Enters(n, "check", node[n].then)
      BY <1>3, <2>1, <3>1 DEF Enters
    <3> QED
      BY <1>2, <2>1, <3>1, <3>2 DEF Loops, GoesOn
  <2>3. CASE ~Enough(n)
    <3>1. ~Past(n)
      BY <1>1, <2>1, <2>3, ThroughIsEnough
    <3>2. node[n].then \in {"begin", "rollback"}
      BY <2>1, <3>1 DEF Past, Loops
    <3> QED
      BY <1>2, <1>6, <2>1, <2>3, <3>2 DEF CheckDone, Ends, Fails
  <2> QED
    BY <2>2, <2>3
<1>7. CASE BeginDone(n)
  BY <1>2, <1>3, <1>7 DEF BeginDone, Through, Enters, Pcs, GoesOn, ends
<1>8. CASE Merge(n)
  BY <1>2, <1>4, <1>8 DEF Merge, Checks, Loops, GoesOn, ends
<1>9. CASE Skip(n)
  <2>1. /\ node[n].pc \in {"write", "commit", "rollback"} /\ node[n].at <= N
        /\ node[n].block = 1 /\ Proceed(n, FALSE)
    BY <1>9 DEF Skip, In
  <2>2. conn[n][node[n].at] = "none"
    <3>1. node[n].at \in Replicants
      BY <1>1, <2>1, ReplicationAssumption DEF NodeStates, Replicants
    <3>2. conn[n][node[n].at] \in {"none", "up", "broken"}
      BY <1>1, <3>1 DEF TypeInv
    <3> QED
      BY <1>9, <3>1, <3>2 DEF Skip, Answers, IsOpen, EnoughInv, UpIsOpen
  <2>3. Skips(n)
    BY <1>1, <2>1, <2>2, ProceedMoves DEF Skips, Is
  <2> QED
    BY <1>2, <1>9, <2>3 DEF Skip, GoesOn, ends
<1>10. CASE WriteDone(n)
  <2>1. Enough(n) /\ node[n].pc = "write" /\ node[n].at > N
    BY <1>1, <1>10, ThroughIsEnough DEF WriteDone, Through, Past
  <2> QED
    BY <1>2, <1>4, <1>10, <2>1 DEF WriteDone, Checks, Loops, GoesOn, ends
<1>11. CASE CommitDone(n)
  <2>1. Enough(n)
    BY <1>1, <1>11, ThroughIsEnough DEF CommitDone, Through, Past
  <2>2. PICK how : how = IF kept[n] THEN "unbegun" ELSE "acked"
    OBVIOUS
  <2>3. Succeeds(n, how)
    BY <1>11, <2>1, <2>2 DEF CommitDone, Through, Acknowledge, Succeeds
  <2> QED
    BY <1>2, <2>3 DEF Ends
<1>12. CASE Abort(n)
  <2>1. node[n].pc = "work"
    BY <1>1, <1>12 DEF Abort, LoopInv
  <2> QED
    BY <1>2, <1>4, <1>12, <2>1 DEF Abort, Checks, Loops, GoesOn, ends
<1>13. CASE RollbackDone(n)
  BY <1>2, <1>13 DEF RollbackDone, Through, Ends, Fails
<1> QED
  BY <1>5, <1>6, <1>7, <1>8, <1>9, <1>10, <1>11, <1>12, <1>13 DEF NodeStep

(* A step in which the node gets further with its transaction, and not at  *)
(* replicant r.                                                            *)
Turns(n, r) ==
    /\ node[n].pc # "idle" /\ node'[n].tx = node[n].tx
    /\ K' = K /\ kept'[n] = kept[n]
    /\ Checked(n, r)' => Checked(n, r)
    /\ Begun(n, r)' => /\ Begun(n, r) /\ Wrote(n, r)' = Wrote(n, r)
                       /\ Committed(n, r)' <=> Committed(n, r)

LEMMA TurnsKeep ==
    ASSUME NEW n, NEW r, PartInv(n, r), Turns(n, r),
           server'[r] = server[r], conn'[n][r] = conn[n][r], plan' = plan
    PROVE  WholeInv(n, r)' /\ (faultAt' = faultAt => CleanInv(n, r)')
<1>1. ~Begun(n, r)' => Wrote(n, r)' = {} /\ ~Committed(n, r)'
  BY DEF Begun, Wrote, Written, Committed
<1>2. Committed(n, r)' => Begun(n, r)'
  BY <1>1
<1>3. StagedInv(n, r) => StagedInv(n, r)'
  <2>1. Engaged(n, r)' => Engaged(n, r)
    BY DEF Engaged, Turns
  <2>2. K' = K /\ (Committed(n, r)' => Committed(n, r))
    BY <1>2 DEF Turns
  <2>3. CASE Begun(n, r)'
    BY <2>1, <2>2, <2>3 DEF StagedInv, Turns
  <2>4. CASE ~Begun(n, r)'
    BY <1>1, <2>1, <2>2, <2>4 DEF StagedInv, Turns
  <2> QED
    BY <2>3, <2>4
<1>4. JoinInv(n, r) => JoinInv(n, r)'
  BY DEF JoinInv, Turns
<1>5. WholeInv(n, r)'
  BY <1>3, <1>4 DEF PartInv, WholeInv
<1>6. faultAt' = faultAt => CleanInv(n, r)'
  <2>1. faultAt' = faultAt /\ Clean(n)' => Clean(n)
    BY DEF Clean, Turns
  <2>2. Holds(r, node[n].tx)' <=> Holds(r, node[n].tx)
    BY DEF Holds, Turns
  <2> QED
    BY <1>2, <2>1, <2>2 DEF PartInv, CleanInv, Turns
<1> QED
  BY <1>5, <1>6

LEMMA GoingOnTurns ==
    ASSUME TypeInv, NEW n \in Nodes, NEW r \in Replicants, UNCHANGED <<outcome, kept>>, GoesOn(n),
           ~(Skips(n) /\ r = node[n].at)
    PROVE  Turns(n, r)
<1>1. /\ node[n] \in NodeStates /\ r \in Int /\ r >= 1 /\ r <= N /\ N \in Nat
  BY ReplicationAssumption DEF Replicants, TypeInv
<1>2. node[n].at \in Nat /\ node[n].tx \in Nat
  BY <1>1 DEF NodeStates
<1>3. Part(node[n].tx, 0) = {} /\ K' = K
  BY PartEmpty DEF K
<1>4. CASE Skips(n)
  <2>1. /\ Begun(n, r)' => Begun(n, r)
        /\ Checked(n, r)' => Checked(n, r)
        /\ Committed(n, r)' <=> Committed(n, r)
        /\ Written(n, r)' <=> Written(n, r)
    BY <1>1, <1>2, <1>4 DEF Skips, Is, Begun, Committed, Written, Checked, Past
  <2>2. r # node[n].at
    BY <1>4
  <2>3. Wrote(n, r) = IF Written(n, r) THEN Part(node[n].tx, B) ELSE {}
    BY <2>2 DEF Wrote
  <2>4. node'[n].tx = node[n].tx /\ node'[n].block - 1 = 0 /\ node[n].pc # "idle"
    BY <1>4 DEF Skips, Is
  <2>5. r = node'[n].at /\ node'[n].pc = "write" => ~Written(n, r)
    BY <1>1, <1>2, <1>4 DEF Skips, Is, Written
  <2>6. Wrote(n, r)' = Wrote(n, r)
    BY <1>3, <2>1, <2>3, <2>4, <2>5 DEF Wrote
  <2> QED
    BY <1>3, <2>1, <2>4, <2>6 DEF Turns
<1>5. CASE ~Skips(n)
  <2>1. node[n].pc # "idle" /\ node'[n].tx = node[n].tx
    BY <1>5 DEF GoesOn, Enters, Checks, Is
  <2>2. Checked(n, r)' => Checked(n, r)
    BY <1>1, <1>2, <1>5 DEF GoesOn, Enters, Checks, Is, Checked, Past
  <2>3. Begun(n, r)' => Begun(n, r) /\ (Committed(n, r)' <=> Committed(n, r))
    BY <1>1, <1>2, <1>5 DEF GoesOn, Enters, Checks, Is, Begun, Committed
  <2>4. Begun(n, r)' => Wrote(n, r)' = Wrote(n, r)
    BY <1>1, <1>2, <1>3, <1>5 DEF GoesOn, Enters, Checks, Is, Begun, Wrote, Written
  <2> QED
    BY <1>3, <2>1, <2>2, <2>3, <2>4 DEF Turns
<1> QED
  BY <1>4, <1>5

(* A replicant without a connection, or with a broken one.                 *)
LEMMA NotConnectedParts ==
    ASSUME NEW n, NEW r, conn'[n][r] # "up", plan' = plan,
           "read" \notin plan => JoinInv(n, r)', LogIsWhole(server[r]) => LogIsWhole(server[r])',
           WholeInv(n, r)
    PROVE  WholeInv(n, r)'
BY DEF WholeInv, StagedInv, Engaged

LEMMA NodeParts ==
    ASSUME NEW n, OneNode(n), OneInv(n), NodeStep(n), NEW r \in Replicants
    PROVE  PartInv(n, r)'
<1>1. /\ n \in Nodes /\ EnoughInv /\ TypeInv /\ PartInv(n, r) /\ node[n] \in NodeStates
      /\ CountInv(n) /\ K \in Nat
  BY StartedIs DEF OneNode, OneInv, EnoughInv, TypeInv
<1>2. UNCHANGED <<server, conn, plan, faultAt>> /\ r \in Int /\ r >= 1 /\ r <= N /\ N \in Nat
  BY <1>1, NodeCases, ReplicationAssumption DEF Replicants
<1>3. CASE Ends(n)
  <2>1. PICK how : Finish(n, how) /\ (how = "failed" \/ Succeeds(n, how)) /\ node[n].pc # "idle"
    BY <1>3 DEF Ends, Fails, Succeeds
  <2>2. /\ node'[n].pc = "idle" /\ K' = K + 1 /\ (kept'[n] => Succeeds(n, how))
    BY <1>1, <2>1, FinishCounts
  <2>3. ~Begun(n, r)' /\ ~Checked(n, r)' /\ Wrote(n, r)' = {}
    BY <2>2 DEF Begun, Checked, Past, Wrote, Written
  <2>4. Succeeds(n, how) => Committed(n, r) /\ Begun(n, r) /\ Checked(n, r)
    BY <1>1, <1>2 DEF Succeeds, Committed, Begun, Checked, Past, NodeStates
  <2>5. StagedInv(n, r) => StagedInv(n, r)'
    BY <1>2, <2>2, <2>3, <2>4 DEF StagedInv, Engaged
  <2>6. JoinInv(n, r) => JoinInv(n, r)'
    BY <1>2, <2>2, <2>3, <2>4 DEF JoinInv
  <2> QED
    BY <1>1, <1>2, <2>2, <2>5, <2>6 DEF PartInv, WholeInv, CleanInv, Clean
<1>4. CASE UNCHANGED <<outcome, kept>> /\ Begins(n)
  <2>1. /\ node[n].pc = "idle" /\ K' = K
        /\ \/ kept[n] /\ node'[n].pc = "work"
           \/ ~kept[n] /\ node'[n].pc = "check" /\ node'[n].then = "begin" /\ node'[n].at = 1
    BY <1>4 DEF Begins, Is, K
  <2>2. ~Committed(n, r)' /\ Wrote(n, r)' = {} /\ ~Begun(n, r) /\ ~Committed(n, r)
    BY <2>1 DEF Committed, Wrote, Written, Begun
  <2>3. ~kept[n] => ~Checked(n, r)' /\ ~Begun(n, r)'
    BY <1>2, <2>1 DEF Checked, Past, Begun
  <2>4. StagedInv(n, r) => StagedInv(n, r)'
    BY <1>2, <1>4, <2>1, <2>2, <2>3 DEF StagedInv, Engaged
  <2>5. JoinInv(n, r) => JoinInv(n, r)'
    BY <1>2, <1>4, <2>3 DEF JoinInv
  <2>6. CleanInv(n, r)'
    BY <1>4, <2>2, <2>3 DEF CleanInv, Clean
  <2> QED
    BY <1>1, <1>2, <2>4, <2>5, <2>6 DEF PartInv, WholeInv
<1>5. CASE UNCHANGED <<outcome, kept>> /\ GoesOn(n) /\ ~(Skips(n) /\ r = node[n].at)
  BY <1>1, <1>2, <1>5, GoingOnTurns, TurnsKeep DEF PartInv
<1>6. CASE UNCHANGED kept /\ Skips(n) /\ r = node[n].at
  <2>1. conn[n][r] = "none"
    BY <1>6 DEF Skips
  <2>2. JoinInv(n, r) => JoinInv(n, r)'
    BY <1>2, <1>6 DEF Skips, Is, JoinInv, Checked, Past
  <2>3. WholeInv(n, r)'
    BY <1>1, <1>2, <2>1, <2>2, NotConnectedParts DEF PartInv, WholeInv, LogIsWhole
  <2>4. Clean(n)' => Clean(n)
    BY <1>2, <1>6 DEF Clean, Skips, Is
  <2>5. Clean(n) => ~Checked(n, r)
    BY <1>1, <2>1 DEF PartInv, CleanInv
  <2>6. node[n].pc = "rollback" \/ Checked(n, r)
    BY <1>6 DEF Skips, Checked, Past
  <2>7. node[n].pc = "rollback" => ~Checked(n, r)' /\ ~Begun(n, r)' /\ ~Committed(n, r)'
    BY <1>6 DEF Skips, Is, Checked, Past, Begun, Committed
  <2> QED
    BY <2>3, <2>4, <2>5, <2>6, <2>7 DEF PartInv, CleanInv
<1> QED
  BY <1>1, <1>3, <1>4, <1>5, <1>6, NodeCases

(* The numbers of the transactions in a step that does not end one at a    *)
(* replicant.                                                              *)
Grows(n, r) ==
    /\ K' \in Nat /\ K \in Nat
    /\ Bound(n)' >= Bound(n) /\ Latest(n, r)' >= Latest(n, r)
    /\ \A v \in DOMAIN outcome' : outcome'[v] = "failed" =>
          v \in DOMAIN outcome /\ outcome[v] = "failed"

LEMMA GrowsKeeps ==
    ASSUME NEW n, NEW r, OrderInv(n, r), Grows(n, r), server'[r].log = server[r].log,
           \/ server'[r].staged = {}
           \/ server'[r].staged = server[r].staged /\ (Writes(server[r]) => Writes(server'[r]))
    PROVE  OrderInv(n, r)'
<1>1. PICK s : s = server[r]
  OBVIOUS
<1>2. PICK t : t = server'[r]
  OBVIOUS
<1>3. PICK b \in Nat, l \in Nat, c \in Nat, m \in Nat :
        b = Bound(n) /\ l = Latest(n, r) /\ c = Bound(n)' /\ m = Latest(n, r)'
  <2>1. Bound(n) \in Nat /\ Latest(n, r) \in Nat /\ Bound(n)' \in Nat /\ Latest(n, r)' \in Nat
    <3>1. K \in Nat /\ K' \in Nat
      BY DEF Grows
    <3>2. Bound(n) \in {K, K + 1} /\ Latest(n, r) \in {K, K + 1}
      BY DEF Bound, Latest
    <3>3. Bound(n)' \in {K', K' + 1} /\ Latest(n, r)' \in {K', K' + 1}
      BY DEF Bound, Latest
    <3> QED
      BY <3>1, <3>2, <3>3
  <2> QED
    BY <2>1, Zenon
<1>4. b <= c /\ l <= m /\ Numbered(s, b, l)
  BY <1>1, <1>3 DEF Grows, OrderInv
<1>5. Numbered(s, c, m)
  BY <1>4, NumbersGrow
<1>6. Numbered(t, c, m) /\ \A v : Lacks(s, v) => Lacks(t, v)
  BY <1>1, <1>2, <1>5, LogStays
<1> QED
  BY <1>1, <1>2, <1>3, <1>6 DEF OrderInv, Grows

LEMMA NodeOrder ==
    ASSUME NEW n, OneNode(n), OneInv(n), NodeStep(n)
    PROVE  CountInv(n)' /\ \A r \in Replicants : OrderInv(n, r)'
<1>1. /\ n \in Nodes /\ EnoughInv /\ TypeInv /\ CountInv(n) /\ node[n] \in NodeStates
      /\ B \in Nat \ {0} /\ server' = server
  BY NodeCases, ReplicationAssumption DEF OneNode, OneInv, EnoughInv, TypeInv
<1>2. K \in Nat /\ Started = IF node[n].pc = "idle" THEN K ELSE K + 1
  BY <1>1, StartedIs
<1>3. CASE \E how : Succeeds(n, how)
  <2>1. PICK how : Finish(n, how) /\ node[n].pc # "idle" /\ how # "failed"
    BY <1>3 DEF Succeeds
  <2>2. /\ K' = K + 1 /\ CountInv(n)' /\ node'[n].pc = "idle"
        /\ outcome'[K + 1] = how /\ DOMAIN outcome' = DOMAIN outcome \cup {K + 1}
        /\ \A v \in DOMAIN outcome : outcome'[v] = outcome[v]
    BY <1>1, <2>1, FinishCounts
  <2>3. ASSUME NEW r \in Replicants PROVE Grows(n, r)
    BY <1>2, <2>1, <2>2 DEF Grows, Bound, Latest
  <2> QED
    BY <1>1, <2>2, <2>3, GrowsKeeps DEF OneInv
<1>4. CASE Fails(n)
  <2>1. Finish(n, "failed") /\ node[n].pc # "idle"
    BY <1>4 DEF Fails
  <2>2. /\ K' = K + 1 /\ CountInv(n)' /\ node'[n].pc = "idle"
        /\ DOMAIN outcome' = DOMAIN outcome \cup {K + 1}
        /\ \A v \in DOMAIN outcome : outcome'[v] = outcome[v]
    BY <1>1, <2>1, FinishCounts
  <2>3. ASSUME NEW r \in Replicants PROVE OrderInv(n, r)'
    <3>1. Bound(n) = K /\ Latest(n, r) = K /\ Bound(n)' = K + 1 /\ Latest(n, r)' = K + 1
      BY <1>4, <2>2 DEF Fails, Bound, Latest, Storing, Committed
    <3>2. Numbered(server[r], K, K) /\ \A v \in DOMAIN outcome : outcome[v] = "failed" => Lacks(server[r], v)
      BY <3>1 DEF OneInv, OrderInv
    <3>3. Numbered(server[r], K + 1, K + 1)
      BY <1>2, <3>2, NumbersGrow
    <3>4. Lacks(server[r], K + 1)
      <4>1. \A k \in 1..K : k # K + 1
        BY <1>2
      <4> QED
        BY <3>2, <4>1 DEF Numbered, Lacks
    <3>5. PICK s : s = server[r]
      OBVIOUS
    <3>6. server'[r] = s
      BY <1>1, <3>5
    <3> QED
      BY <2>2, <3>1, <3>2, <3>3, <3>4, <3>5, <3>6 DEF OrderInv
  <2> QED
    BY <2>2, <2>3
<1>5. CASE UNCHANGED <<outcome, kept>> /\ (Begins(n) \/ GoesOn(n))
  <2>1. K' = K /\ outcome' = outcome
    BY <1>5 DEF K
  <2>2. CountInv(n)'
    <3>1. MaxTx \in Nat
      BY ReplicationAssumption
    <3>2. CASE Begins(n)
      BY <1>1, <1>2, <2>1, <3>1, <3>2 DEF CountInv, Begins, Is
    <3>3. CASE GoesOn(n)
      BY <1>1, <1>2, <2>1, <3>3 DEF CountInv, GoesOn, Skips, Enters, Checks, Is
    <3> QED
      BY <1>5, <3>2, <3>3
  <2>3. Storing(n) => Storing(n)'
    BY <1>5 DEF Begins, GoesOn, Skips, Enters, Checks, Is, Storing
  <2>4. ASSUME NEW r \in Replicants PROVE Grows(n, r)
    <3>1. r \in Int /\ r <= N /\ node[n].at \in Int /\ N \in Int
      BY <1>1, ReplicationAssumption DEF Replicants, NodeStates
    <3>2. Committed(n, r) => Committed(n, r)'
      BY <1>5, <3>1 DEF Begins, GoesOn, Skips, Enters, Checks, Is, Committed
    <3> QED
      BY <1>2, <2>1, <2>3, <3>2 DEF Grows, Bound, Latest
  <2> QED
    BY <1>1, <2>2, <2>4, GrowsKeeps DEF OneInv
<1> QED
  BY <1>1, <1>3, <1>4, <1>5, NodeCases DEF Ends

LEMMA NodeAcks ==
    ASSUME NEW n, OneNode(n), OneInv(n), NodeStep(n)
    PROVE  AckedIsEverywhere'
<1>1. /\ n \in Nodes /\ EnoughInv /\ TypeInv /\ CountInv(n) /\ node[n] \in NodeStates
  BY DEF OneNode, OneInv, EnoughInv, TypeInv
<1>2. K \in Nat /\ server' = server /\ faultAt' = faultAt
  BY <1>1, StartedIs, NodeCases
<1>3. \A r \in Replicants : \A v : Holds(r, v)' <=> Holds(r, v)
  BY <1>2 DEF Holds
<1>4. AckedIsEverywhere
  BY DEF OneInv
<1>5. CASE Ends(n)
  <2>1. PICK how : /\ Finish(n, how) /\ node[n].pc # "idle"
                   /\ how = "acked" => Succeeds(n, how) /\ ~kept[n]
    BY <1>5 DEF Ends, Fails, Succeeds
  <2>2. /\ outcome'[K + 1] = how /\ DOMAIN outcome' = DOMAIN outcome \cup {K + 1}
        /\ \A v \in DOMAIN outcome : outcome'[v] = outcome[v]
    BY <1>1, <2>1, FinishCounts
  <2>3. ASSUME how = "acked", K + 1 > faultAt, NEW r \in Replicants PROVE Holds(r, K + 1)
    <3>1. Succeeds(n, how) /\ ~kept[n] /\ node[n].tx = K + 1
      BY <1>1, <2>1, <2>3 DEF CountInv
    <3>2. Committed(n, r)
      BY <1>1, <3>1, ReplicationAssumption DEF Succeeds, Committed, NodeStates, Replicants
    <3>3. Clean(n) /\ CleanInv(n, r)
      BY <2>1, <2>3, <3>1 DEF Clean, OneInv, PartInv
    <3> QED
      BY <3>1, <3>2, <3>3 DEF CleanInv
  <2> QED
    BY <1>2, <1>3, <1>4, <2>2, <2>3 DEF AckedIsEverywhere
<1>6. CASE UNCHANGED outcome
  BY <1>2, <1>3, <1>4, <1>6 DEF AckedIsEverywhere
<1> QED
  BY <1>1, <1>5, <1>6, NodeCases

LEMMA NodeOne ==
    ASSUME NEW n, OneNode(n), OneInv(n), NodeStep(n)
    PROVE  OneInv(n)'
<1>1. n \in Nodes /\ EnoughInv
  BY DEF OneNode, OneInv
<1>2. EnoughInv' /\ UNCHANGED <<reader, plan>>
  BY <1>1, NodeLoops, NodeCases DEF NodeStep
<1>3. ReaderInv(n)'
  BY <1>2 DEF OneInv, ReaderInv
<1> QED
  BY <1>2, <1>3, NodeParts, NodeOrder, NodeAcks DEF OneInv

(* Remote calls: what they do to the replicant a that is called.           *)
CallStep(n) ==
    Check(n) \/ BeginCall(n) \/ WriteCall(n) \/ CommitCall(n) \/ RollbackCall(n)

Next1(n) == Is(node'[n], node[n].pc, node[n].then, node[n].at + 1, 1, node[n].tx)

Opened(n, a) ==
    /\ node[n].pc = "check" /\ Next1(n) /\ conn[n][a] \in {"none", "up"}
    /\ server'[a] = ServerOpen(server[a]) /\ conn'[n][a] = "up"

Waits(n, a) ==
    /\ node[n].pc = "check" /\ node' = node /\ conn[n][a] = "none"
    /\ server'[a] = server[a] /\ conn'[n][a] = "broken"

Starts(n, a) ==
    /\ node[n].pc = "begin" /\ Next1(n) /\ conn'[n][a] = conn[n][a]
    /\ server'[a] = IF conn[n][a] = "up" THEN ServerBegin(server[a], TRUE) ELSE server[a]

Stores(n, a) ==
    /\ node[n].pc = "write" /\ conn'[n][a] = conn[n][a] /\ conn[n][a] = "up"
    /\ server'[a] = ServerStore(server[a], <<node[n].tx, node[n].block>>)
    /\ \/ node[n].block = B /\ Next1(n)
       \/ /\ node[n].block # B
          /\ Is(node'[n], "write", node[n].then, node[n].at, node[n].block + 1, node[n].tx)

Commits(n, a) ==
    /\ node[n].pc = "commit" /\ Next1(n) /\ conn'[n][a] = conn[n][a] /\ conn[n][a] = "up"
    /\ server'[a] = ServerCommit(server[a])

RollsBack(n, a) ==
    /\ node[n].pc = "rollback" /\ Next1(n) /\ conn'[n][a] = conn[n][a] /\ conn[n][a] = "up"
    /\ server'[a] = ServerRollback(server[a])

Calls(n, a) ==
    \/ Opened(n, a) \/ Waits(n, a) \/ Starts(n, a) \/ Stores(n, a)
    \/ Commits(n, a) \/ RollsBack(n, a)

LEMMA CallCases ==
    ASSUME TypeInv, NEW n \in Nodes, CallStep(n)
    PROVE  \E a \in Replicants :
             /\ a = node[n].at
             /\ UNCHANGED <<outcome, kept, reader, plan, faultAt>>
             /\ \A r \in Replicants \ {a} : server'[r] = server[r] /\ conn'[n][r] = conn[n][r]
             /\ Calls(n, a)
<1>1. node[n] \in NodeStates /\ node[n].at <= N
  BY DEF TypeInv, CallStep, Check, BeginCall, WriteCall, CommitCall, RollbackCall, In
<1>2. PICK a \in Replicants : a = node[n].at
  BY <1>1, ReplicationAssumption DEF NodeStates, Replicants
<1>3. UNCHANGED <<outcome, kept, reader, plan, faultAt>>
  BY DEF CallStep, Check, BeginCall, WriteCall, CommitCall, RollbackCall, Quiet, ends
<1>4. Proceed(n, TRUE) => Next1(n)
  BY <1>1, ProceedMoves DEF Next1, Is
<1>5. conn[n] \in [Replicants -> {"none", "up", "broken"}] /\ up[a] \in BOOLEAN
  BY DEF TypeInv
<1>6. ASSUME NEW x, server' = [server EXCEPT ![a] = x]
      PROVE  server'[a] = x /\ \A r \in Replicants \ {a} : server'[r] = server[r]
  BY <1>6 DEF TypeInv
<1>7. CASE Check(n)
  <2>1. node[n].pc = "check" /\ conn[n][a] # "broken"
    BY <1>2, <1>7 DEF Check, OpenCall, In, Answers
  <2>2. PICK opens \in BOOLEAN : opens <=> (conn[n][a] = "up" \/ up[a])
    OBVIOUS
  <2>3. PICK c : c = IF opens THEN "up" ELSE "broken"
    OBVIOUS
  <2>4. /\ opens => Proceed(n, TRUE) /\ server' = [server EXCEPT ![a] = ServerOpen(server[a])]
        /\ ~opens => UNCHANGED <<node, server>>
        /\ conn' = [conn EXCEPT ![n] = [conn[n] EXCEPT ![a] = c]]
    BY <1>2, <1>7, <2>2, <2>3 DEF Check, OpenCall, Opens, TypeInv
  <2>5. conn'[n] = [conn[n] EXCEPT ![a] = c]
    BY <2>4 DEF TypeInv
  <2>6. conn'[n][a] = c /\ \A r \in Replicants \ {a} : conn'[n][r] = conn[n][r]
    BY <1>5, <2>5
  <2>7. conn[n][a] \in {"none", "up"}
    BY <1>5, <2>1
  <2>8. CASE opens
    <3>1. Opened(n, a)
      BY <1>4, <1>6, <2>1, <2>3, <2>4, <2>6, <2>7, <2>8 DEF Opened
    <3> QED
      BY <1>2, <1>3, <1>6, <2>4, <2>6, <2>8, <3>1 DEF Calls
  <2>9. CASE ~opens
    <3>1. Waits(n, a)
      BY <2>1, <2>2, <2>3, <2>4, <2>6, <2>7, <2>9 DEF Waits
    <3> QED
      BY <1>2, <1>3, <2>4, <2>6, <2>9, <3>1 DEF Calls
  <2> QED
    BY <2>8, <2>9
<1>8. CASE BeginCall(n)
  <2>1. /\ node[n].pc = "begin" /\ conn' = conn /\ Proceed(n, TRUE)
        /\ server' = IF conn[n][a] = "up" THEN [server EXCEPT ![a] = ServerBegin(server[a], TRUE)]
                     ELSE server
    BY <1>2, <1>8 DEF BeginCall, In
  <2>2. /\ server'[a] = IF conn[n][a] = "up" THEN ServerBegin(server[a], TRUE) ELSE server[a]
        /\ \A r \in Replicants \ {a} : server'[r] = server[r]
    BY <1>6, <2>1
  <2> QED
    BY <1>2, <1>3, <1>4, <2>1, <2>2 DEF Starts, Calls
<1>9. CASE WriteCall(n)
  <2>1. PICK x : x = ServerStore(server[a], <<node[n].tx, node[n].block>>)
    OBVIOUS
  <2>2. /\ node[n].pc = "write" /\ conn' = conn /\ conn[n][a] = "up"
        /\ server' = [server EXCEPT ![a] = x]
        /\ IF node[n].block = B THEN Proceed(n, TRUE)
           ELSE node' = [node EXCEPT ![n].block = node[n].block + 1]
    BY <1>2, <1>9, <2>1 DEF WriteCall, In, IsOpen
  <2>3. node[n].block # B =>
          Is(node'[n], "write", node[n].then, node[n].at, node[n].block + 1, node[n].tx)
    BY <1>1, <2>2 DEF TypeInv, NodeStates, Is
  <2>4. Stores(n, a)
    BY <1>4, <1>6, <2>1, <2>2, <2>3 DEF Stores
  <2> QED
    BY <1>2, <1>3, <1>6, <2>2, <2>4 DEF Calls
<1>10. CASE CommitCall(n)
  <2>1. /\ node[n].pc = "commit" /\ conn' = conn /\ conn[n][a] = "up" /\ Proceed(n, TRUE)
        /\ server' = [server EXCEPT ![a] = ServerCommit(server[a])]
    BY <1>2, <1>10 DEF CommitCall, In, IsOpen
  <2> QED
    BY <1>2, <1>3, <1>4, <1>6, <2>1 DEF Commits, Calls
<1>11. CASE RollbackCall(n)
  <2>1. /\ node[n].pc = "rollback" /\ conn' = conn /\ conn[n][a] = "up" /\ Proceed(n, TRUE)
        /\ server' = [server EXCEPT ![a] = ServerRollback(server[a])]
    BY <1>2, <1>11 DEF RollbackCall, In, IsOpen
  <2> QED
    BY <1>2, <1>3, <1>4, <1>6, <2>1 DEF RollsBack, Calls
<1> QED
  BY <1>7, <1>8, <1>9, <1>10, <1>11 DEF CallStep

(* The replicants that are not called.                                     *)
LEMMA OthersTurn ==
    ASSUME TypeInv, NEW n \in Nodes, NEW r \in Replicants, r # node[n].at, node[n].pc # "idle",
           UNCHANGED <<outcome, kept>>,
           \/ node'[n] = node[n]
           \/ Next1(n)
           \/ \E b : Is(node'[n], node[n].pc, node[n].then, node[n].at, b, node[n].tx)
    PROVE  Turns(n, r) /\ (Committed(n, r)' <=> Committed(n, r)) /\ (Storing(n)' <=> Storing(n))
<1>1. r \in Int /\ node[n].at \in Int
  BY ReplicationAssumption DEF Replicants, TypeInv, NodeStates
<1>2. /\ node'[n].pc = node[n].pc /\ node'[n].then = node[n].then /\ node'[n].tx = node[n].tx
      /\ node'[n].at = node[n].at \/ (node'[n].at = node[n].at + 1 /\ node'[n].block = 1)
  BY DEF Next1, Is
<1>3. /\ Begun(n, r)' <=> Begun(n, r)
      /\ Committed(n, r)' <=> Committed(n, r)
      /\ Written(n, r)' <=> Written(n, r)
      /\ Checked(n, r)' <=> Checked(n, r)
  BY <1>1, <1>2 DEF Begun, Committed, Written, Checked, Past
<1>4. Wrote(n, r)' = Wrote(n, r)
  <2>1. Wrote(n, r) = IF Written(n, r) THEN Part(node[n].tx, B) ELSE {}
    BY DEF Wrote
  <2>2. CASE r = node'[n].at /\ node[n].pc = "write"
    <3>1. ~Written(n, r) /\ node'[n].block - 1 = 0
      BY <1>1, <1>2, <2>2 DEF Written
    <3> QED
      BY <1>2, <2>1, <2>2, <3>1, PartEmpty DEF Wrote
  <2>3. CASE ~(r = node'[n].at /\ node[n].pc = "write")
    BY <1>2, <1>3, <2>1, <2>3 DEF Wrote
  <2> QED
    BY <2>2, <2>3
<1>5. (Storing(n)' <=> Storing(n)) /\ K' = K
  BY <1>2 DEF Storing, K
<1> QED
  BY <1>2, <1>3, <1>4, <1>5 DEF Turns

(* The replicant that is called.                                           *)
LEMMA OpenedPart ==
    ASSUME NEW n, OneNode(n), OneInv(n), NEW a \in Replicants, a = node[n].at,
           UNCHANGED <<outcome, kept, plan, faultAt>>, Opened(n, a) \/ Waits(n, a)
    PROVE  PartInv(n, a)'
<1>1. /\ n \in Nodes /\ PartInv(n, a) /\ server[a] \in Servers
      /\ plan \in Plans /\ (conn[n][a] = "up" => server[a].handle # "null")
      /\ ~Writes(server[a]) => server[a].staged = {}
  BY DEF OneNode, OneInv, EnoughInv, TypeInv, UpIsOpen, OrderInv, Numbered
<1>2. node[n].pc = "check" /\ a \in Int /\ ~(a < a) /\ a < a + 1 /\ K' = K
  BY ReplicationAssumption DEF Opened, Waits, Replicants, K
<1>3. /\ node'[n].pc = node[n].pc /\ node'[n].then = node[n].then /\ node'[n].tx = node[n].tx
      /\ Clean(n)' <=> Clean(n)
  BY DEF Opened, Waits, Next1, Is, Clean
<1>4. /\ Begun(n, a)' <=> Past(n)
      /\ Begun(n, a) <=> Past(n)
      /\ Checked(n, a) <=> Past(n)
      /\ ~Committed(n, a) /\ ~Committed(n, a)' /\ Wrote(n, a)' = Wrote(n, a)
  BY <1>2, <1>3 DEF Begun, Past, Checked, Committed, Wrote, Written
<1>5. CASE Opened(n, a)
  <2>1. /\ server'[a] = ServerOpen(server[a]) /\ conn'[n][a] = "up"
        /\ conn[n][a] \in {"none", "up"} /\ server'[a].log = server[a].log
    BY <1>1, <1>5, OpenDoes DEF Opened
  <2>2. CASE conn[n][a] = "up"
    <3>1. server'[a] = server[a]
      BY <1>1, <2>1, <2>2, OpenDoes
    <3>2. StagedInv(n, a) => StagedInv(n, a)'
      BY <1>2, <1>4, <2>1, <2>2, <3>1 DEF StagedInv, Engaged
    <3>3. JoinInv(n, a)'
      BY <2>1 DEF JoinInv
    <3>4. CleanInv(n, a)'
      BY <1>1, <1>3, <1>4, <2>1, <3>1 DEF PartInv, CleanInv
    <3> QED
      BY <1>1, <3>1, <3>2, <3>3, <3>4 DEF PartInv, WholeInv
  <2>3. CASE conn[n][a] = "none"
    <3>1. "read" \notin plan /\ (kept[n] \/ Past(n)) => server[a].handle = "null"
      <4>1. "node" \notin plan \/ "resolve" \notin plan
        BY <1>1 DEF OneNode
      <4> QED
        BY <1>1, <1>4, <2>3, <4>1 DEF PartInv, WholeInv, JoinInv
    <3>2. server[a].handle = "null" => server'[a].staged = {} /\ ~Writes(server'[a])
      BY <1>1, <2>1, OpenDoes DEF Writes
    <3>3. "read" \notin plan => StagedInv(n, a)'
      BY <1>4, <3>1, <3>2 DEF StagedInv, Engaged
    <3>4. JoinInv(n, a)'
      BY <2>1 DEF JoinInv
    <3>5. LogIsWhole(server[a]) => LogIsWhole(server'[a])
      BY <2>1 DEF LogIsWhole
    <3>6. Past(n) => ~Clean(n)
      BY <1>1, <1>4, <2>3 DEF PartInv, CleanInv
    <3>7. CleanInv(n, a)'
      BY <1>3, <1>4, <2>1, <3>6 DEF CleanInv
    <3> QED
      BY <1>1, <3>3, <3>4, <3>5, <3>7 DEF PartInv, WholeInv
  <2> QED
    BY <2>1, <2>2, <2>3
<1>6. CASE Waits(n, a)
  <2>1. Checked(n, a)' <=> Past(n)
    BY <1>2, <1>6 DEF Waits, Checked, Past
  <2>2. /\ conn[n][a] = "none" /\ conn'[n][a] = "broken" /\ server'[a] = server[a]
    BY <1>6 DEF Waits
  <2>3. Past(n) => ~Clean(n)
    BY <1>1, <1>4, <2>2 DEF PartInv, CleanInv
  <2>4. CleanInv(n, a)'
    BY <1>3, <1>4, <2>1, <2>3 DEF CleanInv
  <2> QED
    BY <1>1, <2>2, <2>4 DEF PartInv, WholeInv, StagedInv, Engaged, JoinInv
<1> QED
  BY <1>5, <1>6

LEMMA StartsPart ==
    ASSUME NEW n, OneNode(n), OneInv(n), NEW a \in Replicants, a = node[n].at,
           UNCHANGED <<outcome, kept, plan, faultAt>>, Starts(n, a)
    PROVE  PartInv(n, a)'
<1>1. /\ n \in Nodes /\ PartInv(n, a) /\ server[a] \in Servers
      /\ (conn[n][a] = "up" => server[a].handle # "null")
  BY DEF OneNode, OneInv, EnoughInv, TypeInv, UpIsOpen
<1>2. /\ node[n].pc = "begin" /\ node'[n].pc = "begin" /\ node'[n].tx = node[n].tx
      /\ conn'[n][a] = conn[n][a]
      /\ server'[a] = IF conn[n][a] = "up" THEN ServerBegin(server[a], TRUE) ELSE server[a]
  BY DEF Starts, Next1, Is
<1>3. /\ Checked(n, a) /\ ~Committed(n, a)' /\ Wrote(n, a)' = {}
      /\ Clean(n)' <=> Clean(n)
  BY <1>2 DEF Checked, Past, Committed, Wrote, Written, Clean
<1>4. JoinInv(n, a) => JoinInv(n, a)'
  BY <1>1, <1>2, <1>3 DEF JoinInv
<1>5. CASE conn[n][a] = "up"
  <2>1. server'[a].handle = "writing" /\ server'[a].staged = {} /\ server'[a].log = server[a].log
    BY <1>1, <1>2, <1>5, BeginDoes
  <2>2. StagedInv(n, a)' /\ (LogIsWhole(server[a]) => LogIsWhole(server'[a])) /\ JoinInv(n, a)'
    BY <1>2, <1>3, <1>5, <2>1 DEF StagedInv, LogIsWhole, JoinInv
  <2>3. CleanInv(n, a)'
    BY <1>2, <1>3, <1>5, <2>1 DEF CleanInv
  <2> QED
    BY <1>1, <2>2, <2>3 DEF PartInv, WholeInv
<1>6. CASE conn[n][a] # "up"
  <2>1. ~Clean(n)
    BY <1>1, <1>3, <1>6 DEF PartInv, CleanInv
  <2>2. server'[a] = server[a]
    BY <1>2, <1>6
  <2> QED
    BY <1>1, <1>2, <1>3, <1>4, <1>6, <2>1, <2>2
       DEF PartInv, WholeInv, StagedInv, Engaged, CleanInv
<1> QED
  BY <1>5, <1>6

LEMMA StoresPart ==
    ASSUME NEW n, OneNode(n), OneInv(n), NEW a \in Replicants, a = node[n].at,
           UNCHANGED <<outcome, kept, plan, faultAt>>, Stores(n, a)
    PROVE  PartInv(n, a)'
<1>1. /\ n \in Nodes /\ PartInv(n, a) /\ server[a] \in Servers /\ node[n] \in NodeStates
      /\ a \in Int /\ ~(a < a) /\ a < a + 1 /\ a # a + 1 /\ CountInv(n) /\ K' = K
  BY ReplicationAssumption DEF OneNode, OneInv, EnoughInv, TypeInv, Replicants, K
<1>2. PICK e : e = <<node[n].tx, node[n].block>>
  OBVIOUS
<1>3. /\ node[n].pc = "write" /\ node'[n].pc = "write" /\ node'[n].tx = node[n].tx
      /\ conn'[n][a] = "up" /\ conn[n][a] = "up"
      /\ server'[a] = ServerStore(server[a], e)
      /\ \/ node[n].block = B /\ node'[n].at = a + 1
         \/ node'[n].at = a /\ node'[n].block = node[n].block + 1
      /\ Clean(n)' <=> Clean(n)
  BY <1>2 DEF Stores, Next1, Is, Clean
<1>4. /\ Begun(n, a) /\ ~Committed(n, a) /\ Checked(n, a) /\ ~Committed(n, a)'
      /\ Wrote(n, a) = Part(node[n].tx, node[n].block - 1)
  BY <1>1, <1>3 DEF Begun, Committed, Checked, Past, Wrote
<1>5. /\ server'[a].handle = server[a].handle /\ server'[a].log = server[a].log
      /\ Writes(server[a]) => server'[a].staged = server[a].staged \cup {e}
      /\ ~Writes(server[a]) => server'[a] = server[a]
      /\ Writes(server'[a]) <=> Writes(server[a])
  BY <1>1, <1>3, StoreDoes DEF Writes
<1>6. Wrote(n, a)' = Part(node[n].tx, node[n].block)
  <2>1. CASE node[n].block = B /\ node'[n].at = a + 1
    BY <1>1, <1>3, <2>1 DEF Wrote, Written
  <2>2. CASE node'[n].at = a /\ node'[n].block = node[n].block + 1
    <3>1. node'[n].block - 1 = node[n].block
      BY <1>1, <2>2 DEF NodeStates
    <3> QED
      BY <1>3, <2>2, <3>1 DEF Wrote
  <2> QED
    BY <1>3, <2>1, <2>2
<1>7. Wrote(n, a)' = Wrote(n, a) \cup {e}
  BY <1>1, <1>2, <1>4, <1>6, PartGrows DEF NodeStates
<1>8. e[1] = K + 1
  BY <1>1, <1>2, <1>3 DEF CountInv
<1>9. StagedInv(n, a) => StagedInv(n, a)'
  <2>1. CASE Writes(server[a])
    BY <1>1, <1>3, <1>4, <1>5, <1>7, <1>8, <2>1 DEF StagedInv, Engaged
  <2>2. CASE ~Writes(server[a])
    BY <1>1, <1>3, <1>4, <1>5, <2>2 DEF StagedInv, Engaged
  <2> QED
    BY <2>1, <2>2
<1>10. JoinInv(n, a)' /\ (LogIsWhole(server[a]) => LogIsWhole(server'[a]))
  BY <1>3, <1>5 DEF JoinInv, LogIsWhole
<1>11. CleanInv(n, a)'
  BY <1>1, <1>3, <1>4, <1>5, <1>7 DEF PartInv, CleanInv, Writes
<1> QED
  BY <1>1, <1>9, <1>10, <1>11 DEF PartInv, WholeInv

LEMMA RollsBackPart ==
    ASSUME NEW n, OneNode(n), OneInv(n), NEW a \in Replicants, a = node[n].at,
           UNCHANGED <<outcome, kept, plan, faultAt>>, RollsBack(n, a)
    PROVE  PartInv(n, a)'
<1>1. /\ server[a] \in Servers /\ PartInv(n, a)
      /\ ~Writes(server[a]) => server[a].staged = {}
  BY DEF OneInv, EnoughInv, TypeInv, OrderInv, Numbered
<1>2. /\ node'[n].pc = "rollback" /\ conn'[n][a] = "up" /\ server'[a].log = server[a].log
      /\ server'[a].staged = {}
  BY <1>1, RollbackDoes DEF RollsBack, Next1, Is
<1>3. ~Begun(n, a)' /\ ~Committed(n, a)' /\ ~Checked(n, a)' /\ Wrote(n, a)' = {}
  BY <1>2 DEF Begun, Committed, Checked, Past, Wrote, Written
<1>4. StagedInv(n, a)' /\ JoinInv(n, a)' /\ CleanInv(n, a)'
  BY <1>2, <1>3 DEF StagedInv, JoinInv, CleanInv
<1> QED
  BY <1>1, <1>2, <1>4 DEF PartInv, WholeInv, LogIsWhole

(* What a commit, also one that fails, finds.                              *)
LEMMA CommitFinds ==
    ASSUME NEW n, OneNode(n), OneInv(n), NEW a \in Replicants, a = node[n].at,
           node[n].pc = "commit", conn[n][a] = "up", "read" \notin plan
    PROVE  \A e \in server[a].staged : Whole(e[1]) \subseteq server[a].staged
<1>1. /\ CountInv(n) /\ StagedInv(n, a) /\ a \in Int
      /\ ~Writes(server[a]) => server[a].staged = {}
  BY ReplicationAssumption DEF OneInv, PartInv, WholeInv, OrderInv, Numbered, Replicants
<1>2. /\ Engaged(n, a) /\ ~Committed(n, a) /\ node[n].tx = K + 1
      /\ Wrote(n, a) = Whole(K + 1)
  BY <1>1, WholeIsPart DEF Engaged, Begun, Committed, Wrote, Written, CountInv
<1> QED
  BY <1>1, <1>2 DEF StagedInv

LEMMA CommitsPart ==
    ASSUME NEW n, OneNode(n), OneInv(n), NEW a \in Replicants, a = node[n].at,
           UNCHANGED <<outcome, kept, plan, faultAt>>, Commits(n, a)
    PROVE  PartInv(n, a)'
<1>1. /\ n \in Nodes /\ PartInv(n, a) /\ server[a] \in Servers /\ CountInv(n)
      /\ a \in Int /\ ~(a < a) /\ a < a + 1 /\ K' = K /\ K \in Nat
      /\ Numbered(server[a], Bound(n), Latest(n, a))
  BY StartedIs, ReplicationAssumption DEF OneNode, OneInv, EnoughInv, TypeInv, Replicants, K, OrderInv
<1>2. /\ node[n].pc = "commit" /\ node'[n].pc = "commit" /\ node'[n].tx = node[n].tx
      /\ node'[n].at = a + 1 /\ conn[n][a] = "up" /\ conn'[n][a] = "up"
      /\ server'[a] = ServerCommit(server[a]) /\ (Clean(n)' <=> Clean(n))
  BY DEF Commits, Next1, Is, Clean
<1>3. /\ Begun(n, a) /\ ~Committed(n, a) /\ Committed(n, a)' /\ Checked(n, a)
      /\ Wrote(n, a) = Whole(node[n].tx)
  BY <1>1, <1>2, WholeIsPart DEF Begun, Committed, Wrote, Written, Checked, Past
<1>4. PICK b \in Nat, l \in Nat : b = Bound(n) /\ l = Latest(n, a) /\ l <= b
  <2>1. Bound(n) \in Nat /\ Latest(n, a) \in Nat /\ Latest(n, a) <= Bound(n)
    BY <1>1, BoundsAre
  <2> QED
    BY <2>1, Zenon
<1>5. /\ server'[a].staged = {}
      /\ (\A e \in server[a].staged : Whole(e[1]) \subseteq server[a].staged) /\ LogIsWhole(server[a])
            => LogIsWhole(server'[a])
  <2>1. Numbered(server[a], b, l)
    BY <1>1, <1>4
  <2> QED
    BY <1>1, <1>2, <1>4, <2>1, CommitNumbers
<1>6. WholeInv(n, a)'
  <2>1. StagedInv(n, a)' /\ JoinInv(n, a)'
    BY <1>2, <1>3, <1>5 DEF StagedInv, JoinInv
  <2>2. "read" \notin plan => LogIsWhole(server'[a])
    BY <1>1, <1>2, <1>5, CommitFinds DEF PartInv, WholeInv
  <2> QED
    BY <2>1, <2>2 DEF WholeInv
<1>7. Clean(n) => Holds(a, node[n].tx)'
  <2>1. SUFFICES ASSUME Clean(n) PROVE Holds(a, node[n].tx)'
    OBVIOUS
  <2>2. PICK s : s = server[a]
    OBVIOUS
  <2>3. PICK x : x = Whole(node[n].tx)
    OBVIOUS
  <2>4. s.handle = "writing" /\ s.staged = x /\ x # {} /\ s \in Servers
    BY <1>1, <1>3, <2>1, <2>2, <2>3, WholeIsNotEmpty DEF PartInv, CleanInv
  <2>5. server'[a].log = Append(s.log, x)
    BY <1>2, <2>2, <2>4, CommitDoes DEF Writes
  <2>6. Len(s.log) + 1 \in DOMAIN Append(s.log, x) /\ Append(s.log, x)[Len(s.log) + 1] = x
    BY <2>4, AppendDoes
  <2>7. x \in Range(Append(s.log, x))
    BY <2>6 DEF Range
  <2> QED
    BY <1>2, <2>3, <2>5, <2>7 DEF Holds
<1>8. CleanInv(n, a)'
  BY <1>2, <1>3, <1>7 DEF CleanInv
<1> QED
  BY <1>6, <1>8 DEF PartInv

(* The numbers at a call: only a store and a commit change them.           *)
LEMMA CallOrder ==
    ASSUME NEW n, OneNode(n), OneInv(n), NEW a \in Replicants, a = node[n].at,
           UNCHANGED <<outcome, kept>>, Calls(n, a)
    PROVE  OrderInv(n, a)'
<1>1. /\ n \in Nodes /\ TypeInv /\ server[a] \in Servers /\ node[n] \in NodeStates /\ OrderInv(n, a)
      /\ a \in Int /\ CountInv(n) /\ K \in Nat
      /\ (conn[n][a] = "up" => server[a].handle # "null")
  BY StartedIs, ReplicationAssumption
     DEF OneNode, OneInv, EnoughInv, TypeInv, UpIsOpen, Replicants
<1>2. K' = K /\ outcome' = outcome
  BY DEF K
<1>3. /\ node'[n].pc = node[n].pc /\ node'[n].then = node[n].then /\ node'[n].tx = node[n].tx
      /\ Storing(n)' <=> Storing(n)
  BY DEF Calls, Opened, Waits, Starts, Stores, Commits, RollsBack, Next1, Is, Storing
<1>4. ~Committed(n, a)
  BY <1>1 DEF Committed
<1>5. Grows(n, a)
  BY <1>1, <1>2, <1>3, <1>4 DEF Grows, Bound, Latest
<1>6. PICK s \in Servers : s = server[a]
  BY <1>1
<1>7. PICK t : t = server'[a]
  OBVIOUS
<1>8. CASE ~Stores(n, a) /\ ~Commits(n, a)
  <2>1. t.log = s.log /\ (t.staged = {} \/ (t.staged = s.staged /\ (Writes(s) => Writes(t))))
    <3>1. CASE Opened(n, a)
      BY <1>6, <1>7, <3>1, OpenDoes DEF Opened
    <3>2. CASE Waits(n, a)
      BY <1>6, <1>7, <3>2 DEF Waits
    <3>3. CASE Starts(n, a)
      <4>1. t = s \/ (t = ServerBegin(s, TRUE) /\ s.handle # "null")
        BY <1>1, <1>6, <1>7, <3>3 DEF Starts
      <4> QED
        BY <4>1, BeginDoes
    <3>4. CASE RollsBack(n, a)
      <4>1. t = ServerRollback(s)
        BY <1>6, <1>7, <3>4 DEF RollsBack
      <4> QED
        BY <4>1, RollbackDoes
    <3> QED
      BY <1>8, <3>1, <3>2, <3>3, <3>4 DEF Calls
  <2> QED
    BY <1>1, <1>5, <1>6, <1>7, <2>1, GrowsKeeps
<1>9. CASE Stores(n, a)
  <2>1. /\ node[n].pc = "write" /\ node[n].tx = K + 1 /\ node[n].block \in Nat
        /\ t = ServerStore(s, <<K + 1, node[n].block>>)
    BY <1>1, <1>6, <1>7, <1>9 DEF Stores, CountInv, NodeStates
  <2>2. Bound(n) = K + 1 /\ Latest(n, a) = K
    BY <1>4, <2>1 DEF Bound, Latest, Storing
  <2>3. Bound(n)' = K + 1 /\ Latest(n, a)' = K
    BY <1>2, <1>3, <2>1 DEF Bound, Latest, Storing, Committed
  <2>4. Numbered(s, K + 1, K)
    BY <1>1, <1>6, <2>2 DEF OrderInv
  <2>5. PICK w \in Nat : w = K + 1 /\ K < w
    BY <1>1
  <2>6. PICK k \in Nat : k = node[n].block
    BY <2>1
  <2>7. /\ Numbered(ServerStore(s, <<w, k>>), w, K)
        /\ \A v : v # w /\ Lacks(s, v) => Lacks(ServerStore(s, <<w, k>>), v)
    BY <1>1, <2>4, <2>5, StoreNumbers
  <2>8. t = ServerStore(s, <<w, k>>)
    BY <2>1, <2>5, <2>6
  <2>9. Numbered(t, w, K) /\ \A v : v # w /\ Lacks(s, v) => Lacks(t, v)
    BY <2>7, <2>8
  <2>10. \A v \in DOMAIN outcome : v # w
    BY <1>1, <2>5 DEF CountInv
  <2>11. \A v \in DOMAIN outcome : outcome[v] = "failed" => Lacks(t, v)
    BY <1>1, <1>6, <2>9, <2>10 DEF OrderInv
  <2> QED
    BY <1>2, <1>7, <2>3, <2>5, <2>9, <2>11 DEF OrderInv
<1>10. CASE Commits(n, a)
  <2>1. node[n].pc = "commit" /\ t = ServerCommit(s) /\ node'[n].at = node[n].at + 1
    BY <1>6, <1>7, <1>10 DEF Commits, Next1, Is
  <2>2. Bound(n) = K + 1 /\ Latest(n, a) = K
    BY <1>4, <2>1 DEF Bound, Latest, Storing
  <2>3. Bound(n)' = K + 1 /\ Latest(n, a)' = K + 1
    <3>1. Committed(n, a)'
      BY <1>1, <1>3, <2>1 DEF Committed
    <3> QED
      BY <1>2, <1>3, <2>1, <3>1 DEF Bound, Latest, Storing
  <2>4. PICK w \in Nat : w = K + 1 /\ K <= w
    BY <1>1
  <2>5. Numbered(s, w, K)
    BY <1>1, <1>6, <2>2, <2>4 DEF OrderInv
  <2>6. Numbered(t, w, w) /\ \A v : Lacks(s, v) => Lacks(t, v)
    BY <1>1, <2>1, <2>4, <2>5, CommitNumbers
  <2> QED
    BY <1>1, <1>2, <1>6, <1>7, <2>3, <2>4, <2>6 DEF OrderInv
<1> QED
  BY <1>8, <1>9, <1>10

LEMMA CallCounts ==
    ASSUME NEW n, OneNode(n), OneInv(n), NEW a \in Replicants, a = node[n].at,
           UNCHANGED <<outcome, kept>>, Calls(n, a)
    PROVE  CountInv(n)'
<1>1. n \in Nodes /\ TypeInv /\ CountInv(n) /\ K' = K
  BY DEF OneNode, OneInv, EnoughInv, K
<1>2. /\ node'[n].pc = node[n].pc /\ node'[n].tx = node[n].tx
      /\ \/ node'[n].block = 1 \/ node'[n] = node[n]
         \/ node[n].block # B /\ node'[n].block = node[n].block + 1
  BY DEF Calls, Opened, Waits, Starts, Stores, Commits, RollsBack, Next1, Is
<1>3. node[n].block \in Nat /\ B \in Nat \ {0}
  BY <1>1, ReplicationAssumption DEF TypeInv, NodeStates
<1>4. node'[n].block <= B
  BY <1>1, <1>2, <1>3 DEF CountInv
<1> QED
  BY <1>1, <1>2, <1>4 DEF CountInv

(* What a replicant holds stays, whatever is called.                       *)
LEMMA CallHolds ==
    ASSUME NEW n, TypeInv, NEW a \in Replicants, Calls(n, a), NEW v, Holds(a, v)
    PROVE  Holds(a, v)'
<1>1. PICK s \in Servers : s = server[a]
  BY DEF TypeInv
<1>2. PICK t : t = server'[a]
  OBVIOUS
<1>3. t.log = s.log \/ t.log = Append(s.log, s.staged)
  <2>1. t = s \/ t = ServerOpen(s) \/ t = ServerBegin(s, TRUE) \/ t = ServerCommit(s)
          \/ t = ServerRollback(s) \/ \E e : t = ServerStore(s, e)
    BY <1>1, <1>2 DEF Calls, Opened, Waits, Starts, Stores, Commits, RollsBack
  <2>2. t = ServerOpen(s) => t.log = s.log
    BY OpenDoes
  <2>3. t = ServerBegin(s, TRUE) => t.log = s.log
    BY BeginDoes
  <2>4. t = ServerCommit(s) => t.log = s.log \/ t.log = Append(s.log, s.staged)
    BY CommitDoes
  <2>5. t = ServerRollback(s) => t.log = s.log
    BY RollbackDoes
  <2>6. ASSUME NEW e, t = ServerStore(s, e) PROVE t.log = s.log
    BY <2>6, StoreDoes
  <2> QED
    BY <2>1, <2>2, <2>3, <2>4, <2>5, <2>6
<1>4. Range(s.log) \subseteq Range(Append(s.log, s.staged))
  <2>1. PICK x : x = s.staged
    OBVIOUS
  <2>2. /\ DOMAIN s.log \subseteq DOMAIN Append(s.log, x)
        /\ \A i \in DOMAIN s.log : Append(s.log, x)[i] = s.log[i]
    BY AppendDoes
  <2> QED
    BY <2>1, <2>2 DEF Range
<1> QED
  BY <1>1, <1>2, <1>3, <1>4 DEF Holds

LEMMA CallOne ==
    ASSUME NEW n, OneNode(n), OneInv(n), CallStep(n)
    PROVE  OneInv(n)'
<1>1. n \in Nodes /\ EnoughInv /\ TypeInv /\ CountInv(n) /\ K \in Nat
  BY StartedIs DEF OneNode, OneInv, EnoughInv
<1>2. EnoughInv'
  BY <1>1, CallLoops DEF CallStep
<1>3. PICK a \in Replicants :
             /\ a = node[n].at
             /\ UNCHANGED <<outcome, kept, reader, plan, faultAt>>
             /\ \A r \in Replicants \ {a} : server'[r] = server[r] /\ conn'[n][r] = conn[n][r]
             /\ Calls(n, a)
  BY <1>1, CallCases
<1>4. CountInv(n)' /\ ReaderInv(n)'
  BY <1>3, CallCounts DEF OneInv, ReaderInv
<1>5. ASSUME NEW r \in Replicants, r # a
      PROVE  PartInv(n, r)' /\ OrderInv(n, r)' /\ server'[r] = server[r]
  <2>1. \/ node'[n] = node[n]
        \/ Next1(n)
        \/ \E b : Is(node'[n], node[n].pc, node[n].then, node[n].at, b, node[n].tx)
    BY <1>3 DEF Calls, Opened, Waits, Starts, Stores, Commits, RollsBack, Is
  <2>2. node[n].pc # "idle"
    BY <1>3 DEF Calls, Opened, Waits, Starts, Stores, Commits, RollsBack
  <2>3. Turns(n, r) /\ (Committed(n, r)' <=> Committed(n, r)) /\ (Storing(n)' <=> Storing(n))
    BY <1>1, <1>3, <1>5, <2>1, <2>2, OthersTurn
  <2>4. PartInv(n, r)'
    BY <1>3, <1>5, <2>3, TurnsKeep DEF OneInv, PartInv
  <2>5. Grows(n, r)
    <3>1. K' = K /\ outcome' = outcome
      BY <1>3 DEF K
    <3> QED
      BY <1>1, <2>3, <3>1 DEF Grows, Bound, Latest
  <2> QED
    BY <1>3, <1>5, <2>4, <2>5, GrowsKeeps DEF OneInv
<1>6. PartInv(n, a)'
  BY <1>3, OpenedPart, StartsPart, StoresPart, RollsBackPart, CommitsPart DEF Calls
<1>7. OrderInv(n, a)'
  BY <1>3, CallOrder
<1>8. AckedIsEverywhere'
  <2>1. \A r \in Replicants : \A v : Holds(r, v) => Holds(r, v)'
    BY <1>1, <1>3, <1>5, CallHolds DEF Holds
  <2> QED
    BY <1>3, <2>1 DEF OneInv, AckedIsEverywhere
<1> QED
  BY <1>2, <1>4, <1>5, <1>6, <1>7, <1>8 DEF OneInv

(* A reader's begin.  Nothing is promised of whole transactions then, and  *)
(* the transaction underway has met a read.                                *)
LEMMA ReadOne ==
    ASSUME NEW n, OneNode(n), OneInv(n), Read(n)
    PROVE  OneInv(n)'
<1>1. n \in Nodes /\ EnoughInv /\ TypeInv /\ UpIsOpen /\ CountInv(n) /\ K \in Nat
  BY StartedIs DEF OneNode, OneInv, EnoughInv
<1>2. EnoughInv' /\ TypeInv'
  BY <1>1, ReadLoops DEF EnoughInv
<1>3. UNCHANGED <<outcome, kept, node, plan>> /\ "read" \in plan
  BY <1>1, ReadCases DEF OneInv, ReaderInv
<1>4. CountInv(n)' /\ ReaderInv(n)' /\ K' = K
  BY <1>1, <1>3 DEF CountInv, ReaderInv, K
<1>5. \A r : /\ Checked(n, r)' <=> Checked(n, r)
             /\ Begun(n, r)' <=> Begun(n, r)
             /\ Committed(n, r)' <=> Committed(n, r)
             /\ Wrote(n, r)' = Wrote(n, r)
  BY <1>3 DEF Checked, Past, Begun, Committed, Wrote, Written
<1>6. \A r \in Replicants : Grows(n, r)
  BY <1>1, <1>3, <1>4, <1>5 DEF Grows, Bound, Latest, Storing
<1>7. ASSUME NEW r \in Replicants,
             server'[r] = server[r] \/ Attends(n, r) \/ Demotes(n, r)
      PROVE  OrderInv(n, r)' /\ server'[r].log = server[r].log
  <2>1. PICK s \in Servers : s = server[r]
    BY <1>1 DEF TypeInv
  <2>2. PICK t : t = server'[r]
    OBVIOUS
  <2>3. t = s \/ t = ServerOpen(s) \/ (t = ServerBegin(s, FALSE) /\ s.handle # "null")
    BY <1>1, <1>7, <2>1, <2>2 DEF Attends, Demotes, UpIsOpen
  <2>4. t.log = s.log /\ (t.staged = {} \/ (t.staged = s.staged /\ (Writes(s) => Writes(t))))
    BY <2>3, OpenDoes, BeginDoes
  <2> QED
    BY <1>6, <2>1, <2>2, <2>4, GrowsKeeps DEF OneInv
<1>8. CASE faultAt' = faultAt /\ faultAt' # Started
  <2>1. ASSUME NEW r \in Replicants,
               \/ server'[r] = server[r] /\ conn'[n][r] = conn[n][r]
               \/ Attends(n, r) \/ Gives(n, r)
        PROVE  CleanInv(n, r)'
    <3>1. server'[r].log = server[r].log
      BY <1>7, <2>1 DEF Gives
    <3>2. Clean(n)' <=> Clean(n)
      BY <1>3, <1>8 DEF Clean
    <3>3. \A v : Holds(r, v)' <=> Holds(r, v)
      BY <3>1 DEF Holds
    <3>4. CASE conn[n][r] = "up"
      <4>1. server'[r] = server[r] /\ conn'[n][r] = "up"
        <5>1. server[r] \in Servers /\ server[r].handle # "null"
          BY <1>1, <3>4 DEF TypeInv, UpIsOpen
        <5> QED
          BY <2>1, <3>4, <5>1, OpenDoes DEF Attends, Gives
      <4> QED
        BY <1>3, <1>5, <3>2, <3>3, <4>1 DEF OneInv, PartInv, CleanInv
    <3>5. CASE conn[n][r] # "up"
      <4>1. Clean(n) => ~Checked(n, r)
        BY <3>5 DEF OneInv, PartInv, CleanInv
      <4> QED
        BY <1>5, <3>2, <4>1, BegunIsChecked DEF CleanInv
    <3> QED
      BY <3>4, <3>5
  <2>2. \A r \in Replicants :
          \/ server'[r] = server[r] /\ conn'[n][r] = conn[n][r]
          \/ Attends(n, r) \/ Gives(n, r) \/ (Demotes(n, r) /\ faultAt' = Started)
    BY <1>1, ReadCases DEF Demotes
  <2>3. \A r \in Replicants : CleanInv(n, r)' /\ OrderInv(n, r)' /\ server'[r].log = server[r].log
    BY <1>7, <1>8, <2>1, <2>2 DEF Gives
  <2>4. \A r \in Replicants : \A v : Holds(r, v) => Holds(r, v)'
    BY <2>3 DEF Holds
  <2>5. AckedIsEverywhere'
    BY <1>3, <1>8, <2>4 DEF OneInv, AckedIsEverywhere
  <2> QED
    BY <1>2, <1>3, <1>4, <2>3, <2>5 DEF OneInv, PartInv, WholeInv
<1>9. CASE faultAt' = Started
  <2>1. \A r \in Replicants : OrderInv(n, r)'
    <3>1. \A r \in Replicants : server'[r] = server[r] \/ Attends(n, r) \/ Demotes(n, r)
      BY <1>1, ReadCases DEF Gives
    <3> QED
      BY <1>7, <3>1
  <2>2. /\ node[n].pc # "idle" => node[n].tx = Started
        /\ \A v \in DOMAIN outcome : ~(v > Started)
    BY <1>1, StartedIs DEF CountInv
  <2>3. \A r \in Replicants : CleanInv(n, r)'
    BY <1>1, <1>3, <1>9, <2>2, StartedType DEF CleanInv, Clean
  <2>4. AckedIsEverywhere'
    BY <1>3, <1>9, <2>2 DEF AckedIsEverywhere
  <2> QED
    BY <1>2, <1>3, <1>4, <2>1, <2>3, <2>4 DEF OneInv, PartInv, WholeInv
<1> QED
  BY <1>1, <1>8, <1>9, ReadCases DEF Demotes

(* Faults.  A transaction that met one promises no more than that it is    *)
(* whole; no log changes.                                                  *)
FaultStep(n) ==
    \/ Faulty(n) \/ StoreStops(n)
    \/ \E r \in Replicants : Crash(r) \/ Restart(r)

Loses(n, r) ==
    /\ conn'[n][r] # "up" /\ (conn'[n][r] = "none" <=> conn[n][r] = "none")
    /\ server'[r] = server[r] \/ server'[r] = Stopped(server[r])

Passes(n) ==
    /\ Next1(n) /\ server' = server /\ conn' = conn
    /\ \/ node[n].pc = "check" /\ conn[n][node[n].at] = "none" /\ "resolve" \in plan
       \/ node[n].pc = "commit" /\ conn[n][node[n].at] = "up"

(* The fault takes r away, passes it over, or leaves it alone.             *)
LEMMA FaultCases ==
    ASSUME TypeInv, NEW n, OneNode(n), FaultStep(n)
    PROVE  /\ plan' = plan
           /\ \/ NodeRestart(n)
              \/ /\ UNCHANGED <<outcome, kept>>
                 /\ \/ Passes(n)
                    \/ /\ node' = node
                       /\ \A r \in Replicants :
                            \/ Loses(n, r)
                            \/ server'[r] = server[r] /\ conn'[n][r] = conn[n][r]
           /\ faultAt' = Started \/ (faultAt' = faultAt /\ StoreStops(n))
<1>1. n \in Nodes /\ node[n] \in NodeStates
  BY DEF OneNode, TypeInv
<1>2. plan' = plan /\ (faultAt' = Started \/ (faultAt' = faultAt /\ StoreStops(n)))
  BY DEF FaultStep, Faulty, ReadBegin, ReadUnresolved, Unresolved, CommitFails, NodeRestart,
         Disconnect, StoreStops, Crash, Restart, Fault
<1>3. CASE Unresolved(n) \/ CommitFails(n)
  <2>1. /\ UNCHANGED <<server, conn, outcome, kept>>
        /\ \/ node[n].pc = "check" /\ conn[n][node[n].at] = "none" /\ "resolve" \in plan
           \/ node[n].pc = "commit" /\ conn[n][node[n].at] = "up"
    BY <1>3 DEF Unresolved, CommitFails, In, Fault, IsOpen, ends
  <2>2. Next1(n)
    BY <1>1, <1>3, ProceedMoves DEF Unresolved, CommitFails, In, Next1, Is
  <2> QED
    BY <1>2, <2>1, <2>2 DEF Passes
<1>4. CASE NodeRestart(n)
  BY <1>2, <1>4
<1>5. ASSUME NEW r \in Replicants, Disconnect(n, r)
      PROVE  /\ Loses(n, r) /\ UNCHANGED <<outcome, kept, node, server>>
             /\ \A q \in Replicants : q # r => conn'[n][q] = conn[n][q]
  <2>1. UNCHANGED <<server, node, outcome, kept>> /\ conn[n][r] = "up"
    BY <1>5 DEF Disconnect, ends
  <2>2. conn' = [conn EXCEPT ![n] = [conn[n] EXCEPT ![r] = "broken"]]
    BY <1>1, <1>5 DEF Disconnect, TypeInv
  <2>3. conn'[n][r] = "broken" /\ \A q \in Replicants : q # r => conn'[n][q] = conn[n][q]
    BY <1>1, <2>2 DEF TypeInv
  <2> QED
    BY <2>1, <2>3 DEF Loses
<1>6. ASSUME NEW r \in Replicants, Stop(r)
      PROVE  /\ Loses(n, r)
             /\ \A q \in Replicants : q # r => server'[q] = server[q] /\ conn'[n][q] = conn[n][q]
  <2>1. /\ server'[r] = Stopped(server[r])
        /\ \A q \in Replicants : q # r => server'[q] = server[q]
    BY <1>6 DEF Stop, TypeInv
  <2>2. conn'[n] = [conn[n] EXCEPT ![r] = IF conn[n][r] = "up" THEN "broken" ELSE conn[n][r]]
    BY <1>1, <1>6 DEF Stop
  <2>3. conn[n] \in [Replicants -> {"none", "up", "broken"}]
    BY <1>1 DEF TypeInv
  <2>4. /\ \A q \in Replicants : q # r => conn'[n][q] = conn[n][q]
        /\ conn'[n][r] = IF conn[n][r] = "up" THEN "broken" ELSE conn[n][r]
    BY <2>2, <2>3
  <2> QED
    BY <2>1, <2>4 DEF Loses
<1>7. CASE StoreStops(n)
  <2>1. node[n].at \in Replicants
    BY <1>1, <1>7, ReplicationAssumption DEF NodeStates, Replicants, StoreStops, In
  <2>2. Stop(node[n].at) /\ UNCHANGED <<node, outcome, kept>>
    BY <1>7 DEF StoreStops, ends
  <2> QED
    BY <1>2, <1>6, <2>1, <2>2
<1>8. ASSUME NEW r \in Replicants, Crash(r) PROVE Stop(r) /\ UNCHANGED <<node, outcome, kept>>
  BY <1>8 DEF Crash, ends
<1>9. CASE \E r \in Replicants : Disconnect(n, r)
  BY <1>2, <1>5, <1>9
<1>10. CASE \E r \in Replicants : Crash(r)
  BY <1>2, <1>6, <1>8, <1>10
<1>11. CASE ReadBegin(n) \/ ReadUnresolved(n) \/ \E r \in Replicants : Restart(r)
  <2>1. UNCHANGED <<server, conn, node, outcome, kept>>
    BY <1>11 DEF ReadBegin, ReadUnresolved, Restart, ends
  <2> QED
    BY <1>2, <2>1
<1> QED
  BY <1>3, <1>4, <1>7, <1>9, <1>10, <1>11 DEF FaultStep, Faulty

LEMMA FaultServers ==
    ASSUME TypeInv, NEW n, OneNode(n), FaultStep(n), NEW r \in Replicants
    PROVE  server'[r] = server[r] \/ server'[r] = Stopped(server[r])
<1>1. NodeRestart(n) \/ Passes(n) => server' = server
  BY DEF NodeRestart, Passes
<1> QED
  BY <1>1, FaultCases DEF Loses

LEMMA RestartIs ==
    ASSUME TypeInv, NEW n, OneNode(n), CountInv(n), NodeRestart(n)
    PROVE  /\ node'[n].pc = "idle" /\ ~kept'[n] /\ "node" \in plan
           /\ \A r \in Replicants : conn'[n][r] = "none"
           /\ CountInv(n)' /\ K' = Started /\ DOMAIN outcome' = 1..Started
           /\ \A v \in DOMAIN outcome' : outcome'[v] = "failed" =>
                 v \in DOMAIN outcome /\ outcome[v] = "failed"
<1>1. n \in Nodes /\ K \in Nat /\ Started = IF node[n].pc = "idle" THEN K ELSE K + 1
  BY StartedIs DEF OneNode
<1>2. "node" \in plan /\ \A r \in Replicants : conn'[n][r] = "none"
  BY <1>1 DEF NodeRestart, Fault, TypeInv
<1>3. CASE node[n].pc # "idle"
  <2>1. Finish(n, "open")
    BY <1>3 DEF NodeRestart
  <2>2. /\ K' = K + 1 /\ CountInv(n)' /\ node'[n].pc = "idle" /\ outcome'[K + 1] = "open"
        /\ DOMAIN outcome' = DOMAIN outcome \cup {K + 1}
        /\ \A v \in DOMAIN outcome : outcome'[v] = outcome[v]
        /\ ~kept'[n]
    BY <1>3, <2>1, FinishCounts
  <2>3. K' = Started /\ DOMAIN outcome' = 1..Started
    BY <1>1, <1>3, <2>2 DEF CountInv
  <2> QED
    BY <1>2, <2>2, <2>3
<1>4. CASE node[n].pc = "idle"
  <2>1. UNCHANGED <<node, outcome>> /\ ~kept'[n] /\ K' = K
    BY <1>1, <1>4 DEF NodeRestart, TypeInv, K
  <2> QED
    BY <1>1, <1>2, <1>4, <2>1 DEF CountInv
<1> QED
  BY <1>3, <1>4

LEMMA FaultParts ==
    ASSUME NEW n, OneNode(n), OneInv(n), FaultStep(n), NEW r \in Replicants
    PROVE  WholeInv(n, r)'
<1>1. /\ n \in Nodes /\ TypeInv /\ CountInv(n) /\ PartInv(n, r) /\ r \in Int
      /\ node[n] \in NodeStates /\ server[r] \in Servers
  BY ReplicationAssumption DEF OneNode, OneInv, EnoughInv, TypeInv, Replicants
<1>2. plan' = plan /\ (server'[r] = server[r] \/ server'[r] = Stopped(server[r]))
  BY <1>1, FaultCases, FaultServers
<1>3. server'[r].log = server[r].log /\ (server[r].handle = "null" => server'[r].handle = "null")
  BY <1>1, <1>2, StoppedDoes
<1>4. LogIsWhole(server[r]) => LogIsWhole(server[r])'
  BY <1>3 DEF LogIsWhole
<1>5. WholeInv(n, r)
  BY <1>1 DEF PartInv
<1>6. CASE NodeRestart(n)
  <2>1. node'[n].pc = "idle" /\ ~kept'[n] /\ "node" \in plan /\ conn'[n][r] = "none"
    BY <1>1, <1>6, RestartIs
  <2>2. JoinInv(n, r)'
    BY <1>2, <2>1 DEF JoinInv, Checked, Past
  <2> QED
    BY <1>2, <1>4, <1>5, <2>1, <2>2, NotConnectedParts
<1>7. CASE UNCHANGED <<outcome, kept>> /\ Passes(n) /\ r # node[n].at
  <2>1. node[n].pc # "idle" /\ Next1(n) /\ server'[r] = server[r] /\ conn'[n][r] = conn[n][r]
    BY <1>7 DEF Passes
  <2>2. Turns(n, r)
    BY <1>1, <1>7, <2>1, OthersTurn
  <2> QED
    BY <1>1, <1>2, <2>1, <2>2, TurnsKeep
<1>8. CASE UNCHANGED <<outcome, kept>> /\ Passes(n) /\ r = node[n].at
  <2>1. /\ node'[n].pc = node[n].pc /\ node'[n].then = node[n].then /\ node'[n].tx = node[n].tx
        /\ node'[n].at = node[n].at + 1 /\ K' = K /\ kept' = kept
        /\ server' = server /\ conn'[n][r] = conn[n][r]
    BY <1>8 DEF Passes, Next1, Is, K
  <2>2. CASE node[n].pc = "check"
    <3>1. conn[n][r] = "none" /\ "resolve" \in plan
      BY <1>8, <2>2 DEF Passes
    <3>2. "read" \notin plan => JoinInv(n, r)'
      BY <1>2, <1>5, <2>1, <3>1 DEF WholeInv, JoinInv
    <3> QED
      BY <1>2, <1>4, <1>5, <2>1, <3>1, <3>2, NotConnectedParts
  <2>3. CASE node[n].pc = "commit"
    <3>1. conn[n][r] = "up"
      BY <1>8, <2>3 DEF Passes
    <3>2. Committed(n, r)'
      BY <1>1, <1>8, <2>1, <2>3 DEF Committed
    <3>3. ASSUME "read" \notin plan PROVE StagedInv(n, r)'
      <4>1. \A e \in server[r].staged : Whole(e[1]) \subseteq server[r].staged
        BY <1>8, <2>3, <3>1, <3>3, CommitFinds
      <4> QED
        BY <2>1, <3>2, <4>1 DEF StagedInv
    <3>4. "read" \notin plan => JoinInv(n, r)'
      BY <2>1, <3>1 DEF JoinInv
    <3> QED
      BY <1>2, <1>4, <1>5, <3>3, <3>4 DEF WholeInv
  <2> QED
    BY <1>8, <2>2, <2>3 DEF Passes
<1>9. CASE UNCHANGED <<outcome, kept>> /\ node' = node /\ Loses(n, r)
  <2>1. "read" \notin plan => JoinInv(n, r)'
    BY <1>2, <1>3, <1>5, <1>9 DEF Loses, WholeInv, JoinInv, Checked, Past
  <2> QED
    BY <1>2, <1>4, <1>5, <1>9, <2>1, NotConnectedParts DEF Loses
<1>10. CASE /\ UNCHANGED <<outcome, kept>> /\ node' = node
            /\ server'[r] = server[r] /\ conn'[n][r] = conn[n][r]
  BY <1>2, <1>5, <1>10 DEF WholeInv, StagedInv, JoinInv, LogIsWhole, Engaged, Checked, Past, Begun,
                           Committed, Wrote, Written, K
<1> QED
  BY <1>1, <1>6, <1>7, <1>8, <1>9, <1>10, FaultCases

LEMMA FaultCounts ==
    ASSUME NEW n, OneNode(n), OneInv(n), FaultStep(n)
    PROVE  /\ CountInv(n)'
           /\ DOMAIN outcome' \subseteq 1..Started /\ Started \in Nat
           /\ node'[n].pc # "idle" => node'[n].tx = Started
           /\ \A r \in Replicants : Grows(n, r)
<1>1. /\ n \in Nodes /\ TypeInv /\ CountInv(n) /\ node[n] \in NodeStates /\ B \in Nat \ {0}
  BY ReplicationAssumption DEF OneNode, OneInv, EnoughInv, TypeInv
<1>2. K \in Nat /\ Started = IF node[n].pc = "idle" THEN K ELSE K + 1
  BY <1>1, StartedIs
<1>3. CASE NodeRestart(n)
  <2>1. /\ node'[n].pc = "idle" /\ CountInv(n)' /\ K' = Started /\ DOMAIN outcome' = 1..Started
        /\ \A v \in DOMAIN outcome' : outcome'[v] = "failed" =>
              v \in DOMAIN outcome /\ outcome[v] = "failed"
    BY <1>1, <1>3, RestartIs
  <2>2. \A r : Bound(n)' = Started /\ Latest(n, r)' = Started
    BY <2>1 DEF Bound, Latest, Storing, Committed
  <2>3. \A r : Bound(n) <= Started /\ Latest(n, r) <= Started
    BY <1>2 DEF Bound, Latest, Storing, Committed
  <2>4. \A r : Bound(n)' >= Bound(n) /\ Latest(n, r)' >= Latest(n, r)
    BY <2>2, <2>3, <1>2, BoundsAre
  <2> QED
    BY <1>2, <2>1, <2>4 DEF Grows
<1>4. CASE UNCHANGED outcome /\ (Passes(n) \/ node' = node)
  <2>1. /\ K' = K /\ node'[n].pc = node[n].pc /\ node'[n].then = node[n].then
        /\ node'[n].tx = node[n].tx
        /\ node'[n].block = 1 \/ node'[n].block = node[n].block
        /\ node'[n].at = node[n].at \/ node'[n].at = node[n].at + 1
    BY <1>4 DEF K, Passes, Next1, Is
  <2>2. CountInv(n)'
    BY <1>1, <1>4, <2>1 DEF CountInv
  <2>3. ASSUME NEW r \in Replicants PROVE Committed(n, r) => Committed(n, r)'
    <3>1. r \in Int /\ node[n].at \in Int
      BY <1>1, ReplicationAssumption DEF Replicants, NodeStates
    <3> QED
      BY <2>1, <3>1 DEF Committed
  <2>4. DOMAIN outcome' \subseteq 1..Started
    BY <1>1, <1>2, <1>4 DEF CountInv
  <2>5. node'[n].pc # "idle" => node'[n].tx = Started
    BY <1>1, <1>2, <2>1 DEF CountInv
  <2>6. Bound(n)' = Bound(n)
    BY <2>1 DEF Bound, Storing
  <2> QED
    BY <1>2, <1>4, <2>1, <2>2, <2>3, <2>4, <2>5, <2>6, BoundsAre DEF Latest, Grows
<1> QED
  BY <1>1, <1>3, <1>4, FaultCases

LEMMA FaultReader ==
    ASSUME TypeInv, NEW n, OneNode(n), FaultStep(n), ReaderInv(n)
    PROVE  ReaderInv(n)'
<1>1. n \in Nodes /\ plan' = plan /\ reader[n] \in ReaderStates
  BY FaultCases DEF OneNode, TypeInv
<1>2. CASE UNCHANGED reader
  BY <1>1, <1>2 DEF ReaderInv
<1>3. CASE ReadBegin(n)
  BY <1>1, <1>3 DEF ReadBegin, Fault, ReaderInv
<1>4. CASE ReadUnresolved(n)
  <2>1. reader[n].pc # "idle"
    BY <1>4 DEF ReadUnresolved, Reads
  <2> QED
    BY <1>1, <2>1 DEF ReaderInv
<1>5. CASE NodeRestart(n)
  BY <1>1, <1>5 DEF NodeRestart, ReaderInv, ReadAt, TypeInv
<1> QED
  BY <1>2, <1>3, <1>4, <1>5
     DEF FaultStep, Faulty, Unresolved, CommitFails, Disconnect, StoreStops, Crash, Restart

LEMMA FaultOne ==
    ASSUME NEW n, OneNode(n), OneInv(n), FaultStep(n)
    PROVE  OneInv(n)'
<1>1. n \in Nodes /\ EnoughInv /\ TypeInv /\ K \in Nat
  BY StartedIs DEF OneNode, OneInv, EnoughInv
<1>2. EnoughInv'
  BY <1>1, FaultLoops DEF FaultStep
<1>3. CountInv(n)' /\ ReaderInv(n)'
  BY <1>1, FaultCounts, FaultReader DEF OneInv
<1>4. faultAt' = Started \/ (faultAt' = faultAt /\ StoreStops(n))
  BY <1>1, FaultCases
<1>5. ASSUME NEW r \in Replicants PROVE OrderInv(n, r)' /\ server'[r].log = server[r].log
  <2>1. server[r] \in Servers /\ (server'[r] = server[r] \/ server'[r] = Stopped(server[r]))
    BY <1>1, FaultServers DEF TypeInv
  <2>2. /\ server'[r].log = server[r].log
        /\ \/ server'[r].staged = {}
           \/ server'[r].staged = server[r].staged /\ (Writes(server[r]) => Writes(server'[r]))
    BY <2>1, StoppedDoes
  <2>3. Grows(n, r) /\ OrderInv(n, r)
    BY FaultCounts DEF OneInv
  <2> QED
    BY <2>2, <2>3, GrowsKeeps
<1>6. ASSUME StoreStops(n) PROVE ~Clean(n) /\ UNCHANGED <<node, outcome, kept>>
  <2>1. PICK a \in Replicants : a = node[n].at
    BY <1>1, <1>6, ReplicationAssumption DEF TypeInv, NodeStates, Replicants, StoreStops, In
  <2>2. /\ node[n].pc = "write" /\ server[a].handle = "reading"
        /\ UNCHANGED <<node, outcome, kept>>
    BY <1>6, <2>1 DEF StoreStops, In, StoreThrows, ends
  <2>3. CleanInv(n, a)
    BY DEF OneInv, PartInv
  <2> QED
    BY <2>2, <2>3 DEF CleanInv, Begun, Committed
<1>7. ~Clean(n)'
  <2>1. CASE faultAt' = Started
    <3>1. node'[n].pc # "idle" => node'[n].tx = Started /\ Started \in Nat
      BY FaultCounts
    <3> QED
      BY <2>1, <3>1 DEF Clean
  <2>2. CASE faultAt' = faultAt /\ StoreStops(n)
    BY <1>6, <2>2 DEF Clean
  <2> QED
    BY <1>4, <2>1, <2>2
<1>8. \A r \in Replicants : PartInv(n, r)'
  BY <1>7, FaultParts DEF PartInv, CleanInv
<1>9. \A r \in Replicants : \A v : Holds(r, v)' <=> Holds(r, v)
  BY <1>5 DEF Holds
<1>10. AckedIsEverywhere'
  <2>1. CASE faultAt' = Started
    <3>1. \A v \in DOMAIN outcome' : ~(v > faultAt')
      BY <2>1, FaultCounts
    <3> QED
      BY <3>1 DEF AckedIsEverywhere
  <2>2. CASE faultAt' = faultAt /\ StoreStops(n)
    BY <1>6, <1>9, <2>2 DEF OneInv, AckedIsEverywhere
  <2> QED
    BY <1>4, <2>1, <2>2
<1> QED
  BY <1>2, <1>3, <1>5, <1>8, <1>10 DEF OneInv

LEMMA NextOne ==
    ASSUME NEW n, OneNode(n), OneInv(n), [Next]_vars
    PROVE  OneInv(n)'
<1>1. CASE UNCHANGED vars
  <2>1. EnoughInv'
    BY <1>1, NextLoops DEF OneInv
  <2>2. CountInv(n)' /\ ReaderInv(n)' /\ AckedIsEverywhere'
    BY <1>1 DEF vars, ends, OneInv, CountInv, ReaderInv, K, AckedIsEverywhere, Holds
  <2>3. \A r \in Replicants : PartInv(n, r)'
    BY <1>1 DEF vars, ends, OneInv, PartInv, WholeInv, StagedInv, JoinInv, LogIsWhole, CleanInv,
                Clean, Engaged, Checked, Past, Begun, Committed, Wrote, Written, K, Holds
  <2>4. \A r \in Replicants : OrderInv(n, r)'
    BY <1>1 DEF vars, ends, OneInv, OrderInv, Bound, Latest, Storing, Committed, K, Lacks, Numbered
  <2> QED
    BY <2>1, <2>2, <2>3, <2>4 DEF OneInv
<1>2. CASE Next
  <2>1. NodeStep(n) \/ CallStep(n) \/ Read(n) \/ FaultStep(n)
    BY <1>2 DEF Next, OneNode, Call, Client, NodeStep, CallStep, FaultStep
  <2> QED
    BY <2>1, NodeOne, CallOne, ReadOne, FaultOne
<1> QED
  BY <1>1, <1>2

LEMMA InitOne ==
    ASSUME NEW n, OneNode(n), Init
    PROVE  OneInv(n)
<1>1. n \in Nodes /\ EnoughInv /\ TypeInv
  BY InitLoops DEF OneNode, EnoughInv
<1>2. /\ node[n] = Idle /\ DOMAIN outcome = {} /\ node[n].pc = "idle" /\ node[n].block = 1
      /\ ~kept[n] /\ reader[n].pc = "idle"
  BY <1>1, FirstFields DEF Init, Idle, ReadAt
<1>3. K = 0
  BY <1>2, FS_EmptySet DEF K
<1>4. CountInv(n) /\ ReaderInv(n)
  BY <1>2, <1>3, ReplicationAssumption DEF CountInv, ReaderInv
<1>5. ASSUME NEW r \in Replicants PROVE PartInv(n, r) /\ OrderInv(n, r)
  <2>1. server[r].handle = "null" /\ server[r].log = <<>> /\ server[r].staged = {}
    BY DEF Init
  <2>2. DOMAIN server[r].log = {}
    BY <2>1
  <2>3. PartInv(n, r)
    BY <1>2, <2>1, <2>2 DEF PartInv, WholeInv, StagedInv, JoinInv, LogIsWhole, CleanInv, Clean,
                            Engaged, Begun, Checked, Past
  <2> QED
    BY <1>2, <2>1, <2>2, <2>3 DEF OrderInv, Numbered
<1> QED
  BY <1>1, <1>2, <1>4, <1>5 DEF OneInv, AckedIsEverywhere

LEMMA OneNodeIsCorrect ==
    ASSUME NEW n, OneNode(n)
    PROVE  Spec => []OneInv(n)
<1>1. Init => OneInv(n)
  BY InitOne
<1>2. OneInv(n) /\ [Next]_vars => OneInv(n)'
  BY NextOne
<1> QED
  BY <1>1, <1>2, PTL DEF Spec

(* What a replicant committed (replication.cpp, "commit") goes forward in  *)
(* the order in which the transactions began, with nothing twice, and, as  *)
(* long as nobody reads, in whole transactions, although a transaction     *)
(* that follows an acknowledged one is not begun on the replicants: for    *)
(* one node, any number of replicants, blocks, transactions and faults     *)
(* that are not both restarts and names that do not resolve.               *)
THEOREM LogsStayHistories ==
    ASSUME NEW n, Nodes = {n}, \A p \in Plans : ~({"node", "resolve"} \subseteq p)
    PROVE  Spec => []LogsAreHistories
<1>1. OneNode(n)
  BY DEF OneNode
<1>2. ASSUME OneInv(n) PROVE LogsAreHistories
  <2>1. ASSUME NEW r \in Replicants
        PROVE  /\ \A i, j \in DOMAIN server[r].log : i < j =>
                     \A e \in server[r].log[i], f \in server[r].log[j] : e[1] < f[1]
               /\ "read" \notin plan => LogIsWhole(server[r])
    BY <1>2 DEF OneInv, OrderInv, Numbered, PartInv, WholeInv
  <2> QED
    BY <2>1 DEF LogsAreHistories, LogIsWhole
<1>3. OneInv(n) => LogsAreHistories
  BY <1>2
<1>4. Spec => []OneInv(n)
  BY <1>1, OneNodeIsCorrect
<1> QED
  BY <1>3, <1>4, PTL

(* A transaction that the client saw fail is on no replicant, under the    *)
(* same hypotheses: rolback_replicants and the begin of the next           *)
(* transaction leave nothing of it to commit.                              *)
THEOREM FailuresLeaveNothing ==
    ASSUME NEW n, Nodes = {n}, \A p \in Plans : ~({"node", "resolve"} \subseteq p)
    PROVE  Spec => []FailedIsNowhere
<1>1. OneInv(n) => FailedIsNowhere
  BY DEF OneInv, OrderInv, Lacks, FailedIsNowhere
<1>2. Spec => []OneInv(n)
  BY OneNodeIsCorrect DEF OneNode
<1> QED
  BY <1>1, <1>2, PTL

(* A transaction that is begun on the replicants (mvcc_coordinator::begin  *)
(* with begin_replicants), after the last fault and the last read, and was *)
(* acknowledged is on every replicant, also on the ones that came back,    *)
(* under the same hypotheses, although commit_replicants asks for a quorum *)
(* only.                                                                   *)
THEOREM AcksAreEverywhere ==
    ASSUME NEW n, Nodes = {n}, \A p \in Plans : ~({"node", "resolve"} \subseteq p)
    PROVE  Spec => []AckedIsEverywhere
<1>1. OneInv(n) => AckedIsEverywhere
  BY DEF OneInv
<1>2. Spec => []OneInv(n)
  BY OneNodeIsCorrect DEF OneNode
<1> QED
  BY <1>1, <1>2, PTL

=============================================================================
