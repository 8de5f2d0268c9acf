------------------------------- MODULE Journal ------------------------------
(***************************************************************************)
(* The process-wide journal (journal_state in journal.cpp) under the       *)
(* commits of several storages, with compaction, crashes and recovery.     *)
(*                                                                         *)
(* Each storage has one committing thread: dbms::commit holds resource_x   *)
(* from begin to the end of the synch.  A commit journals its pages one by *)
(* one (jlock is held for a single entry only), moves them into the        *)
(* storage's memory (mvcc_coordinator::merge, one step under its lock) and *)
(* then calls synch, which holds llock.  Commits of different storages     *)
(* interleave anywhere in between.                                         *)
(*                                                                         *)
(* A crash loses memory and journal_buffer, and of the records written to  *)
(* the stream any suffix that has not been flushed.  data is what sqlite   *)
(* has committed; everything else is in its journal, or lost.              *)
(***************************************************************************)
EXTENDS Integers, Sequences, FiniteSets, FiniteSetsExt

CONSTANTS
    Storages,    \* journal participants, by name
    Addr,        \* page addresses
    Val,         \* page contents
    NoVal,       \* no such page
    Failing,     \* storages with replicants or observers: merge may throw
    MaxCommits,  \* bound: commits started
    MaxCrashes   \* bound: crashes

ASSUME JournalAssumption ==
    /\ IsFiniteSet(Storages) /\ IsFiniteSet(Addr)
    /\ NoVal \notin Val
    /\ Failing \subseteq Storages
    /\ MaxCommits \in Nat /\ MaxCrashes \in Nat

VARIABLES
    data,        \* contents of each storage's data file
    mem,         \* committed contents of each storage in memory
    file,        \* records written to the journal stream
    flushed,     \* how many of them a crash cannot lose
    buffer,      \* journal_buffer
    sequence,    \* sequence number of the last record
    pc,          \* where the committing thread of each storage is
    tx,          \* the pages it commits
    todo,        \* addresses it has still to journal
    llock,       \* the thread inside synch, or none
    uncommitted, \* participants compaction has still to commit
    acked,       \* contents of each storage at its last finished commit
    mode,        \* "up", or where recovery is
    pos,         \* recovery: records read
    commands,    \* recovery: pages read since the last commit record
    pending,     \* recovery: pages of each storage's transaction
    is_error,    \* recovery: a bad sequence number was met
    commits, crashes

logVars == <<file, flushed, buffer, sequence>>
threadVars == <<pc, tx, todo, llock, uncommitted>>
recoverVars == <<pos, commands, pending, is_error>>
vars == <<data, mem, acked, mode, commits, crashes, logVars, threadVars, recoverVars>>

None == "none"
Contents == [Addr -> Val \cup {NoVal}]
Empty == [a \in Addr |-> NoVal]
Written(p) == {a \in Addr : p[a] # NoVal}

(* The pages p on top of the contents c. *)
Overlay(c, p) == [a \in Addr |-> IF p[a] # NoVal THEN p[a] ELSE c[a]]

Page(s, a, v) == [seq |-> sequence + 1, command |-> "page", name |-> s, address |-> a, val |-> v]
CommitMark == [seq |-> sequence + 1, command |-> "commit"]

-----------------------------------------------------------------------------
Init ==
    /\ data = [s \in Storages |-> Empty]
    /\ mem = data
    /\ acked = data
    /\ file = <<>> /\ flushed = 0 /\ buffer = <<>> /\ sequence = 0
    /\ pc = [s \in Storages |-> "idle"]
    /\ tx = data
    /\ todo = [s \in Storages |-> {}]
    /\ llock = None
    /\ uncommitted = {}
    /\ mode = "up"
    /\ pos = 0 /\ commands = <<>> /\ is_error = FALSE
    /\ pending = data
    /\ commits = 0 /\ crashes = 0

(* A writer with the changed pages p calls commit.                         *)
CommitCalled(s, p) ==
    /\ mode = "up" /\ pc[s] = "idle"
    /\ commits < MaxCommits
    /\ commits' = commits + 1
    /\ pc' = [pc EXCEPT ![s] = "journal"]
    /\ tx' = [tx EXCEPT ![s] = p]
    /\ todo' = [todo EXCEPT ![s] = Written(p)]
    /\ UNCHANGED <<data, mem, acked, mode, crashes, llock, uncommitted, logVars,
                   recoverVars>>

(* journal: add_entry for one modified page; it writes the buffer out when *)
(* the buffer has grown too large.                                         *)
JournalPage(s, a, spill) ==
    LET grown == Append(buffer, Page(s, a, tx[s][a]))
    IN
    /\ mode = "up" /\ pc[s] = "journal"
    /\ a \in todo[s]
    /\ sequence' = sequence + 1
    /\ file' = IF spill THEN file \o grown ELSE file
    /\ buffer' = IF spill THEN <<>> ELSE grown
    /\ todo' = [todo EXCEPT ![s] = @ \ {a}]
    /\ UNCHANGED <<data, mem, acked, mode, commits, crashes, flushed, pc, tx, llock,
                   uncommitted, recoverVars>>

(* merge moves the pages to the storage's newest version ...               *)
Merge(s) ==
    /\ mode = "up" /\ pc[s] = "journal"
    /\ todo[s] = {}
    /\ mem' = [mem EXCEPT ![s] = Overlay(@, tx[s])]
    /\ pc' = [pc EXCEPT ![s] = "synch"]
    /\ UNCHANGED <<data, acked, mode, commits, crashes, tx, todo, llock, uncommitted,
                   logVars, recoverVars>>

(* ... or throws (ReplicationFailure) once the pages are journalled, and   *)
(* the writer rolls back; what is in the journal stays there.              *)
MergeThrows(s) ==
    /\ mode = "up" /\ pc[s] = "journal"
    /\ s \in Failing
    /\ todo[s] = {}
    /\ pc' = [pc EXCEPT ![s] = "idle"]
    /\ tx' = [tx EXCEPT ![s] = Empty]
    /\ UNCHANGED <<data, mem, acked, mode, commits, crashes, todo, llock, uncommitted,
                   logVars, recoverVars>>

(* synch returns to dbms::commit, and that to its caller.                  *)
Returns(s) ==
    /\ pc' = [pc EXCEPT ![s] = "idle"]
    /\ acked' = [acked EXCEPT ![s] = mem[s]]
    /\ tx' = [tx EXCEPT ![s] = Empty]

(* The commit record is added and everything is flushed.  A slip would be  *)
(* to give the record no number of its own.                                *)
MarkCommitUnnumbered ==
    /\ file' = file \o Append(buffer, CommitMark)
    /\ flushed' = Len(file')
    /\ buffer' = <<>>
    /\ UNCHANGED sequence

MarkCommit ==
    /\ file' = file \o Append(buffer, CommitMark)
    /\ flushed' = Len(file')
    /\ buffer' = <<>>
    /\ sequence' = sequence + 1

(* synch, under llock.  last_synch is only ever set to 0, so nothing is    *)
(* done when no record was added since the journal was emptied.  Past the  *)
(* size limit it goes on to compact.                                       *)
Synch(s, compacts) ==
    /\ mode = "up" /\ pc[s] = "synch"
    /\ llock = None
    /\ \/ /\ sequence = 0
          /\ Returns(s)
          /\ UNCHANGED <<logVars, llock, uncommitted>>
       \/ /\ sequence # 0
          /\ MarkCommit
          /\ IF compacts
             THEN /\ llock' = s
                  /\ uncommitted' = Storages
                  /\ pc' = [pc EXCEPT ![s] = "compact"]
                  /\ UNCHANGED <<acked, tx>>
             ELSE /\ Returns(s)
                  /\ UNCHANGED <<llock, uncommitted>>
    /\ UNCHANGED <<data, mem, mode, commits, crashes, todo, recoverVars>>

(* Compaction: a participant's memory goes to its data file ...            *)
JournalCommit(s, p) ==
    /\ mode = "up" /\ pc[s] = "compact"
    /\ p \in uncommitted
    /\ data' = [data EXCEPT ![p] = mem[p]]
    /\ uncommitted' = uncommitted \ {p}
    /\ UNCHANGED <<mem, acked, mode, commits, crashes, pc, tx, todo, llock, logVars,
                   recoverVars>>

(* A slip: the journal is given up before all participants are committed.  *)
CompactFlushEarly(s) ==
    /\ mode = "up" /\ pc[s] = "compact"
    /\ file' = file \o buffer
    /\ buffer' = <<>>
    /\ pc' = [pc EXCEPT ![s] = "remove"]
    /\ UNCHANGED <<data, mem, acked, mode, commits, crashes, flushed, sequence, tx, todo,
                   llock, uncommitted, recoverVars>>

(* ... when all have been committed the buffer is written out ...          *)
CompactFlush(s) ==
    /\ mode = "up" /\ pc[s] = "compact"
    /\ uncommitted = {}
    /\ file' = file \o buffer
    /\ buffer' = <<>>
    /\ pc' = [pc EXCEPT ![s] = "remove"]
    /\ UNCHANGED <<data, mem, acked, mode, commits, crashes, flushed, sequence, tx, todo,
                   llock, uncommitted, recoverVars>>

(* Slips: llock is not released, and the length of the removed file is     *)
(* still counted.                                                          *)
CompactRemoveLocked(s) ==
    /\ mode = "up" /\ pc[s] = "remove"
    /\ file' = <<>>
    /\ flushed' = 0
    /\ sequence' = 0
    /\ Returns(s)
    /\ UNCHANGED <<data, mem, mode, commits, crashes, buffer, todo, llock, uncommitted,
                   recoverVars>>

CompactRemoveCounted(s) ==
    /\ mode = "up" /\ pc[s] = "remove"
    /\ file' = <<>>
    /\ sequence' = 0
    /\ llock' = None
    /\ Returns(s)
    /\ UNCHANGED <<data, mem, mode, commits, crashes, flushed, buffer, todo, uncommitted,
                   recoverVars>>

(* ... and the journal file removed and begun anew.                        *)
CompactRemove(s) ==
    /\ mode = "up" /\ pc[s] = "remove"
    /\ file' = <<>>
    /\ flushed' = 0
    /\ sequence' = 0
    /\ llock' = None
    /\ Returns(s)
    /\ UNCHANGED <<data, mem, mode, commits, crashes, buffer, todo, uncommitted,
                   recoverVars>>

(* A crash, at any time; n records of the journal survive it.  The process *)
(* starts again with recovery, from what the data files hold.              *)
Crash(n) ==
    /\ crashes < MaxCrashes
    /\ crashes' = crashes + 1
    /\ n \in flushed..Len(file)
    /\ file' = SubSeq(file, 1, n)
    /\ flushed' = n
    /\ buffer' = <<>> /\ sequence' = 0
    /\ mem' = data
    /\ pc' = [s \in Storages |-> "idle"]
    /\ todo' = [s \in Storages |-> {}]
    /\ llock' = None
    /\ uncommitted' = {}
    /\ mode' = "read"
    /\ pos' = 0 /\ commands' = <<>> /\ is_error' = FALSE
    /\ pending' = [s \in Storages |-> Empty]
    /\ UNCHANGED <<data, acked, tx, commits>>

(* A slip: the storage's name is not looked at.                            *)
LastPagesOfAny(cs, s) ==
    [a \in Addr |->
        LET I == {i \in DOMAIN cs : cs[i].address = a}
        IN  IF I = {} THEN NoVal ELSE cs[Max(I)].val]

(* Each address of a storage with the last page read for it.               *)
LastPages(cs, s) ==
    [a \in Addr |->
        LET I == {i \in DOMAIN cs : cs[i].name = s /\ cs[i].address = a}
        IN  IF I = {} THEN NoVal ELSE cs[Max(I)].val]

BadSequence == pos > 0 /\ file[pos + 1].seq # file[pos].seq + 1

(* A slip: pages are applied as they are read, committed or not.           *)
RecoverRecordEagerly ==
    /\ mode = "read" /\ pos < Len(file) /\ ~is_error
    /\ pos' = pos + 1
    /\ pending' = IF file[pos + 1].command = "page"
                  THEN [pending EXCEPT ![file[pos + 1].name][file[pos + 1].address]
                                         = file[pos + 1].val]
                  ELSE pending
    /\ UNCHANGED <<data, mem, acked, mode, commits, crashes, commands, is_error,
                   logVars, threadVars>>

(* recover: the next record; a commit record applies the pages before it.  *)
RecoverRecord ==
    /\ mode = "read" /\ pos < Len(file) /\ ~is_error
    /\ IF BadSequence
       THEN /\ is_error' = TRUE
            /\ UNCHANGED <<pos, commands, pending>>
       ELSE /\ pos' = pos + 1
            /\ IF file[pos + 1].command = "page"
               THEN /\ commands' = Append(commands, file[pos + 1])
                    /\ UNCHANGED pending
               ELSE /\ pending' = [s \in Storages |->
                                      Overlay(pending[s], LastPages(commands, s))]
                    /\ commands' = <<>>
            /\ UNCHANGED is_error
    /\ UNCHANGED <<data, mem, acked, mode, commits, crashes, logVars, threadVars>>

(* The end of the file, or of what can be read of it.                      *)
RecoverEndOfFile ==
    /\ mode = "read" /\ (pos = Len(file) \/ is_error)
    /\ mode' = "finish"
    /\ UNCHANGED <<data, mem, acked, commits, crashes, logVars, threadVars, recoverVars>>

(* A slip: a committed transaction stays pending.                          *)
RecoverCommitPending(s) ==
    /\ mode = "finish" /\ Written(pending[s]) # {}
    /\ data' = IF is_error THEN data
               ELSE [data EXCEPT ![s] = Overlay(@, pending[s])]
    /\ UNCHANGED <<mem, acked, mode, commits, crashes, logVars, threadVars, recoverVars>>

(* Each transaction is committed to its data file, or discarded if the     *)
(* journal was bad.                                                        *)
RecoverCommit(s) ==
    /\ mode = "finish" /\ Written(pending[s]) # {}
    /\ data' = IF is_error THEN data
               ELSE [data EXCEPT ![s] = Overlay(@, pending[s])]
    /\ pending' = [pending EXCEPT ![s] = Empty]
    /\ UNCHANGED <<mem, acked, mode, commits, crashes, logVars, threadVars, pos, commands,
                   is_error>>

(* The journal is removed and the storages are open for use.               *)
RecoverDone ==
    /\ mode = "finish" /\ \A s \in Storages : Written(pending[s]) = {}
    /\ mode' = "up"
    /\ file' = <<>> /\ flushed' = 0 /\ sequence' = 0
    /\ mem' = data
    /\ acked' = data
    /\ tx' = [s \in Storages |-> Empty]
    /\ pos' = 0 /\ commands' = <<>>
    /\ UNCHANGED <<data, commits, crashes, buffer, pc, todo, llock, uncommitted, pending,
                   is_error>>

Recover ==
    \/ RecoverRecord
    \/ RecoverEndOfFile
    \/ \E s \in Storages : RecoverCommit(s)
    \/ RecoverDone

(* The steps of a committing thread that nothing but locks can hold up.    *)
ThreadStep(s) ==
    \/ \E a \in Addr, spill \in BOOLEAN : JournalPage(s, a, spill)
    \/ Merge(s)
    \/ MergeThrows(s)
    \/ \E compacts \in BOOLEAN : Synch(s, compacts)
    \/ \E p \in Storages : JournalCommit(s, p)
    \/ CompactFlush(s)
    \/ CompactRemove(s)

Next ==
    \/ \E s \in Storages, p \in Contents \ {Empty} : CommitCalled(s, p)
    \/ \E s \in Storages : ThreadStep(s)
    \/ \E n \in 0..Len(file) : Crash(n)
    \/ Recover

(* The operating system runs every thread; nothing makes a client commit   *)
(* or the process crash.                                                   *)
Fairness == WF_vars(Recover) /\ \A s \in Storages : WF_vars(ThreadStep(s))

Spec == Init /\ [][Next]_vars /\ Fairness

-----------------------------------------------------------------------------
(* What recovery makes of a journal f over the contents c of storage s, as *)
(* a whole: nothing if a sequence number is out of order, else every page's*)
(* last image up to the last commit record.                                *)
Readable(f) == \A i \in 2..Len(f) : f[i].seq = f[i - 1].seq + 1

Replayed(f, s, c) ==
    LET marks == {i \in DOMAIN f : f[i].command = "commit"}
        upto  == IF marks = {} THEN 0 ELSE Max(marks)
        pages(a) == {i \in 1..upto : /\ f[i].command = "page"
                                     /\ f[i].name = s /\ f[i].address = a}
    IN  [a \in Addr |-> IF ~Readable(f) \/ pages(a) = {} THEN c[a]
                        ELSE f[Max(pages(a))].val]

(* What storage s would hold after a crash and recovery at this moment.    *)
Stable(s) == Replayed(file, s, data[s])

Records == [seq : Nat, command : {"commit"}] \cup
           [seq : Nat, command : {"page"}, name : Storages, address : Addr, val : Val]

TypeOK ==
    /\ {data, mem, acked, tx, pending} \subseteq [Storages -> Contents]
    /\ \A r \in {file, buffer, commands} : \A i \in DOMAIN r : r[i] \in Records
    /\ flushed \in 0..Len(file)
    /\ {sequence, pos, commits, crashes} \subseteq Nat
    /\ pc \in [Storages -> {"idle", "journal", "synch", "compact", "remove"}]
    /\ todo \in [Storages -> SUBSET Addr]
    /\ llock \in Storages \cup {None}
    /\ uncommitted \subseteq Storages
    /\ mode \in {"up", "read", "finish"}
    /\ is_error \in BOOLEAN

(* recover never meets a bad sequence number in a journal this process     *)
(* wrote, so it never throws good commits away with a bad one.             *)
AlwaysReadable == Readable(file \o buffer)

(* A commit whose caller got its answer is on disk, and what is on disk of *)
(* a commit underway is nothing or all: after recovery each storage holds  *)
(* its last acknowledged contents, or those with the whole of the commit   *)
(* the crash interrupted.                                                  *)
RecoveryIsAtomic ==
    [][mode = "finish" /\ mode' = "up" =>
         \A s \in Storages : mem'[s] \in {acked[s], Overlay(acked[s], tx[s])}]_vars

(* An acknowledged page survives: after recovery a page is as the last     *)
(* finished commit left it, or as the interrupted one wrote it.            *)
AckedSurvives ==
    [][mode = "finish" /\ mode' = "up" =>
         \A s \in Storages, a \in Addr :
             mem'[s][a] \in {acked[s][a], Overlay(acked[s], tx[s])[a]}]_vars

(* What a storage would recover to changes at one point only, when its own *)
(* commit is made durable, by the whole commit: journalling, compaction,   *)
(* crashes and every step of recovery leave it as it is, so recovery can be*)
(* interrupted and begun again.                                            *)
SynchIsCommitPoint ==
    [][\A s \in Storages :
         Stable(s)' # Stable(s) =>
             pc[s] = "synch" /\ Stable(s)' = Overlay(Stable(s), tx[s])]_vars

(* Reading the journal record by record and committing storage by storage, *)
(* interrupted by crashes anywhere and begun again, ends in what the       *)
(* journal said as a whole when recovery first began.                      *)
RecoveryIsReplay ==
    [][mode # "up" =>
         \A s \in Storages :
             /\ Stable(s)' = Stable(s)
             /\ mode' = "up" => mem'[s] = Stable(s)]_vars

(* A commit that was called returns, unless the process crashes first.     *)
CommitReturns ==
    \A s \in Storages : pc[s] # "idle" ~> pc[s] = "idle"

(* Recovery comes to an end.                                               *)
RecoveryEnds == mode # "up" ~> mode = "up"
=============================================================================
