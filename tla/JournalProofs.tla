---------------------------- MODULE JournalProofs ----------------------------
(***************************************************************************)
(* The journal, for any number of pages, contents, commits and crashes.    *)
(***************************************************************************)
EXTENDS Journal, SequenceTheorems, FiniteSetTheorems, WellFoundedInduction, TLAPS

(* A nonempty set of positions of a sequence has a last one, which Max is. *)
LEMMA MaxIsLast ==
    ASSUME NEW n \in Nat, NEW S \in SUBSET (1..n), S # {}
    PROVE  Max(S) \in S /\ \A y \in S : y <= Max(S)
<1> DEFINE T == {n - x : x \in S}
<1>1. T \subseteq Nat /\ T # {}
  <2>1. PICK x \in S : TRUE
    OBVIOUS
  <2>2. n - x \in T
    OBVIOUS
  <2> QED
    BY <2>2
<1>2. PICK d \in T : \A e \in T : ~(<<e, d>> \in OpToRel(<, Nat))
  <2> HIDE DEF T
  <2> QED
    BY <1>1, NatLessThanWellFounded, WFMin
<1>3. PICK x \in S : d = n - x
  OBVIOUS
<1>4. ASSUME NEW y \in S PROVE x >= y
  <2>1. n - y \in T /\ n - y \in Nat /\ d \in Nat
    OBVIOUS
  <2>2. ~(n - y < d)
    BY <1>2, <2>1 DEF OpToRel
  <2> QED
    BY <1>3, <2>2
<1>5. \E z \in S : \A y \in S : z >= y
  BY <1>4
<1>6. Max(S) \in S /\ \A y \in S : Max(S) >= y
  BY <1>5 DEF Max
<1> QED
  BY <1>6

LEMMA MaxUnique ==
    ASSUME NEW S \in SUBSET Int, NEW x \in S, \A y \in S : y <= x
    PROVE  Max(S) = x
<1>1. \A y \in S : x >= y
  OBVIOUS
<1>2. Max(S) \in S /\ \A y \in S : Max(S) >= y
  BY <1>1 DEF Max
<1>3. Max(S) \in Int /\ Max(S) <= x /\ Max(S) >= x
  BY <1>2
<1> QED
  BY <1>3

-----------------------------------------------------------------------------
(* The type invariant as an inductive one: journal, buffer and commands are*)
(* sequences of records, and only written pages are left to journal.       *)
TypeInv ==
    /\ TypeOK
    /\ file \in Seq(Records) /\ buffer \in Seq(Records) /\ commands \in Seq(Records)
    /\ \A i \in DOMAIN commands : commands[i].command = "page"
    /\ \A s \in Storages : todo[s] \subseteq Written(tx[s])
    /\ \A s \in Storages : pc[s] # "journal" => todo[s] = {}
    /\ mode # "up" => \A s \in Storages : pc[s] = "idle"

(* TypeOK, conjunct by conjunct.                                           *)
LEMMA Types ==
    ASSUME TypeOK
    PROVE  /\ data \in [Storages -> Contents] /\ mem \in [Storages -> Contents]
           /\ acked \in [Storages -> Contents] /\ tx \in [Storages -> Contents]
           /\ pending \in [Storages -> Contents]
           /\ flushed \in 0..Len(file)
           /\ sequence \in Nat /\ pos \in Nat /\ commits \in Nat /\ crashes \in Nat
           /\ pc \in [Storages -> {"idle", "journal", "synch", "compact", "remove"}]
           /\ todo \in [Storages -> SUBSET Addr]
           /\ llock \in Storages \cup {None}
           /\ uncommitted \subseteq Storages
           /\ mode \in {"up", "read", "finish"}
           /\ is_error \in BOOLEAN
BY DEF TypeOK

(* And back, in the next state.                                            *)
LEMMA TypesNext ==
    ASSUME /\ data' \in [Storages -> Contents] /\ mem' \in [Storages -> Contents]
           /\ acked' \in [Storages -> Contents] /\ tx' \in [Storages -> Contents]
           /\ pending' \in [Storages -> Contents],
           file' \in Seq(Records), buffer' \in Seq(Records), commands' \in Seq(Records),
           flushed' \in 0..Len(file'),
           sequence' \in Nat /\ pos' \in Nat /\ commits' \in Nat /\ crashes' \in Nat,
           pc' \in [Storages -> {"idle", "journal", "synch", "compact", "remove"}],
           todo' \in [Storages -> SUBSET Addr],
           llock' \in Storages \cup {None},
           uncommitted' \subseteq Storages,
           mode' \in {"up", "read", "finish"},
           is_error' \in BOOLEAN,
           \A i \in DOMAIN commands' : commands'[i].command = "page",
           \A s \in Storages : todo'[s] \subseteq Written(tx'[s]),
           \A s \in Storages : pc'[s] # "journal" => todo'[s] = {},
           mode' # "up" => \A s \in Storages : pc'[s] = "idle"
    PROVE  TypeInv'
<1>1. \A r \in {file', buffer', commands'} : \A i \in DOMAIN r : r[i] \in Records
  BY ElementOfSeq, LenProperties
<1>2. TypeOK'
  BY <1>1 DEF TypeOK, Contents, Records
<1> QED
  BY <1>2 DEF TypeInv, Written, Records

(* The fields of a record.                                                 *)
LEMMA RecordFields ==
    ASSUME NEW r \in Records
    PROVE  /\ r.seq \in Nat /\ r.command \in {"page", "commit"}
           /\ r.command = "page" =>
                 r.name \in Storages /\ r.address \in Addr /\ r.val \in Val
BY DEF Records

LEMMA OverlayType ==
    ASSUME NEW c \in Contents, NEW p \in Contents
    PROVE  Overlay(c, p) \in Contents
BY DEF Overlay, Contents

LEMMA EmptyContents == Empty \in Contents /\ Written(Empty) = {}
BY DEF Empty, Contents, Written

(* LastPages of a sequence of pages is contents.                           *)
LEMMA LastPagesType ==
    ASSUME NEW cs \in Seq(Records), \A i \in DOMAIN cs : cs[i].command = "page",
           NEW s
    PROVE  LastPages(cs, s) \in Contents
<1> SUFFICES ASSUME NEW a \in Addr
             PROVE  LET I == {i \in DOMAIN cs : cs[i].name = s /\ cs[i].address = a}
                    IN  (IF I = {} THEN NoVal ELSE cs[Max(I)].val) \in Val \cup {NoVal}
  BY DEF LastPages, Contents
<1> DEFINE I == {i \in DOMAIN cs : cs[i].name = s /\ cs[i].address = a}
<1>1. CASE I # {}
  <2>1. Len(cs) \in Nat /\ DOMAIN cs = 1..Len(cs)
    BY LenProperties
  <2>2. I \in SUBSET (1..Len(cs))
    BY <2>1
  <2>3. Max(I) \in I
    <3> HIDE DEF I
    <3> QED
      BY <1>1, <2>1, <2>2, MaxIsLast
  <2>4. Max(I) \in DOMAIN cs
    BY <2>3
  <2>5. cs[Max(I)] \in Records
    BY <2>1, <2>4, ElementOfSeq
  <2> QED
    BY <2>4, <2>5, RecordFields
<1> QED
  BY <1>1

-----------------------------------------------------------------------------
LEMMA InitType == Init => TypeInv
<1> SUFFICES ASSUME Init PROVE TypeInv
  OBVIOUS
<1>1. data \in [Storages -> Contents]
  BY EmptyContents DEF Init
<1>2. /\ mem = data /\ acked = data /\ tx = data /\ pending = data
      /\ file = <<>> /\ buffer = <<>> /\ commands = <<>>
      /\ flushed = 0 /\ sequence = 0 /\ pos = 0 /\ commits = 0 /\ crashes = 0
      /\ pc = [s \in Storages |-> "idle"] /\ todo = [s \in Storages |-> {}]
      /\ llock = None /\ uncommitted = {} /\ mode = "up" /\ is_error = FALSE
  BY DEF Init
<1>3. <<>> \in Seq(Records) /\ Len(<<>>) = 0 /\ DOMAIN <<>> = {}
  OBVIOUS
<1>4. TypeOK
  <2>1. \A r \in {file, buffer, commands} : \A i \in DOMAIN r : r[i] \in Records
    BY <1>2, <1>3
  <2>2. {data, mem, acked, tx, pending} \subseteq [Storages -> Contents]
    BY <1>1, <1>2
  <2>3. /\ flushed \in 0..Len(file)
        /\ {sequence, pos, commits, crashes} \subseteq Nat
        /\ pc \in [Storages -> {"idle", "journal", "synch", "compact", "remove"}]
        /\ todo \in [Storages -> SUBSET Addr]
    BY <1>2, <1>3
  <2> QED
    BY <1>2, <2>1, <2>2, <2>3 DEF TypeOK
<1> QED
  BY <1>2, <1>3, <1>4 DEF TypeInv

LEMMA CommitCalledType ==
    ASSUME TypeInv, NEW s \in Storages, NEW p \in Contents, CommitCalled(s, p)
    PROVE  TypeInv'
<1>1. Written(p) \subseteq Addr
  BY DEF Written
<1>2. /\ pc' \in [Storages -> {"idle", "journal", "synch", "compact", "remove"}]
      /\ tx' \in [Storages -> Contents] /\ todo' \in [Storages -> SUBSET Addr]
      /\ commits' \in Nat
      /\ \A r \in Storages : todo'[r] \subseteq Written(tx'[r])
      /\ \A r \in Storages : pc'[r] # "journal" => todo'[r] = {}
  <2>1. /\ pc' = [pc EXCEPT ![s] = "journal"] /\ commits' = commits + 1
        /\ tx' = [tx EXCEPT ![s] = p] /\ todo' = [todo EXCEPT ![s] = Written(p)]
    BY DEF CommitCalled
  <2> QED
    BY <1>1, <2>1, Types DEF TypeInv
<1> QED
  BY <1>2, Types, TypesNext DEF TypeInv, CommitCalled, logVars, recoverVars

(* A page that is journalled is one of the writer's.                       *)
LEMMA PageType ==
    ASSUME TypeInv, NEW s \in Storages, NEW a \in todo[s]
    PROVE  Page(s, a, tx[s][a]) \in Records
<1>1. a \in Addr /\ tx[s] \in Contents /\ tx[s][a] # NoVal /\ sequence \in Nat
  BY Types DEF TypeInv, Written
<1>2. tx[s][a] \in Val
  BY <1>1 DEF Contents
<1> QED
  BY <1>1, <1>2 DEF Page, Records

LEMMA JournalPageType ==
    ASSUME TypeInv, NEW s \in Storages, NEW a \in Addr, NEW spill \in BOOLEAN,
           JournalPage(s, a, spill)
    PROVE  TypeInv'
<1> DEFINE grown == Append(buffer, Page(s, a, tx[s][a]))
<1>1. /\ a \in todo[s] /\ sequence' = sequence + 1
      /\ file' = IF spill THEN file \o grown ELSE file
      /\ buffer' = IF spill THEN <<>> ELSE grown
      /\ todo' = [todo EXCEPT ![s] = @ \ {a}]
  BY DEF JournalPage
<1>2. grown \in Seq(Records)
  BY <1>1, PageType, AppendProperties DEF TypeInv
<1> HIDE DEF grown
<1>3. /\ file' \in Seq(Records) /\ buffer' \in Seq(Records)
      /\ flushed \in 0..Len(file')
  <2>1. file \in Seq(Records) /\ flushed \in 0..Len(file)
    BY Types DEF TypeInv
  <2>2. /\ file \o grown \in Seq(Records) /\ Len(file \o grown) = Len(file) + Len(grown)
        /\ Len(file) \in Nat /\ Len(grown) \in Nat
    BY <1>2, <2>1, ConcatProperties, LenProperties
  <2> QED
    BY <1>1, <1>2, <2>1, <2>2, EmptySeq DEF TypeInv
<1>4. /\ todo' \in [Storages -> SUBSET Addr]
      /\ \A r \in Storages : todo'[r] \subseteq Written(tx[r])
      /\ \A r \in Storages : pc[r] # "journal" => todo'[r] = {}
  BY <1>1, Types DEF TypeInv
<1>5. sequence' \in Nat
  BY <1>1, Types DEF TypeInv
<1> QED
  BY <1>3, <1>4, <1>5, Types, TypesNext DEF TypeInv, JournalPage, recoverVars

LEMMA MergeType ==
    ASSUME TypeInv, NEW s \in Storages, Merge(s) \/ MergeThrows(s)
    PROVE  TypeInv'
<1>1. /\ pc' \in [Storages -> {"idle", "journal", "synch", "compact", "remove"}]
      /\ mem' \in [Storages -> Contents] /\ tx' \in [Storages -> Contents]
      /\ \A r \in Storages : todo[r] \subseteq Written(tx'[r])
      /\ \A r \in Storages : pc'[r] # "journal" => todo[r] = {}
  <2>1. CASE Merge(s)
    <3>1. /\ mem' = [mem EXCEPT ![s] = Overlay(mem[s], tx[s])]
          /\ pc' = [pc EXCEPT ![s] = "synch"] /\ tx' = tx /\ todo[s] = {}
      BY <2>1 DEF Merge
    <3>2. mem[s] \in Contents /\ tx[s] \in Contents
      BY Types DEF TypeInv
    <3> QED
      BY <3>1, <3>2, OverlayType, Types DEF TypeInv
  <2>2. CASE MergeThrows(s)
    <3>1. /\ todo[s] = {} /\ tx' = [tx EXCEPT ![s] = Empty]
          /\ pc' = [pc EXCEPT ![s] = "idle"] /\ mem' = mem
      BY <2>2 DEF MergeThrows
    <3> QED
      BY <3>1, EmptyContents, Types DEF TypeInv
  <2> QED
    BY <2>1, <2>2
<1>2. /\ mode = "up"
      /\ UNCHANGED <<data, acked, mode, commits, crashes, todo, llock, uncommitted>>
      /\ UNCHANGED <<file, flushed, buffer, sequence, pos, commands, pending, is_error>>
  BY DEF Merge, MergeThrows, logVars, recoverVars
<1> QED
  BY <1>1, <1>2, Types, TypesNext DEF TypeInv

LEMMA ReturnsType ==
    ASSUME TypeInv, NEW s \in Storages, Returns(s), pc[s] # "journal"
    PROVE  /\ pc' \in [Storages -> {"idle", "journal", "synch", "compact", "remove"}]
           /\ acked' \in [Storages -> Contents] /\ tx' \in [Storages -> Contents]
           /\ \A r \in Storages : todo[r] \subseteq Written(tx'[r])
           /\ \A r \in Storages : pc'[r] # "journal" => todo[r] = {}
BY Types, EmptyContents DEF TypeInv, Returns

LEMMA SynchType ==
    ASSUME TypeInv, NEW s \in Storages, NEW compacts \in BOOLEAN, Synch(s, compacts)
    PROVE  TypeInv'
<1>1. /\ mode = "up" /\ pc[s] = "synch"
      /\ UNCHANGED <<data, mem, mode, commits, crashes, todo>>
      /\ UNCHANGED <<pos, commands, pending, is_error>>
  BY DEF Synch, recoverVars
<1>2. CASE Returns(s) /\ UNCHANGED <<logVars, llock, uncommitted>>
  <2>1. UNCHANGED <<file, flushed, buffer, sequence, llock, uncommitted>>
    BY <1>2 DEF logVars
  <2> QED
    BY <1>1, <1>2, <2>1, ReturnsType, Types, TypesNext DEF TypeInv
<1>3. CASE MarkCommit
  <2>1. /\ file' \in Seq(Records) /\ buffer' \in Seq(Records)
        /\ flushed' \in 0..Len(file') /\ sequence' \in Nat
    <3>1. CommitMark \in Records /\ sequence' \in Nat
      BY <1>3, Types DEF CommitMark, Records, TypeInv, MarkCommit
    <3>2. Append(buffer, CommitMark) \in Seq(Records)
      BY <3>1, AppendProperties DEF TypeInv
    <3>3. file' \in Seq(Records)
      BY <1>3, <3>2, ConcatProperties DEF TypeInv, MarkCommit
    <3>4. buffer' = <<>> /\ flushed' = Len(file')
      BY <1>3 DEF MarkCommit
    <3> QED
      BY <3>1, <3>3, <3>4, LenProperties, EmptySeq
  <2>2. CASE Returns(s) /\ UNCHANGED <<llock, uncommitted>>
    BY <1>1, <2>1, <2>2, ReturnsType, Types, TypesNext DEF TypeInv
  <2>3. CASE /\ llock' = s /\ uncommitted' = Storages
             /\ pc' = [pc EXCEPT ![s] = "compact"] /\ UNCHANGED <<acked, tx>>
    <3>1. /\ pc' \in [Storages -> {"idle", "journal", "synch", "compact", "remove"}]
          /\ \A r \in Storages : pc'[r] # "journal" => todo[r] = {}
      BY <1>1, <2>3, Types DEF TypeInv
    <3> QED
      BY <1>1, <2>1, <2>3, <3>1, Types, TypesNext DEF TypeInv
  <2> QED
    BY <1>3, <2>2, <2>3 DEF Synch, MarkCommit, logVars
<1> QED
  BY <1>2, <1>3 DEF Synch

LEMMA CompactType ==
    ASSUME TypeInv, NEW s \in Storages, NEW p \in Storages,
           JournalCommit(s, p) \/ CompactFlush(s) \/ CompactRemove(s)
    PROVE  TypeInv'
<1>1. CASE JournalCommit(s, p)
  <2>1. data' \in [Storages -> Contents] /\ uncommitted' \subseteq Storages
    BY <1>1, Types DEF TypeInv, JournalCommit
  <2>2. /\ mode = "up"
        /\ UNCHANGED <<mem, acked, mode, commits, crashes, pc, tx, todo, llock>>
        /\ UNCHANGED <<file, flushed, buffer, sequence, pos, commands, pending, is_error>>
    BY <1>1 DEF JournalCommit, logVars, recoverVars
  <2> QED
    BY <2>1, <2>2, Types, TypesNext DEF TypeInv
<1>2. CASE CompactFlush(s)
  <2>1. /\ UNCHANGED <<data, mem, acked, mode, commits, crashes, flushed, sequence>>
        /\ UNCHANGED <<tx, todo, llock, uncommitted, pos, commands, pending, is_error>>
        /\ mode = "up" /\ pc[s] = "compact" /\ pc' = [pc EXCEPT ![s] = "remove"]
        /\ file' = file \o buffer /\ buffer' = <<>>
    BY <1>2 DEF CompactFlush, recoverVars
  <2>2. /\ pc' \in [Storages -> {"idle", "journal", "synch", "compact", "remove"}]
        /\ \A r \in Storages : pc'[r] # "journal" => todo[r] = {}
    BY <2>1, Types DEF TypeInv
  <2>3. file' \in Seq(Records) /\ buffer' \in Seq(Records) /\ flushed \in 0..Len(file')
    <3>1. /\ file \in Seq(Records) /\ buffer \in Seq(Records)
          /\ Len(file) \in Nat /\ Len(buffer) \in Nat /\ flushed \in 0..Len(file)
      BY Types, LenProperties DEF TypeInv
    <3> QED
      BY <2>1, <3>1, ConcatProperties, EmptySeq
  <2> QED
    BY <2>1, <2>2, <2>3, Types, TypesNext DEF TypeInv
<1>3. CASE CompactRemove(s)
  <2>1. /\ UNCHANGED <<data, mem, mode, commits, crashes, buffer, todo, uncommitted>>
        /\ UNCHANGED <<pos, commands, pending, is_error>>
        /\ file' = <<>> /\ flushed' = 0 /\ sequence' = 0 /\ llock' = None
        /\ mode = "up" /\ pc[s] = "remove" /\ Returns(s)
    BY <1>3 DEF CompactRemove, recoverVars
  <2>2. <<>> \in Seq(Records) /\ Len(<<>>) = 0
    OBVIOUS
  <2> QED
    BY <2>1, <2>2, ReturnsType, Types, TypesNext DEF TypeInv
<1> QED
  BY <1>1, <1>2, <1>3

(* What survives a crash is a prefix.                                      *)
LEMMA Prefix ==
    ASSUME NEW f \in Seq(Records), NEW n \in 0..Len(f)
    PROVE  /\ SubSeq(f, 1, n) \in Seq(Records) /\ Len(SubSeq(f, 1, n)) = n
           /\ \A i \in 1..n : SubSeq(f, 1, n)[i] = f[i]
<1>1. Len(f) \in Nat /\ \A i \in 1..n : f[i] \in Records
  BY LenProperties, ElementOfSeq
<1>2. 1 \in Int /\ n \in Int /\ n \in Nat
  BY <1>1
<1>3. /\ SubSeq(f, 1, n) \in Seq(Records)
      /\ Len(SubSeq(f, 1, n)) = IF 1 <= n THEN n - 1 + 1 ELSE 0
      /\ \A i \in 1..(n - 1 + 1) : SubSeq(f, 1, n)[i] = f[1 + i - 1]
  BY <1>1, <1>2, SubSeqProperties
<1> QED
  BY <1>2, <1>3

LEMMA CrashType ==
    ASSUME TypeInv, NEW n \in Nat, Crash(n)
    PROVE  TypeInv'
<1>1. /\ n \in 0..Len(file) /\ file' = SubSeq(file, 1, n) /\ flushed' = n
      /\ buffer' = <<>> /\ sequence' = 0 /\ mem' = data
      /\ pc' = [s \in Storages |-> "idle"] /\ todo' = [s \in Storages |-> {}]
      /\ llock' = None /\ uncommitted' = {} /\ mode' = "read"
      /\ pos' = 0 /\ commands' = <<>> /\ is_error' = FALSE
      /\ pending' = [s \in Storages |-> Empty]
      /\ crashes' = crashes + 1
      /\ UNCHANGED <<data, acked, tx, commits>>
  BY Types, LenProperties DEF Crash, TypeInv
<1>2. file' \in Seq(Records) /\ Len(file') = n
  BY <1>1, Prefix DEF TypeInv
<1>3. <<>> \in Seq(Records) /\ DOMAIN <<>> = {} /\ pending' \in [Storages -> Contents]
  BY <1>1, EmptyContents
<1>4. crashes' \in Nat /\ flushed' \in 0..Len(file')
  BY <1>1, <1>2, Types DEF TypeInv
<1>5. /\ pc' \in [Storages -> {"idle", "journal", "synch", "compact", "remove"}]
      /\ todo' \in [Storages -> SUBSET Addr]
      /\ \A s \in Storages : todo'[s] = {}
  BY <1>1
<1> QED
  BY <1>1, <1>2, <1>3, <1>4, <1>5, Types, TypesNext DEF TypeInv

LEMMA RecoverRecordType ==
    ASSUME TypeInv, RecoverRecord
    PROVE  TypeInv'
<1>1. /\ UNCHANGED <<data, mem, acked, mode, commits, crashes>>
      /\ UNCHANGED <<file, flushed, buffer, sequence, pc, tx, todo, llock, uncommitted>>
  BY DEF RecoverRecord, logVars, threadVars
<1>2. /\ pos' \in Nat /\ is_error' \in BOOLEAN
      /\ commands' \in Seq(Records) /\ pending' \in [Storages -> Contents]
      /\ \A i \in DOMAIN commands' : commands'[i].command = "page"
  <2>1. CASE BadSequence
    BY <2>1, Types DEF TypeInv, RecoverRecord
  <2>2. CASE ~BadSequence /\ file[pos + 1].command = "page"
    <3>1. /\ pos' = pos + 1 /\ commands' = Append(commands, file[pos + 1])
          /\ UNCHANGED <<pending, is_error>> /\ pos < Len(file)
      BY <2>2 DEF RecoverRecord
    <3>2. file[pos + 1] \in Records
      BY <3>1, Types, LenProperties, ElementOfSeq DEF TypeInv
    <3>3. /\ commands' \in Seq(Records) /\ Len(commands') = Len(commands) + 1
          /\ Len(commands) \in Nat
          /\ \A i \in 1..Len(commands) : commands'[i] = commands[i]
          /\ commands'[Len(commands) + 1] = file[pos + 1]
      BY <3>1, <3>2, AppendProperties, LenProperties DEF TypeInv
    <3>4. \A i \in DOMAIN commands' : commands'[i].command = "page"
      BY <2>2, <3>3, LenProperties DEF TypeInv
    <3> QED
      BY <3>1, <3>3, <3>4, Types DEF TypeInv
  <2>3. CASE ~BadSequence /\ file[pos + 1].command # "page"
    <3>1. /\ pos' = pos + 1 /\ commands' = <<>> /\ UNCHANGED is_error
          /\ pending' = [s \in Storages |-> Overlay(pending[s], LastPages(commands, s))]
      BY <2>3 DEF RecoverRecord
    <3>2. \A s \in Storages : Overlay(pending[s], LastPages(commands, s)) \in Contents
      BY LastPagesType, OverlayType, Types DEF TypeInv
    <3>3. <<>> \in Seq(Records) /\ DOMAIN <<>> = {}
      OBVIOUS
    <3> QED
      BY <3>1, <3>2, <3>3, Types DEF TypeInv
  <2> QED
    BY <2>1, <2>2, <2>3
<1> QED
  BY <1>1, <1>2, Types, TypesNext DEF TypeInv

LEMMA RecoverEndType ==
    ASSUME TypeInv, NEW s,
           \/ RecoverEndOfFile
           \/ s \in Storages /\ RecoverCommit(s)
           \/ RecoverDone
           \/ UNCHANGED vars
    PROVE  TypeInv'
<1>1. CASE RecoverEndOfFile \/ UNCHANGED vars
  <2>1. /\ UNCHANGED <<data, mem, acked, commits, crashes, pos, commands, pending, is_error>>
        /\ UNCHANGED <<file, flushed, buffer, sequence, pc, tx, todo, llock, uncommitted>>
        /\ mode' \in {"up", "read", "finish"}
        /\ mode' # "up" => mode # "up"
    BY <1>1, Types DEF RecoverEndOfFile, logVars, threadVars, recoverVars, vars, TypeInv
  <2> QED
    BY <2>1, Types, TypesNext DEF TypeInv
<1>2. CASE s \in Storages /\ RecoverCommit(s)
  <2>1. /\ UNCHANGED <<mem, acked, mode, commits, crashes, pos, commands, is_error>>
        /\ UNCHANGED <<file, flushed, buffer, sequence, pc, tx, todo, llock, uncommitted>>
        /\ data' = IF is_error THEN data
                   ELSE [data EXCEPT ![s] = Overlay(data[s], pending[s])]
        /\ pending' = [pending EXCEPT ![s] = Empty]
    BY <1>2 DEF RecoverCommit, logVars, threadVars
  <2>2. Overlay(data[s], pending[s]) \in Contents
    BY <1>2, OverlayType, Types DEF TypeInv
  <2>3. data' \in [Storages -> Contents] /\ pending' \in [Storages -> Contents]
    BY <2>1, <2>2, EmptyContents, Types DEF TypeInv
  <2> QED
    BY <2>1, <2>3, Types, TypesNext DEF TypeInv
<1>3. CASE RecoverDone
  <2>1. /\ UNCHANGED <<data, commits, crashes, buffer, pc, todo, llock, uncommitted>>
        /\ UNCHANGED <<pending, is_error>>
        /\ mode' = "up" /\ file' = <<>> /\ flushed' = 0 /\ sequence' = 0
        /\ mem' = data /\ acked' = data /\ tx' = [r \in Storages |-> Empty]
        /\ pos' = 0 /\ commands' = <<>>
    BY <1>3 DEF RecoverDone
  <2>2. <<>> \in Seq(Records) /\ DOMAIN <<>> = {} /\ Len(<<>>) = 0
    OBVIOUS
  <2>3. tx' \in [Storages -> Contents]
    BY <2>1, EmptyContents
  <2>4. \A r \in Storages : todo[r] = {}
    BY <1>3 DEF TypeInv, RecoverDone
  <2> QED
    BY <2>1, <2>2, <2>3, <2>4, Types, TypesNext DEF TypeInv
<1> QED
  BY <1>1, <1>2, <1>3

LEMMA NextType == TypeInv /\ [Next]_vars => TypeInv'
<1> SUFFICES ASSUME TypeInv, [Next]_vars PROVE TypeInv'
  OBVIOUS
<1>1. ASSUME NEW s \in Storages, NEW p \in Contents \ {Empty}, CommitCalled(s, p)
      PROVE  TypeInv'
  BY <1>1, CommitCalledType
<1>2. ASSUME NEW s \in Storages, ThreadStep(s) PROVE TypeInv'
  BY <1>2, JournalPageType, MergeType, SynchType, CompactType DEF ThreadStep
<1>3. ASSUME NEW n \in 0..Len(file), Crash(n) PROVE TypeInv'
  <2>1. n \in Nat
    BY <1>3, LenProperties DEF TypeInv
  <2> QED
    BY <1>3, <2>1, CrashType
<1>4. CASE RecoverRecord
  BY <1>4, RecoverRecordType
<1>5. CASE \/ RecoverEndOfFile
           \/ \E s \in Storages : RecoverCommit(s)
           \/ RecoverDone
           \/ UNCHANGED vars
  BY <1>5, RecoverEndType
<1> QED
  BY <1>1, <1>2, <1>3, <1>4, <1>5 DEF Next, Recover

(* The journal, the recovery and the committing threads keep to their      *)
(* types, whatever interleaves: what is flushed never exceeds what was     *)
(* written, and every record of the journal is a page of a storage or a    *)
(* commit record.                                                          *)
THEOREM JournalTypeCorrect == Spec => []TypeOK
<1>1. Init => TypeInv
  BY InitType
<1>2. TypeInv /\ [Next]_vars => TypeInv'
  BY NextType
<1>3. TypeInv => TypeOK
  BY DEF TypeInv
<1> QED
  BY <1>1, <1>2, <1>3, PTL DEF Spec

-----------------------------------------------------------------------------
(* What a journal f says: the commit records among its first p records, the*)
(* position of the last, the pages of storage s at address a among its     *)
(* first u records, and the image of s they make.                          *)
Marks(f, p) == {i \in 1..p : f[i].command = "commit"}

LastMark(f, p) == IF Marks(f, p) = {} THEN 0 ELSE Max(Marks(f, p))

PagesOf(f, u, s, a) ==
    {i \in 1..u : f[i].command = "page" /\ f[i].name = s /\ f[i].address = a}

Image(f, u, s) ==
    [a \in Addr |-> IF PagesOf(f, u, s, a) = {} THEN NoVal
                    ELSE f[Max(PagesOf(f, u, s, a))].val]

(* The first p records of f have consecutive numbers.                      *)
InOrder(f, p) == \A i \in 2..p : f[i].seq = f[i - 1].seq + 1

(* The pages of s that recovery applies.                                   *)
Durable(s) == Image(file, LastMark(file, Len(file)), s)

(* A version of MaxUnique for positions.                                   *)
LEMMA LastMarkIs ==
    ASSUME NEW f, NEW p \in Nat, NEW m \in 0..p,
           m # 0 => f[m].command = "commit",
           \A i \in (m + 1)..p : f[i].command # "commit"
    PROVE  LastMark(f, p) = m
<1>1. CASE m = 0
  <2>1. Marks(f, p) = {}
    BY <1>1 DEF Marks
  <2> QED
    BY <1>1, <2>1 DEF LastMark
<1>2. CASE m # 0
  <2>1. m \in Marks(f, p) /\ Marks(f, p) \in SUBSET Int
    BY <1>2 DEF Marks
  <2>2. \A y \in Marks(f, p) : y <= m
    BY DEF Marks
  <2>3. Max(Marks(f, p)) = m
    BY <2>1, <2>2, MaxUnique
  <2> QED
    BY <2>1, <2>3 DEF LastMark
<1> QED
  BY <1>1, <1>2

LEMMA LastMarkProperties ==
    ASSUME NEW f, NEW p \in Nat
    PROVE  /\ LastMark(f, p) \in 0..p
           /\ LastMark(f, p) # 0 => f[LastMark(f, p)].command = "commit"
           /\ \A i \in (LastMark(f, p) + 1)..p : f[i].command # "commit"
<1> DEFINE M == Marks(f, p)
<1>1. M \in SUBSET (1..p)
  BY DEF Marks
<1>2. CASE M = {}
  BY <1>2 DEF LastMark, Marks
<1>3. CASE M # {}
  <2>1. Max(M) \in M /\ \A y \in M : y <= Max(M)
    <3> HIDE DEF M
    <3> QED
      BY <1>1, <1>3, MaxIsLast
  <2>2. LastMark(f, p) = Max(M)
    BY <1>3 DEF LastMark
  <2>3. Max(M) \in 1..p /\ f[Max(M)].command = "commit"
    BY <2>1 DEF Marks
  <2>4. \A i \in (Max(M) + 1)..p : f[i].command # "commit"
    <3> SUFFICES ASSUME NEW i \in (Max(M) + 1)..p, f[i].command = "commit" PROVE FALSE
      OBVIOUS
    <3>1. i \in 1..p
      BY <2>3
    <3>2. i \in M
      BY <3>1 DEF Marks
    <3> HIDE DEF M
    <3> QED
      BY <2>1, <2>3, <3>1, <3>2
  <2> HIDE DEF M
  <2> QED
    BY <2>2, <2>3, <2>4
<1> QED
  BY <1>2, <1>3

(* One more record.                                                        *)
LEMMA LastMarkStep ==
    ASSUME NEW f, NEW p \in Nat
    PROVE  LastMark(f, p + 1) =
               IF f[p + 1].command = "commit" THEN p + 1 ELSE LastMark(f, p)
<1>0. p + 1 \in Nat
  OBVIOUS
<1> DEFINE m == LastMark(f, p)
<1>1. /\ m \in 0..p /\ (m # 0 => f[m].command = "commit")
      /\ \A i \in (m + 1)..p : f[i].command # "commit"
  BY LastMarkProperties
<1> HIDE DEF m
<1>2. CASE f[p + 1].command = "commit"
  <2>1. p + 1 \in 0..(p + 1) /\ \A i \in (p + 1 + 1)..(p + 1) : f[i].command # "commit"
    OBVIOUS
  <2> QED
    BY <1>0, <1>2, <2>1, LastMarkIs
<1>3. CASE f[p + 1].command # "commit"
  <2>1. m \in 0..(p + 1) /\ \A i \in (m + 1)..(p + 1) : f[i].command # "commit"
    <3> SUFFICES ASSUME NEW i \in (m + 1)..(p + 1) PROVE f[i].command # "commit"
      BY <1>1
    <3>1. i = p + 1 \/ i \in (m + 1)..p
      BY <1>1
    <3> QED
      BY <1>1, <1>3, <3>1
  <2>2. LastMark(f, p + 1) = m
    BY <1>0, <1>1, <2>1, LastMarkIs
  <2> QED
    BY <1>3, <2>2 DEF m
<1> QED
  BY <1>2, <1>3

(* The last mark of two journals that agree up to there.                   *)
LEMMA LastMarkAgrees ==
    ASSUME NEW f, NEW g, NEW p \in Nat, NEW q \in Nat, LastMark(f, p) <= q,
           \A i \in 1..LastMark(f, p) : g[i] = f[i],
           \A i \in (LastMark(f, p) + 1)..q : g[i].command # "commit"
    PROVE  LastMark(g, q) = LastMark(f, p)
<1> DEFINE m == LastMark(f, p)
<1>1. m \in 0..p /\ (m # 0 => f[m].command = "commit")
  BY LastMarkProperties
<1>2. m \in 0..q /\ (m # 0 => g[m].command = "commit")
  BY <1>1
<1> HIDE DEF m
<1>3. m <= q /\ \A i \in (m + 1)..q : g[i].command # "commit"
  BY DEF m
<1>4. LastMark(g, q) = m
  BY <1>2, <1>3, LastMarkIs
<1> QED
  BY <1>4 DEF m

(* Images are contents, and leave out what has no page.                    *)
LEMMA ImageAt ==
    ASSUME NEW f \in Seq(Records), NEW u \in 0..Len(f), NEW s, NEW a \in Addr
    PROVE  IF PagesOf(f, u, s, a) = {} THEN Image(f, u, s)[a] = NoVal
           ELSE /\ Max(PagesOf(f, u, s, a)) \in PagesOf(f, u, s, a)
                /\ \A i \in PagesOf(f, u, s, a) : i <= Max(PagesOf(f, u, s, a))
                /\ Image(f, u, s)[a] = f[Max(PagesOf(f, u, s, a))].val
                /\ Image(f, u, s)[a] \in Val
<1> DEFINE P == PagesOf(f, u, s, a)
<1>1. CASE P = {}
  BY <1>1 DEF Image
<1>2. CASE P # {}
  <2>1. u \in Nat /\ Len(f) \in Nat /\ P \in SUBSET (1..u)
    BY LenProperties DEF PagesOf
  <2>2. Max(P) \in P /\ \A i \in P : i <= Max(P)
    <3> HIDE DEF P
    <3> QED
      BY <1>2, <2>1, MaxIsLast
  <2>3. Image(f, u, s)[a] = f[Max(P)].val
    BY <1>2 DEF Image
  <2>4. Max(P) \in 1..Len(f) /\ f[Max(P)].command = "page"
    BY <2>1, <2>2 DEF PagesOf
  <2>5. f[Max(P)].val \in Val
    BY <2>4, ElementOfSeq, RecordFields
  <2> QED
    BY <1>2, <2>2, <2>3, <2>5
<1> QED
  BY <1>1, <1>2

LEMMA ImageType ==
    ASSUME NEW f \in Seq(Records), NEW u \in 0..Len(f), NEW s
    PROVE  Image(f, u, s) \in Contents
<1>1. \A a \in Addr : Image(f, u, s)[a] \in Val \cup {NoVal}
  BY ImageAt
<1> QED
  BY <1>1 DEF Image, Contents

LEMMA ImageAgrees ==
    ASSUME NEW f, NEW g, NEW u \in Nat, NEW s, \A i \in 1..u : g[i] = f[i]
    PROVE  Image(g, u, s) = Image(f, u, s)
<1>1. ASSUME NEW a \in Addr
      PROVE  /\ PagesOf(g, u, s, a) = PagesOf(f, u, s, a)
             /\ PagesOf(f, u, s, a) # {} =>
                   g[Max(PagesOf(f, u, s, a))] = f[Max(PagesOf(f, u, s, a))]
  <2> DEFINE P == PagesOf(f, u, s, a)
  <2>1. PagesOf(g, u, s, a) = P /\ P \in SUBSET (1..u)
    BY DEF PagesOf
  <2> HIDE DEF P
  <2>2. P # {} => Max(P) \in 1..u
    BY <2>1, MaxIsLast
  <2>3. P # {} => g[Max(P)] = f[Max(P)]
    BY <2>2
  <2> QED
    BY <2>1, <2>3 DEF P
<1> QED
  BY <1>1 DEF Image

(* What recovery makes of a journal is an image over the data file.        *)
LEMMA ReplayedIs ==
    ASSUME NEW f \in Seq(Records), NEW s, NEW c \in Contents
    PROVE  Replayed(f, s, c) =
             IF Readable(f) THEN Overlay(c, Image(f, LastMark(f, Len(f)), s)) ELSE c
<1> DEFINE marks == {i \in DOMAIN f : f[i].command = "commit"}
           m == LastMark(f, Len(f))
           upto == IF marks = {} THEN 0 ELSE Max(marks)
           pages(a) == {i \in 1..upto : /\ f[i].command = "page"
                                        /\ f[i].name = s /\ f[i].address = a}
<1>1. Len(f) \in Nat /\ marks = Marks(f, Len(f))
  BY LenProperties DEF Marks
<1>2. upto = m
  BY <1>1 DEF LastMark
<1>3. m \in 0..Len(f)
  BY <1>1, LastMarkProperties
<1>4. \A a : pages(a) = PagesOf(f, m, s, a)
  BY <1>2 DEF PagesOf
<1>5. Replayed(f, s, c) = [a \in Addr |-> IF ~Readable(f) \/ pages(a) = {} THEN c[a]
                                          ELSE f[Max(pages(a))].val]
  BY DEF Replayed
<1> HIDE DEF m, upto, pages, marks
<1>6. CASE ~Readable(f)
  <2>1. Replayed(f, s, c) = [a \in Addr |-> c[a]]
    BY <1>5, <1>6
  <2> QED
    BY <1>6, <2>1 DEF Contents
<1>7. CASE Readable(f)
  <2>1. \A a \in Addr :
           (IF pages(a) = {} THEN c[a] ELSE f[Max(pages(a))].val)
             = IF Image(f, m, s)[a] # NoVal THEN Image(f, m, s)[a] ELSE c[a]
    BY <1>3, <1>4, ImageAt, JournalAssumption
  <2>2. Replayed(f, s, c) = [a \in Addr |-> IF pages(a) = {} THEN c[a]
                                           ELSE f[Max(pages(a))].val]
    BY <1>5, <1>7
  <2>3. Replayed(f, s, c) = Overlay(c, Image(f, m, s))
    BY <2>1, <2>2 DEF Overlay
  <2> QED
    BY <1>7, <2>3 DEF m
<1> QED
  BY <1>6, <1>7

(* cs are the records of f after m up to p, all of them pages.             *)
PagesAfter(cs, f, m, p) ==
    /\ m \in Nat /\ p \in Nat /\ m <= p /\ Len(cs) = p - m
    /\ \A i \in 1..Len(cs) : cs[i] = f[m + i] /\ cs[i].command = "page"

(* Reading a commit record: the pages since the one before it go on top.   *)
LEMMA ImageStep ==
    ASSUME NEW f \in Seq(Records), NEW cs \in Seq(Records), NEW s,
           NEW m, NEW p, PagesAfter(cs, f, m, p),
           NEW q, q = p + 1, q <= Len(f), f[q].command # "page"
    PROVE  Image(f, q, s) = Overlay(Image(f, m, s), LastPages(cs, s))
<1> USE DEF PagesAfter
<1>0. Len(f) \in Nat /\ DOMAIN cs = 1..Len(cs) /\ q \in 0..Len(f) /\ m \in 0..Len(f)
  BY LenProperties
<1> SUFFICES ASSUME NEW a \in Addr
             PROVE  Image(f, q, s)[a] =
                      IF LastPages(cs, s)[a] # NoVal THEN LastPages(cs, s)[a]
                                                     ELSE Image(f, m, s)[a]
  BY DEF Image, Overlay
<1> DEFINE I == {i \in DOMAIN cs : cs[i].name = s /\ cs[i].address = a}
           P == PagesOf(f, q, s, a)
           Q == PagesOf(f, m, s, a)
<1>1. LastPages(cs, s)[a] = IF I = {} THEN NoVal ELSE cs[Max(I)].val
  BY DEF LastPages
<1>2. CASE I = {}
  <2>1. P = Q
    <3>1. ASSUME NEW y \in P PROVE y \in Q
      <4>1. y \in 1..q /\ y # q
        BY <3>1 DEF PagesOf
      <4>2. ASSUME y > m PROVE FALSE
        <5>1. y - m \in 1..Len(cs)
          BY <4>1, <4>2
        <5>2. cs[y - m] = f[y]
          BY <4>1, <5>1
        <5>3. y - m \in I
          BY <1>0, <3>1, <5>1, <5>2 DEF PagesOf
        <5> QED
          BY <1>2, <5>3
      <4>3. y \in 1..m
        BY <4>1, <4>2
      <4> QED
        BY <3>1, <4>3 DEF PagesOf
    <3>2. Q \subseteq P
      BY DEF PagesOf
    <3> QED
      BY <3>1, <3>2
  <2> QED
    BY <1>1, <1>2, <2>1 DEF Image
<1>3. CASE I # {}
  <2> DEFINE j == Max(I)
  <2>1. j \in I /\ \A i \in I : i <= j
    <3>1. Len(cs) \in Nat /\ I \in SUBSET (1..Len(cs))
      BY <1>0
    <3> HIDE DEF I
    <3> QED
      BY <1>3, <3>1, MaxIsLast
  <2> HIDE DEF j
  <2>2. /\ j \in 1..Len(cs) /\ cs[j] = f[m + j] /\ m + j \in 1..q
        /\ cs[j].command = "page" /\ cs[j].name = s /\ cs[j].address = a
    BY <1>0, <2>1
  <2>3. m + j \in P
    BY <2>2 DEF PagesOf
  <2>4. ASSUME NEW y \in P PROVE y <= m + j
    <3>1. y \in 1..q /\ y # q
      BY <2>4 DEF PagesOf
    <3>2. CASE y > m
      <4>1. y - m \in 1..Len(cs)
        BY <3>1, <3>2
      <4>2. cs[y - m] = f[y]
        BY <3>1, <4>1
      <4>3. y - m \in I
        BY <1>0, <2>4, <4>1, <4>2 DEF PagesOf
      <4> QED
        BY <2>1, <2>2, <3>1, <4>3
    <3> QED
      BY <2>2, <3>1, <3>2
  <2>5. P \in SUBSET Int
    BY DEF PagesOf
  <2>6. Max(P) = m + j
    <3> HIDE DEF P
    <3> QED
      BY <2>3, <2>4, <2>5, MaxUnique
  <2>7. Image(f, q, s)[a] = cs[j].val
    BY <2>2, <2>3, <2>6 DEF Image
  <2>8. cs[j].val \in Val
    BY <2>2, ElementOfSeq, RecordFields
  <2> QED
    BY <1>1, <1>3, <2>7, <2>8, JournalAssumption DEF j
<1> QED
  BY <1>2, <1>3

-----------------------------------------------------------------------------
(* The invariant of recovery, for any number of storages: everything is    *)
(* flushed; while the journal is read, commands is what follows the last   *)
(* commit record read and pending the image up to it; at the end each      *)
(* storage's pages are still pending or are in its data file.              *)
Reading ==
    /\ InOrder(file, pos)
    /\ \A s \in Storages : pending[s] = Image(file, LastMark(file, pos), s)
    /\ Len(commands) = pos - LastMark(file, pos)
    /\ \A i \in 1..Len(commands) : commands[i] = file[LastMark(file, pos) + i]

Finishing ==
    /\ Readable(file)
    /\ \A s \in Storages :
          \/ pending[s] = Durable(s)
          \/ pending[s] = Empty /\ Overlay(data[s], Durable(s)) = data[s]

RecoveryInv ==
    mode # "up" =>
        /\ flushed = Len(file) /\ buffer = <<>> /\ pos <= Len(file)
        /\ is_error => ~Readable(file)
        /\ mode = "read" /\ ~is_error => Reading
        /\ mode = "finish" /\ ~is_error => Finishing

RecInv == TypeInv /\ RecoveryInv

(* The pages of s that recovery applies are contents.                      *)
LEMMA DurableType ==
    ASSUME TypeInv, NEW s
    PROVE  Durable(s) \in Contents
<1>1. file \in Seq(Records) /\ Len(file) \in Nat
  BY LenProperties DEF TypeInv
<1>2. LastMark(file, Len(file)) \in 0..Len(file)
  BY <1>1, LastMarkProperties
<1> QED
  BY <1>1, <1>2, ImageType DEF Durable

LEMMA InitRecovery == Init => RecoveryInv
BY DEF Init, RecoveryInv

(* A thread commits only while the storages are open.                      *)
LEMMA UpRecovery ==
    ASSUME NEW s, NEW p, CommitCalled(s, p) \/ ThreadStep(s)
    PROVE  mode = "up" /\ mode' = "up"
BY DEF CommitCalled, ThreadStep, JournalPage, Merge, MergeThrows, Synch,
       JournalCommit, CompactFlush, CompactRemove

LEMMA CrashRecovery ==
    ASSUME RecInv, NEW n \in Nat, Crash(n)
    PROVE  RecoveryInv'
<1>1. /\ n \in 0..Len(file) /\ file' = SubSeq(file, 1, n) /\ flushed' = n
      /\ buffer' = <<>> /\ mode' = "read"
      /\ pos' = 0 /\ commands' = <<>> /\ is_error' = FALSE
      /\ pending' = [s \in Storages |-> Empty]
  BY Types, LenProperties DEF Crash, RecInv, TypeInv
<1>2. Len(file') = n
  BY <1>1, Prefix DEF RecInv, TypeInv
<1>3. LastMark(file', 0) = 0
  <2>1. Marks(file', 0) = {}
    BY DEF Marks
  <2> QED
    BY <2>1 DEF LastMark
<1>4. \A s : Image(file', 0, s) = Empty
  <2>1. \A s, a : PagesOf(file', 0, s, a) = {}
    BY DEF PagesOf
  <2> QED
    BY <2>1 DEF Image, Empty
<1>5. Reading'
  BY <1>1, <1>3, <1>4 DEF Reading, InOrder
<1> QED
  BY <1>1, <1>2, <1>5 DEF RecoveryInv

LEMMA RecordRecovery ==
    ASSUME RecInv, RecoverRecord
    PROVE  RecoveryInv'
<1> USE DEF RecInv
<1>1. /\ mode = "read" /\ pos < Len(file) /\ ~is_error /\ pos \in Nat
      /\ UNCHANGED <<file, flushed, buffer, mode>>
      /\ file \in Seq(Records) /\ Len(file) \in Nat
      /\ flushed = Len(file) /\ buffer = <<>> /\ Reading
      /\ commands \in Seq(Records) /\ DOMAIN commands = 1..Len(commands)
      /\ \A i \in DOMAIN commands : commands[i].command = "page"
  BY Types, LenProperties DEF RecoverRecord, logVars, RecoveryInv, TypeInv
<1> DEFINE m == LastMark(file, pos)
           r == file[pos + 1]
<1>2. /\ InOrder(file, pos)
      /\ \A s \in Storages : pending[s] = Image(file, m, s)
      /\ Len(commands) = pos - m /\ m \in 0..pos
      /\ \A i \in 1..Len(commands) : commands[i] = file[m + i]
  BY <1>1, LastMarkProperties DEF Reading
<1>3. CASE BadSequence
  <2>1. is_error' = TRUE /\ pos' = pos
    BY <1>3 DEF RecoverRecord
  <2>2. ~Readable(file)
    BY <1>1, <1>3 DEF BadSequence, Readable
  <2>3. ~Readable(file)'
    BY <1>1, <2>2 DEF Readable
  <2> QED
    BY <1>1, <2>1, <2>3 DEF RecoveryInv
<1>4. CASE ~BadSequence
  <2>1. pos' = pos + 1 /\ is_error' = FALSE
    BY <1>1, <1>4 DEF RecoverRecord
  <2>2. InOrder(file, pos + 1)
    <3> SUFFICES ASSUME NEW i \in 2..(pos + 1) PROVE file[i].seq = file[i - 1].seq + 1
      BY DEF InOrder
    <3>1. CASE i = pos + 1
      <4>1. pos > 0 /\ i - 1 = pos
        BY <1>1, <3>1
      <4> QED
        BY <1>4, <3>1, <4>1 DEF BadSequence
    <3>2. CASE i # pos + 1
      BY <1>1, <1>2, <3>2 DEF InOrder
    <3> QED
      BY <3>1, <3>2
  <2>3. r \in Records
    BY <1>1, ElementOfSeq
  <2>4. LastMark(file, pos + 1) = IF r.command = "commit" THEN pos + 1 ELSE m
    BY <1>1, LastMarkStep
  <2>5. CASE r.command = "page"
    <3>1. commands' = Append(commands, r) /\ pending' = pending
      BY <1>4, <2>5 DEF RecoverRecord
    <3>2. /\ Len(commands') = Len(commands) + 1
          /\ \A i \in 1..Len(commands) : commands'[i] = commands[i]
          /\ commands'[Len(commands) + 1] = r
      BY <1>1, <2>3, <3>1, AppendProperties
    <3>3. LastMark(file, pos + 1) = m
      BY <2>4, <2>5
    <3>4. Len(commands') = pos + 1 - m
      BY <1>1, <1>2, <3>2
    <3>5. ASSUME NEW i \in 1..Len(commands') PROVE commands'[i] = file[m + i]
      <4>1. CASE i \in 1..Len(commands)
        BY <1>2, <3>2, <4>1
      <4>2. CASE i = Len(commands) + 1
        <5>1. m + i = pos + 1
          BY <1>1, <1>2, <4>2
        <5> QED
          BY <3>2, <4>2, <5>1
      <4> QED
        BY <1>1, <1>2, <3>2, <4>1, <4>2
    <3> HIDE DEF m
    <3>6. Reading'
      BY <1>1, <1>2, <2>1, <2>2, <3>1, <3>3, <3>4, <3>5 DEF Reading, InOrder
    <3> QED
      BY <1>1, <2>1, <3>6 DEF RecoveryInv
  <2>6. CASE r.command = "commit"
    <3>1. /\ commands' = <<>>
          /\ pending' = [s \in Storages |-> Overlay(pending[s], LastPages(commands, s))]
      BY <1>4, <2>6 DEF RecoverRecord
    <3>2. LastMark(file, pos + 1) = pos + 1
      BY <2>4, <2>6
    <3>3. ASSUME NEW s \in Storages PROVE pending'[s] = Image(file, pos + 1, s)
      <4>1. /\ m \in Nat /\ m <= pos /\ pos + 1 <= Len(file)
            /\ r.command # "page" /\ pos \in Nat
            /\ \A i \in 1..Len(commands) : commands[i].command = "page"
        BY <1>1, <1>2, <2>6
      <4> DEFINE q == pos + 1
      <4>2. q = pos + 1 /\ q <= Len(file) /\ file[q].command # "page"
        BY <4>1
      <4>3. PagesAfter(commands, file, m, pos)
        BY <1>1, <1>2, <4>1 DEF PagesAfter
      <4> HIDE DEF q, m
      <4>4. Image(file, q, s) = Overlay(Image(file, m, s), LastPages(commands, s))
        BY <1>1, <4>2, <4>3, ImageStep
      <4> QED
        BY <1>2, <3>1, <4>2, <4>4
    <3>4. Reading'
      BY <1>1, <2>1, <2>2, <3>1, <3>2, <3>3 DEF Reading, InOrder
    <3> QED
      BY <1>1, <2>1, <3>4 DEF RecoveryInv
  <2> QED
    BY <2>3, <2>5, <2>6, RecordFields
<1> QED
  BY <1>3, <1>4

LEMMA EndRecovery ==
    ASSUME RecInv, RecoverEndOfFile
    PROVE  RecoveryInv'
<1> USE DEF RecInv
<1>1. /\ mode = "read" /\ mode' = "finish" /\ (pos = Len(file) \/ is_error)
      /\ UNCHANGED <<file, flushed, buffer, data, pos, pending, is_error>>
  BY DEF RecoverEndOfFile, logVars, recoverVars
<1>2. /\ flushed = Len(file) /\ buffer = <<>> /\ pos <= Len(file)
      /\ is_error => ~Readable(file)
      /\ ~is_error => Reading
  BY <1>1 DEF RecoveryInv
<1>3. ~is_error => Finishing'
  <2> SUFFICES ASSUME ~is_error PROVE Finishing'
    OBVIOUS
  <2>1. Readable(file) /\ \A s \in Storages : pending[s] = Durable(s)
    BY <1>1, <1>2 DEF Reading, InOrder, Readable, Durable
  <2> QED
    BY <1>1, <2>1 DEF Finishing, Readable, Durable
<1>4. is_error => ~Readable(file)'
  BY <1>1, <1>2 DEF Readable
<1> QED
  BY <1>1, <1>2, <1>3, <1>4 DEF RecoveryInv

(* What is laid over contents twice is as if laid over once.               *)
LEMMA OverlayTwice ==
    ASSUME NEW c, NEW p
    PROVE  Overlay(Overlay(c, p), p) = Overlay(c, p)
BY DEF Overlay

LEMMA OverlayEmpty ==
    ASSUME NEW c \in Contents
    PROVE  Overlay(c, Empty) = c
BY DEF Overlay, Empty, Contents

LEMMA CommitRecovery ==
    ASSUME RecInv, NEW s \in Storages, RecoverCommit(s)
    PROVE  RecoveryInv'
<1> USE DEF RecInv
<1>1. /\ mode = "finish"
      /\ UNCHANGED <<mode, file, flushed, buffer, pos, is_error>>
      /\ data' = IF is_error THEN data
                 ELSE [data EXCEPT ![s] = Overlay(data[s], pending[s])]
      /\ pending' = [pending EXCEPT ![s] = Empty]
  BY DEF RecoverCommit, logVars
<1>2. /\ flushed = Len(file) /\ buffer = <<>> /\ pos <= Len(file)
      /\ is_error => ~Readable(file)
      /\ ~is_error => Finishing
  BY <1>1 DEF RecoveryInv
<1>3. ASSUME ~is_error PROVE Finishing'
  <2>1. /\ Readable(file)
        /\ \A r \in Storages : \/ pending[r] = Durable(r)
                               \/ /\ pending[r] = Empty
                                  /\ Overlay(data[r], Durable(r)) = data[r]
    BY <1>2, <1>3 DEF Finishing
  <2>2. Readable(file)' /\ \A r : Durable(r)' = Durable(r)
    BY <1>1, <2>1 DEF Readable, Durable
  <2>3. pending'[s] = Empty /\ data'[s] = Overlay(data[s], pending[s])
    BY <1>1, <1>3, Types DEF TypeInv
  <2>4. Overlay(data'[s], Durable(s)) = data'[s]
    <3>1. CASE pending[s] = Durable(s)
      BY <2>3, <3>1, OverlayTwice
    <3>2. CASE pending[s] = Empty /\ Overlay(data[s], Durable(s)) = data[s]
      <4>1. data'[s] = data[s]
        BY <2>3, <3>2, OverlayEmpty, Types DEF TypeInv
      <4> QED
        BY <3>2, <4>1
    <3> QED
      BY <2>1, <3>1, <3>2
  <2>5. \A r \in Storages : r # s => pending'[r] = pending[r] /\ data'[r] = data[r]
    BY <1>1, Types DEF TypeInv
  <2>6. \A r \in Storages : \/ pending'[r] = Durable(r)'
                           \/ /\ pending'[r] = Empty
                              /\ Overlay(data'[r], Durable(r)') = data'[r]
    BY <2>1, <2>2, <2>3, <2>4, <2>5
  <2> QED
    BY <2>2, <2>6 DEF Finishing, Empty, Overlay
<1>4. is_error => ~Readable(file)'
  BY <1>1, <1>2 DEF Readable
<1> QED
  BY <1>1, <1>2, <1>3, <1>4 DEF RecoveryInv

LEMMA NextRecovery == RecInv /\ [Next]_vars => RecInv'
<1> SUFFICES ASSUME RecInv, [Next]_vars PROVE RecoveryInv'
  BY NextType DEF RecInv
<1>1. ASSUME NEW s, NEW p, CommitCalled(s, p) \/ ThreadStep(s) PROVE RecoveryInv'
  BY <1>1, UpRecovery DEF RecoveryInv
<1>2. ASSUME NEW n \in 0..Len(file), Crash(n) PROVE RecoveryInv'
  <2>1. n \in Nat
    BY <1>2, LenProperties DEF RecInv, TypeInv
  <2> QED
    BY <1>2, <2>1, CrashRecovery
<1>3. CASE RecoverRecord \/ RecoverEndOfFile \/ \E s \in Storages : RecoverCommit(s)
  BY <1>3, RecordRecovery, EndRecovery, CommitRecovery
<1>4. CASE RecoverDone
  BY <1>4 DEF RecoverDone, RecoveryInv
<1>5. CASE UNCHANGED vars
  <2>1. UNCHANGED <<file, flushed, buffer, data, pos, pending, is_error, mode, commands>>
    BY <1>5 DEF vars, logVars, recoverVars
  <2> QED
    BY <2>1 DEF RecInv, RecoveryInv, Reading, Finishing, Durable, Readable, InOrder,
                Empty, Overlay
<1> QED
  BY <1>1, <1>2, <1>3, <1>4, <1>5 DEF Next, Recover

-----------------------------------------------------------------------------
(* What a storage would recover to, by the image of its pages.             *)
LEMMA StableIs ==
    ASSUME TypeInv, NEW s \in Storages
    PROVE  Stable(s) = IF Readable(file) THEN Overlay(data[s], Durable(s)) ELSE data[s]
<1>1. file \in Seq(Records) /\ data[s] \in Contents
  BY Types DEF TypeInv
<1> QED
  BY <1>1, ReplayedIs DEF Stable, Durable

(* A crash during recovery loses nothing of the journal.                   *)
LEMMA CrashInRecovery ==
    ASSUME RecInv, mode # "up", NEW n \in Nat, Crash(n)
    PROVE  file' = file /\ data' = data
<1>1. file \in Seq(Records) /\ n \in flushed..Len(file) /\ flushed = Len(file)
  BY DEF RecInv, TypeInv, RecoveryInv, Crash
<1>2. n = Len(file) /\ Len(file) \in Nat
  BY <1>1, LenProperties
<1>3. /\ SubSeq(file, 1, n) \in Seq(Records) /\ Len(SubSeq(file, 1, n)) = Len(file)
      /\ \A i \in 1..Len(file) : SubSeq(file, 1, n)[i] = file[i]
  BY <1>1, <1>2, Prefix
<1>4. SubSeq(file, 1, n) = file
  BY <1>1, <1>3, SeqEqual
<1> QED
  BY <1>4 DEF Crash

(* A storage's transaction committed by recovery is what the journal says. *)
LEMMA CommitReplays ==
    ASSUME RecInv, NEW s \in Storages, RecoverCommit(s), NEW r \in Storages
    PROVE  Stable(r)' = Stable(r)
<1> USE DEF RecInv
<1>1. /\ mode = "finish" /\ UNCHANGED <<file>>
      /\ data' = IF is_error THEN data
                 ELSE [data EXCEPT ![s] = Overlay(data[s], pending[s])]
  BY DEF RecoverCommit, logVars
<1>2. CASE is_error
  BY <1>1, <1>2 DEF Stable, Replayed, Readable
<1>3. CASE ~is_error
  <2>1. /\ Readable(file) /\ Readable(file)'
        /\ \/ pending[s] = Durable(s)
           \/ pending[s] = Empty /\ Overlay(data[s], Durable(s)) = data[s]
        /\ Durable(r)' = Durable(r)
    BY <1>1, <1>3 DEF RecoveryInv, Finishing, Readable, Durable
  <2>2. TypeInv'
    BY RecoverEndType
  <2>3. Stable(r) = Overlay(data[r], Durable(r)) /\ Stable(r)' = Overlay(data'[r], Durable(r))
    <3>1. file' \in Seq(Records) /\ data'[r] \in Contents
      BY <2>2 DEF TypeInv, TypeOK
    <3>2. Stable(r)' = Overlay(data'[r], Durable(r)')
      BY <2>1, <3>1, ReplayedIs DEF Stable, Durable
    <3> QED
      BY <2>1, <3>2, StableIs
  <2>4. CASE r # s
    <3>1. data'[r] = data[r]
      BY <1>1, <1>3, <2>4, Types DEF TypeInv
    <3> QED
      BY <2>3, <3>1
  <2>5. CASE r = s
    <3>1. data'[s] = Overlay(data[s], pending[s])
      BY <1>1, <1>3, Types DEF TypeInv
    <3>2. CASE pending[s] = Durable(s)
      BY <2>3, <2>5, <3>1, <3>2, OverlayTwice
    <3>3. CASE pending[s] = Empty
      <4>1. data'[s] = data[s]
        BY <3>1, <3>3, OverlayEmpty, Types DEF TypeInv
      <4> QED
        BY <2>3, <2>5, <4>1
    <3> QED
      BY <2>1, <3>2, <3>3
  <2> QED
    BY <2>4, <2>5
<1> QED
  BY <1>2, <1>3

(* No pages are pending in contents that write none.                       *)
LEMMA NoneWritten ==
    ASSUME NEW p \in Contents, Written(p) = {}
    PROVE  p = Empty
BY DEF Written, Contents, Empty

(* An empty journal leaves every data file as it is.                       *)
LEMMA EmptyJournal ==
    ASSUME NEW s, NEW c \in Contents
    PROVE  Replayed(<<>>, s, c) = c
<1>1. <<>> \in Seq(Records) /\ Len(<<>>) = 0
  OBVIOUS
<1>2. LastMark(<<>>, 0) = 0
  BY DEF LastMark, Marks
<1>3. Image(<<>>, 0, s) = Empty
  <2>1. \A a : PagesOf(<<>>, 0, s, a) = {}
    BY DEF PagesOf
  <2> QED
    BY <2>1 DEF Image, Empty
<1> QED
  BY <1>1, <1>2, <1>3, ReplayedIs, OverlayEmpty

LEMMA DoneReplays ==
    ASSUME RecInv, RecoverDone, NEW s \in Storages
    PROVE  Stable(s)' = Stable(s) /\ mem'[s] = Stable(s)
<1> USE DEF RecInv
<1>1. /\ mode = "finish" /\ Written(pending[s]) = {}
      /\ file' = <<>> /\ data' = data /\ mem' = data
  BY DEF RecoverDone
<1>2. data[s] \in Contents /\ pending[s] = Empty
  BY <1>1, NoneWritten, Types DEF TypeInv
<1>3. Stable(s)' = data[s]
  BY <1>1, <1>2, EmptyJournal DEF Stable
<1>4. Stable(s) = data[s]
  <2>1. CASE is_error
    BY <1>1, <2>1, StableIs DEF RecoveryInv
  <2>2. CASE ~is_error
    <3>1. /\ Readable(file)
          /\ \/ Empty = Durable(s)
             \/ Overlay(data[s], Durable(s)) = data[s]
      BY <1>1, <1>2, <2>2 DEF RecoveryInv, Finishing
    <3> QED
      BY <1>2, <3>1, StableIs, OverlayEmpty
  <2> QED
    BY <2>1, <2>2
<1> QED
  BY <1>1, <1>3, <1>4

(* Every step of recovery, and every crash during it.                      *)
LEMMA RecoveryStep ==
    ASSUME RecInv, mode # "up", Next, NEW s \in Storages
    PROVE  Stable(s)' = Stable(s) /\ (mode' = "up" => mem'[s] = Stable(s))
<1>1. ASSUME NEW r, NEW p, CommitCalled(r, p) \/ ThreadStep(r) PROVE FALSE
  BY <1>1, UpRecovery
<1>2. ASSUME NEW n \in 0..Len(file), Crash(n)
      PROVE  file' = file /\ data' = data /\ mode' # "up"
  <2>1. n \in Nat
    BY <1>2, LenProperties DEF RecInv, TypeInv
  <2> QED
    BY <1>2, <2>1, CrashInRecovery DEF Crash
<1>3. CASE RecoverRecord \/ RecoverEndOfFile
  <2>1. file' = file /\ data' = data /\ mode' # "up"
    BY <1>3 DEF RecoverRecord, RecoverEndOfFile, logVars
  <2> QED
    BY <2>1 DEF Stable, Replayed, Readable
<1>4. CASE \E r \in Storages : RecoverCommit(r)
  BY <1>4, CommitReplays DEF RecoverCommit
<1>5. CASE RecoverDone
  BY <1>5, DoneReplays
<1>6. CASE \E n \in 0..Len(file) : Crash(n)
  <2>1. file' = file /\ data' = data /\ mode' # "up"
    BY <1>2, <1>6
  <2> QED
    BY <2>1 DEF Stable, Replayed, Readable
<1> QED
  BY <1>1, <1>3, <1>4, <1>5, <1>6 DEF Next, Recover

(* Recovery reads the journal record by record and commits storage by      *)
(* storage, and may crash anywhere and begin again; for any number of      *)
(* storages and crashes it ends in what the journal said as a whole when it*)
(* first began: journal_state::recover is idempotent and loses no page     *)
(* under a commit record.                                                  *)
THEOREM RecoveryReplays == Spec => RecoveryIsReplay
<1> DEFINE Step == mode # "up" =>
                     \A s \in Storages :
                         /\ Stable(s)' = Stable(s)
                         /\ mode' = "up" => mem'[s] = Stable(s)
<1>1. Init => RecInv
  BY InitType, InitRecovery DEF RecInv
<1>2. RecInv /\ [Next]_vars => RecInv'
  BY NextRecovery
<1>3. RecInv /\ [Next]_vars => [Step]_vars
  BY RecoveryStep
<1> QED
  BY <1>1, <1>2, <1>3, PTL DEF Spec, RecoveryIsReplay

-----------------------------------------------------------------------------
(* Journals that agree up to the last commit record replay alike.          *)
LEMMA ReplayedAgrees ==
    ASSUME NEW f \in Seq(Records), NEW g \in Seq(Records), NEW s, NEW c \in Contents,
           InOrder(f, Len(f)), InOrder(g, Len(g)),
           LastMark(f, Len(f)) <= Len(g),
           \A i \in 1..LastMark(f, Len(f)) : g[i] = f[i],
           \A i \in (LastMark(f, Len(f)) + 1)..Len(g) : g[i].command # "commit"
    PROVE  Replayed(g, s, c) = Replayed(f, s, c)
<1>1. Len(f) \in Nat /\ Len(g) \in Nat /\ Readable(f) /\ Readable(g)
  BY LenProperties DEF InOrder, Readable
<1>2. LastMark(g, Len(g)) = LastMark(f, Len(f)) /\ LastMark(f, Len(f)) \in Nat
  BY <1>1, LastMarkAgrees, LastMarkProperties
<1>3. Image(g, LastMark(f, Len(f)), s) = Image(f, LastMark(f, Len(f)), s)
  BY <1>2, ImageAgrees
<1> QED
  BY <1>1, <1>2, <1>3, ReplayedIs

(* g is the journal f and one record r more.                               *)
Extends(g, f, r) ==
    /\ g \in Seq(Records) /\ f \in Seq(Records) /\ r \in Records
    /\ Len(f) \in Nat /\ Len(g) = Len(f) + 1 /\ g[Len(g)] = r
    /\ \A i \in 1..Len(f) : g[i] = f[i]

LEMMA AppendExtends ==
    ASSUME NEW f \in Seq(Records), NEW r \in Records
    PROVE  Extends(Append(f, r), f, r)
BY AppendProperties, LenProperties DEF Extends

LEMMA ExtendsMark ==
    ASSUME NEW f, NEW r, NEW g, Extends(g, f, r)
    PROVE  LastMark(g, Len(g)) = IF r.command = "commit" THEN Len(g)
                                 ELSE LastMark(f, Len(f))
<1>1. /\ Len(f) \in Nat /\ Len(g) = Len(f) + 1 /\ g[Len(g)] = r
      /\ \A i \in 1..Len(f) : g[i] = f[i]
  BY DEF Extends
<1>2. LastMark(g, Len(f) + 1) = IF g[Len(f) + 1].command = "commit" THEN Len(f) + 1
                                ELSE LastMark(g, Len(f))
  BY <1>1, LastMarkStep
<1>3. LastMark(g, Len(f)) = LastMark(f, Len(f))
  <2>1. /\ LastMark(f, Len(f)) \in 0..Len(f)
        /\ \A i \in (LastMark(f, Len(f)) + 1)..Len(f) : f[i].command # "commit"
    BY <1>1, LastMarkProperties
  <2>2. /\ LastMark(f, Len(f)) <= Len(f)
        /\ \A i \in 1..LastMark(f, Len(f)) : g[i] = f[i]
        /\ \A i \in (LastMark(f, Len(f)) + 1)..Len(f) : g[i].command # "commit"
    BY <1>1, <2>1
  <2> QED
    BY <1>1, <2>2, LastMarkAgrees
<1> QED
  BY <1>1, <1>2, <1>3

LEMMA ExtendsInOrder ==
    ASSUME NEW f, NEW r, NEW g, Extends(g, f, r),
           InOrder(f, Len(f)), Len(f) # 0 => r.seq = f[Len(f)].seq + 1
    PROVE  InOrder(g, Len(g))
<1>1. /\ Len(f) \in Nat /\ Len(g) = Len(f) + 1 /\ g[Len(g)] = r
      /\ \A i \in 1..Len(f) : g[i] = f[i]
  BY DEF Extends
<1> SUFFICES ASSUME NEW i \in 2..Len(g) PROVE g[i].seq = g[i - 1].seq + 1
  BY DEF InOrder
<1>2. CASE i = Len(g)
  BY <1>1, <1>2
<1>3. CASE i # Len(g)
  <2>1. i \in 2..Len(f) /\ i - 1 \in 1..Len(f) /\ i \in 1..Len(f)
    BY <1>1, <1>3
  <2> QED
    BY <1>1, <2>1 DEF InOrder
<1> QED
  BY <1>2, <1>3

LEMMA OverlayAssociates ==
    ASSUME NEW c, NEW p, NEW q
    PROVE  Overlay(c, Overlay(p, q)) = Overlay(Overlay(c, p), q)
<1>1. ASSUME NEW a \in Addr
      PROVE  Overlay(c, Overlay(p, q))[a] = Overlay(Overlay(c, p), q)[a]
  BY DEF Overlay
<1> QED
  BY <1>1 DEF Overlay

(* The records of f after its last commit record are the pages of p, s's,   *)
(* except those at the addresses in rest.                                  *)
PagesSince(f, s, p, rest) ==
    LET m == LastMark(f, Len(f))
    IN  /\ \A i \in (m + 1)..Len(f) :
              /\ f[i].command = "page" /\ f[i].name = s
              /\ f[i].address \notin rest /\ f[i].val = p[f[i].address]
        /\ \A a \in Written(p) \ rest : \E i \in (m + 1)..Len(f) : f[i].address = a

(* A commit record under which stand all the pages of p, and no other.     *)
LEMMA MarkedPages ==
    ASSUME NEW f, NEW r, r.command = "commit", NEW g, Extends(g, f, r),
           NEW s, NEW p \in Contents, PagesSince(f, s, p, {}),
           InOrder(f, Len(f)), InOrder(g, Len(g)),
           NEW c \in Contents
    PROVE  Replayed(g, s, c) = Overlay(Replayed(f, s, c), p)
<1> DEFINE m == LastMark(f, Len(f))
           n == Len(f)
           q == Len(g)
           cs == SubSeq(f, m + 1, n)
<1>0. f \in Seq(Records) /\ g \in Seq(Records)
  BY DEF Extends
<1>1. /\ n \in Nat /\ q = n + 1 /\ g[q] = r
      /\ \A i \in 1..n : g[i] = f[i]
      /\ LastMark(g, q) = q
      /\ m \in 0..n
  BY ExtendsMark, LastMarkProperties DEF Extends
<1>2. /\ \A i \in (m + 1)..n : f[i].command = "page" /\ f[i].name = s
                               /\ f[i].val = p[f[i].address]
      /\ \A a \in Written(p) : \E i \in (m + 1)..n : f[i].address = a
  BY DEF PagesSince
<1>3. Readable(f) /\ Readable(g)
  BY DEF InOrder, Readable
<1> HIDE DEF m, n, q
<1>4. /\ cs \in Seq(Records) /\ Len(cs) = n - m
      /\ \A i \in 1..Len(cs) : cs[i] = f[m + i]
  <2>1. m + 1 \in Int /\ n \in Int /\ \A i \in (m + 1)..n : f[i] \in Records
    BY <1>0, <1>1, ElementOfSeq DEF n
  <2>2. /\ cs \in Seq(Records)
        /\ Len(cs) = IF m + 1 <= n THEN n - (m + 1) + 1 ELSE 0
        /\ \A i \in 1..(n - (m + 1) + 1) : cs[i] = f[m + 1 + i - 1]
    BY <2>1, SubSeqProperties
  <2> HIDE DEF cs
  <2>3. Len(cs) = n - m
    BY <1>1, <2>2
  <2>4. ASSUME NEW i \in 1..Len(cs) PROVE cs[i] = f[m + i]
    <3>1. i \in 1..(n - (m + 1) + 1) /\ m + 1 + i - 1 = m + i
      BY <1>1, <2>3
    <3> QED
      BY <2>2, <3>1
  <2> QED
    BY <2>2, <2>3, <2>4
<1> HIDE DEF cs
<1>5. ASSUME NEW i \in 1..Len(cs)
      PROVE  /\ cs[i].command = "page" /\ cs[i].name = s
             /\ cs[i].val = p[cs[i].address] /\ cs[i] = g[m + i]
  <2>1. m + i \in (m + 1)..n /\ m + i \in 1..n
    BY <1>1, <1>4
  <2>2. cs[i] = f[m + i] /\ g[m + i] = f[m + i]
    BY <1>1, <1>4, <2>1
  <2>3. PICK k : k = m + i
    OBVIOUS
  <2>4. f[k].command = "page" /\ f[k].name = s /\ f[k].val = p[f[k].address]
    BY <1>2, <2>1, <2>3
  <2> QED
    BY <2>2, <2>3, <2>4
<1>6. PagesAfter(cs, g, m, n)
  BY <1>1, <1>4, <1>5 DEF PagesAfter
<1>7. Image(g, q, s) = Overlay(Image(g, m, s), LastPages(cs, s))
  <2>1. q <= Len(g) /\ g[q].command # "page" /\ q = n + 1
    BY <1>0, <1>1, LenProperties DEF q
  <2> QED
    BY <1>0, <1>4, <1>6, <2>1, ImageStep
<1>8. LastPages(cs, s) = p
  <2> SUFFICES ASSUME NEW a \in Addr PROVE LastPages(cs, s)[a] = p[a]
    BY DEF LastPages, Contents
  <2> DEFINE I == {i \in DOMAIN cs : cs[i].name = s /\ cs[i].address = a}
  <2>1. LastPages(cs, s)[a] = IF I = {} THEN NoVal ELSE cs[Max(I)].val
    BY DEF LastPages
  <2>2. Len(cs) \in Nat /\ DOMAIN cs = 1..Len(cs)
    BY <1>4, LenProperties
  <2>3. CASE I = {}
    <3>1. ASSUME a \in Written(p) PROVE FALSE
      <4>1. PICK i \in (m + 1)..n : f[i].address = a
        BY <1>2, <3>1
      <4>2. i - m \in 1..Len(cs) /\ m + (i - m) = i
        BY <1>1, <1>4
      <4>3. cs[i - m].address = a
        BY <1>4, <4>1, <4>2
      <4>4. i - m \in I
        BY <1>5, <2>2, <4>2, <4>3
      <4> QED
        BY <2>3, <4>4
    <3> QED
      BY <2>1, <2>3, <3>1 DEF Written
  <2>4. CASE I # {}
    <3>1. I \in SUBSET (1..Len(cs))
      BY <2>2
    <3>2. Max(I) \in I
      <4> HIDE DEF I
      <4> QED
        BY <2>2, <2>4, <3>1, MaxIsLast
    <3>3. Max(I) \in 1..Len(cs) /\ cs[Max(I)].address = a
      BY <3>1, <3>2
    <3> HIDE DEF I
    <3>4. cs[Max(I)].val = p[a]
      BY <1>5, <3>3
    <3> QED
      BY <2>1, <2>4, <3>4
  <2> QED
    BY <2>3, <2>4
<1>9. Image(g, m, s) = Image(f, m, s)
  <2>1. m \in Nat /\ \A i \in 1..m : g[i] = f[i]
    BY <1>1
  <2> QED
    BY <2>1, ImageAgrees
<1>10. Replayed(g, s, c) = Overlay(c, Image(g, q, s))
  BY <1>0, <1>1, <1>3, ReplayedIs DEF q
<1>11. Replayed(f, s, c) = Overlay(c, Image(f, m, s))
  BY <1>0, <1>3, ReplayedIs DEF m, n
<1> QED
  BY <1>7, <1>8, <1>9, <1>10, <1>11, OverlayAssociates

-----------------------------------------------------------------------------
(* The invariant of a process with one storage s, whose merge cannot throw.*)
(* Journal and buffer are numbered without a gap and the last commit record*)
(* is flushed; the records after it are the pages of the commit underway   *)
(* that have been journalled; memory, data file, acknowledged contents and *)
(* what recovery would make of the journal agree with where the committing *)
(* thread is.                                                              *)
Log == file \o buffer

Numbered ==
    /\ InOrder(Log, Len(Log))
    /\ mode = "up" => IF Len(Log) = 0 THEN sequence = 0
                      ELSE 0 < sequence /\ Log[Len(Log)].seq = sequence

MarksFlushed == LastMark(Log, Len(Log)) <= flushed

Trailing(s) ==
    IF pc[s] \in {"journal", "synch"}
    THEN tx[s] # Empty /\ PagesSince(Log, s, tx[s], todo[s])
    ELSE LastMark(Log, Len(Log)) = Len(Log) /\ buffer = <<>>

Agreement(s) ==
    /\ pc[s] \in {"idle", "journal"} => Stable(s) = acked[s] /\ mem[s] = acked[s]
    /\ pc[s] = "synch" => Stable(s) = acked[s] /\ mem[s] = Overlay(acked[s], tx[s])
    /\ pc[s] \in {"compact", "remove"} =>
          /\ mem[s] = Stable(s) /\ mem[s] = Overlay(acked[s], tx[s])
          /\ pc[s] = "remove" \/ s \notin uncommitted => data[s] = mem[s]

OneInv(s) ==
    /\ Numbered
    /\ MarksFlushed
    /\ mode = "up" => Trailing(s) /\ Agreement(s)
    /\ mode # "up" => Stable(s) \in {acked[s], Overlay(acked[s], tx[s])}

(* What a step may do to the contents s would recover to.                  *)
StableStep(s) ==
    Stable(s)' # Stable(s) =>
        pc[s] = "synch" /\ Stable(s)' = Overlay(Stable(s), tx[s])

(* The journal and its buffer as one sequence.                             *)
LEMMA LogType ==
    ASSUME TypeInv
    PROVE  /\ Log \in Seq(Records) /\ Len(Log) = Len(file) + Len(buffer)
           /\ Len(file) \in Nat /\ Len(buffer) \in Nat /\ flushed \in 0..Len(file)
           /\ \A i \in 1..Len(file) : Log[i] = file[i]
<1>1. /\ file \in Seq(Records) /\ buffer \in Seq(Records) /\ flushed \in 0..Len(file)
      /\ Len(file) \in Nat /\ Len(buffer) \in Nat
  BY Types, LenProperties DEF TypeInv
<1> QED
  BY <1>1, ConcatProperties DEF Log

(* The journal f is what was written first of l.                           *)
Begins(f, l) ==
    /\ f \in Seq(Records) /\ l \in Seq(Records)
    /\ Len(f) \in Nat /\ Len(l) \in Nat /\ Len(f) <= Len(l)
    /\ \A i \in 1..Len(f) : l[i] = f[i]

LEMMA ConcatBegins ==
    ASSUME NEW f \in Seq(Records), NEW b \in Seq(Records)
    PROVE  Begins(f, f \o b)
<1>1. /\ f \o b \in Seq(Records) /\ Len(f \o b) = Len(f) + Len(b)
      /\ Len(f) \in Nat /\ Len(b) \in Nat
      /\ \A i \in 1..(Len(f) + Len(b)) :
            (f \o b)[i] = IF i <= Len(f) THEN f[i] ELSE b[i - Len(f)]
  BY ConcatProperties, LenProperties
<1> QED
  BY <1>1 DEF Begins

(* Records that are not under a commit record do not matter to recovery.   *)
LEMMA BeginsReplays ==
    ASSUME NEW f, NEW l, Begins(f, l),
           InOrder(l, Len(l)), LastMark(l, Len(l)) <= Len(f),
           NEW s, NEW c \in Contents
    PROVE  /\ InOrder(f, Len(f)) /\ LastMark(f, Len(f)) = LastMark(l, Len(l))
           /\ Replayed(f, s, c) = Replayed(l, s, c)
<1>1. /\ f \in Seq(Records) /\ l \in Seq(Records)
      /\ Len(f) \in Nat /\ Len(l) \in Nat /\ Len(f) <= Len(l)
      /\ \A i \in 1..Len(f) : l[i] = f[i]
  BY DEF Begins
<1>2. InOrder(f, Len(f))
  <2> SUFFICES ASSUME NEW i \in 2..Len(f) PROVE f[i].seq = f[i - 1].seq + 1
    BY DEF InOrder
  <2>1. i \in 2..Len(l) /\ i \in 1..Len(f) /\ i - 1 \in 1..Len(f)
    BY <1>1
  <2>2. l[i].seq = l[i - 1].seq + 1
    BY <2>1 DEF InOrder
  <2> QED
    BY <1>1, <2>1, <2>2
<1>3. /\ LastMark(l, Len(l)) \in 0..Len(l)
      /\ \A i \in (LastMark(l, Len(l)) + 1)..Len(l) : l[i].command # "commit"
  BY <1>1, LastMarkProperties
<1> DEFINE m == LastMark(l, Len(l))
<1>4. /\ m <= Len(f)
      /\ \A i \in 1..m : f[i] = l[i]
      /\ \A i \in (m + 1)..Len(f) : f[i].command # "commit"
  BY <1>1, <1>3
<1>5. LastMark(f, Len(f)) = LastMark(l, Len(l))
  BY <1>1, <1>4, LastMarkAgrees
<1> QED
  BY <1>1, <1>2, <1>4, <1>5, ReplayedAgrees

LEMMA ConcatAppend ==
    ASSUME NEW f \in Seq(Records), NEW b \in Seq(Records), NEW r \in Records
    PROVE  f \o Append(b, r) = Append(f \o b, r)
<1>1. <<r>> \in Seq(Records) /\ f \o b \in Seq(Records)
  BY ConcatProperties
<1>2. Append(b, r) = b \o <<r>> /\ Append(f \o b, r) = (f \o b) \o <<r>>
  BY <1>1, AppendIsConcat
<1> QED
  BY <1>1, <1>2, ConcatAssociative

(* What recovery makes of the journal, by journal and buffer.              *)
LEMMA StableLog ==
    ASSUME TypeInv, Numbered, MarksFlushed, NEW s \in Storages
    PROVE  Stable(s) = Replayed(Log, s, data[s])
<1>1. /\ file \in Seq(Records) /\ buffer \in Seq(Records) /\ data[s] \in Contents
      /\ LastMark(Log, Len(Log)) \in 0..Len(Log) /\ flushed \in 0..Len(file)
      /\ Len(file) \in Nat
  BY Types, LogType, LastMarkProperties, LenProperties DEF TypeInv
<1>2. LastMark(Log, Len(Log)) <= Len(file)
  BY <1>1, LogType DEF MarksFlushed
<1>3. Begins(file, Log) /\ InOrder(Log, Len(Log))
  BY <1>1, ConcatBegins DEF Log, Numbered
<1>4. Replayed(file, s, data[s]) = Replayed(Log, s, data[s])
  BY <1>1, <1>2, <1>3, BeginsReplays
<1> QED
  BY <1>4 DEF Stable

LEMMA StableLogNext ==
    ASSUME TypeInv', Numbered', MarksFlushed', NEW s \in Storages
    PROVE  Stable(s)' = Replayed(Log', s, data'[s])
<1>1. /\ file' \in Seq(Records) /\ buffer' \in Seq(Records) /\ data'[s] \in Contents
      /\ flushed' \in 0..Len(file') /\ Len(file') \in Nat
  BY LenProperties DEF TypeInv, TypeOK
<1>2. Len(Log') \in Nat
  BY <1>1, ConcatProperties, LenProperties DEF Log
<1>3. LastMark(Log', Len(Log')) \in 0..Len(Log')
  BY <1>2, LastMarkProperties
<1>4. LastMark(Log', Len(Log')) <= Len(file')
  BY <1>1, <1>3, <1>2 DEF MarksFlushed
<1>5. Begins(file', Log') /\ InOrder(Log', Len(Log'))
  BY <1>1, ConcatBegins DEF Log, Numbered
<1>6. Replayed(file', s, data'[s]) = Replayed(Log', s, data'[s])
  BY <1>1, <1>4, <1>5, BeginsReplays
<1> QED
  BY <1>6 DEF Stable

-----------------------------------------------------------------------------
(* Steps that leave journal, buffer and their numbers as they are.         *)
LEMMA SameLog ==
    ASSUME UNCHANGED <<file, flushed, buffer, sequence>>, mode' = "up" => mode = "up",
           Numbered, MarksFlushed
    PROVE  Numbered' /\ MarksFlushed' /\ Log' = Log
BY DEF Numbered, MarksFlushed, Log, InOrder

LEMMA CommitCalledOne ==
    ASSUME RecInv, NEW s \in Storages, OneInv(s), NEW p \in Contents \ {Empty},
           CommitCalled(s, p)
    PROVE  OneInv(s)' /\ StableStep(s)
<1>1. /\ mode = "up" /\ mode' = "up" /\ pc[s] = "idle"
      /\ UNCHANGED <<data, mem, acked, file, flushed, buffer, sequence>>
      /\ pc'[s] = "journal" /\ tx'[s] = p /\ todo'[s] = Written(p)
  BY Types DEF RecInv, TypeInv, CommitCalled, logVars
<1>2. /\ Numbered /\ MarksFlushed /\ LastMark(Log, Len(Log)) = Len(Log)
      /\ Stable(s) = acked[s] /\ mem[s] = acked[s]
  BY <1>1 DEF OneInv, Trailing, Agreement
<1>3. Numbered' /\ MarksFlushed' /\ Log' = Log
  BY <1>1, <1>2, SameLog
<1>4. Stable(s)' = Stable(s)
  BY <1>1 DEF Stable, Replayed, Readable
<1>5. Trailing(s)'
  <2>1. Len(Log) \in Nat
    BY LogType, LenProperties DEF RecInv
  <2>2. PagesSince(Log, s, p, Written(p))
    BY <1>2, <2>1 DEF PagesSince
  <2> QED
    BY <1>1, <1>3, <2>2 DEF Trailing, Empty
<1>6. Agreement(s)'
  BY <1>1, <1>2, <1>4 DEF Agreement
<1> QED
  BY <1>1, <1>3, <1>4, <1>5, <1>6 DEF OneInv, StableStep

(* The pages since the last commit record, and one more of them.           *)
LEMMA OnePageMore ==
    ASSUME NEW f, NEW g, NEW r, Extends(g, f, r), r.command = "page",
           NEW s, NEW p, NEW rest, NEW a \in rest,
           r.name = s, r.address = a, r.val = p[a],
           PagesSince(f, s, p, rest)
    PROVE  PagesSince(g, s, p, rest \ {a})
<1> DEFINE m == LastMark(f, Len(f))
<1>1. /\ Len(f) \in Nat /\ Len(g) = Len(f) + 1 /\ g[Len(g)] = r
      /\ \A i \in 1..Len(f) : g[i] = f[i]
      /\ m \in 0..Len(f) /\ LastMark(g, Len(g)) = m
  BY ExtendsMark, LastMarkProperties DEF Extends
<1>2. /\ \A i \in (m + 1)..Len(f) :
             /\ f[i].command = "page" /\ f[i].name = s
             /\ f[i].address \notin rest /\ f[i].val = p[f[i].address]
      /\ \A b \in Written(p) \ rest : \E i \in (m + 1)..Len(f) : f[i].address = b
  BY DEF PagesSince
<1> HIDE DEF m
<1>3. ASSUME NEW i \in (m + 1)..Len(g)
      PROVE  /\ g[i].command = "page" /\ g[i].name = s
             /\ g[i].address \notin rest \ {a} /\ g[i].val = p[g[i].address]
  <2>1. CASE i = Len(g)
    BY <1>1, <2>1
  <2>2. CASE i # Len(g)
    <3>1. i \in (m + 1)..Len(f) /\ g[i] = f[i]
      BY <1>1, <2>2
    <3> QED
      BY <1>2, <3>1
  <2> QED
    BY <2>1, <2>2
<1>4. ASSUME NEW b \in Written(p) \ (rest \ {a})
      PROVE  \E i \in (m + 1)..Len(g) : g[i].address = b
  <2>1. CASE b = a
    <3>1. Len(g) \in (m + 1)..Len(g) /\ g[Len(g)].address = b
      BY <1>1, <2>1
    <3> QED
      BY <3>1
  <2>2. CASE b # a
    <3>1. PICK i \in (m + 1)..Len(f) : f[i].address = b
      BY <1>2, <2>2
    <3>2. i \in (m + 1)..Len(g) /\ g[i] = f[i]
      BY <1>1
    <3> QED
      BY <3>1, <3>2
  <2> QED
    BY <2>1, <2>2
<1> QED
  BY <1>1, <1>3, <1>4 DEF PagesSince

(* The page goes to the end of journal and buffer, written out or not.     *)
LEMMA PageExtends ==
    ASSUME TypeInv, NEW s \in Storages, NEW a \in Addr, NEW spill \in BOOLEAN,
           JournalPage(s, a, spill)
    PROVE  Extends(Log', Log, Page(s, a, tx[s][a]))
<1> DEFINE r == Page(s, a, tx[s][a])
           grown == Append(buffer, r)
<1>1. /\ a \in todo[s]
      /\ file' = IF spill THEN file \o grown ELSE file
      /\ buffer' = IF spill THEN <<>> ELSE grown
  BY DEF JournalPage
<1>2. r \in Records /\ file \in Seq(Records) /\ buffer \in Seq(Records)
  BY <1>1, PageType DEF TypeInv
<1> HIDE DEF r
<1>3. grown \in Seq(Records) /\ file \o grown \in Seq(Records)
  BY <1>2, AppendProperties, ConcatProperties
<1>4. file \o grown = Append(Log, r) /\ Log \in Seq(Records)
  BY <1>2, ConcatAppend, LogType DEF Log
<1>5. Log' = file \o grown
  <2> HIDE DEF grown
  <2>1. CASE spill
    BY <1>1, <1>3, <2>1, ConcatEmptySeq DEF Log
  <2>2. CASE ~spill
    BY <1>1, <2>2 DEF Log
  <2> QED
    BY <2>1, <2>2
<1>6. Extends(Append(Log, r), Log, r)
  BY <1>2, <1>4, AppendExtends
<1> QED
  BY <1>4, <1>5, <1>6 DEF r

LEMMA JournalPageOne ==
    ASSUME RecInv, RecInv', NEW s \in Storages, OneInv(s),
           NEW a \in Addr, NEW spill \in BOOLEAN, JournalPage(s, a, spill)
    PROVE  OneInv(s)' /\ StableStep(s)
<1> DEFINE r == Page(s, a, tx[s][a])
<1>1. /\ mode = "up" /\ mode' = "up" /\ pc[s] = "journal" /\ a \in todo[s]
      /\ UNCHANGED <<data, mem, acked, flushed, pc, tx>>
      /\ sequence' = sequence + 1 /\ todo'[s] = todo[s] \ {a}
      /\ sequence \in Nat /\ data[s] \in Contents
  BY Types DEF RecInv, TypeInv, JournalPage
<1>2. /\ r.seq = sequence + 1 /\ r.command = "page" /\ r.name = s
      /\ r.address = a /\ r.val = tx[s][a]
  BY DEF Page
<1>3. Extends(Log', Log, r)
  BY PageExtends DEF RecInv
<1>4. /\ Numbered /\ MarksFlushed
      /\ tx[s] # Empty /\ PagesSince(Log, s, tx[s], todo[s])
      /\ Stable(s) = acked[s] /\ mem[s] = acked[s]
  BY <1>1 DEF OneInv, Trailing, Agreement
<1> HIDE DEF r
<1>5. /\ Len(Log) \in Nat /\ Len(Log') = Len(Log) + 1 /\ Log'[Len(Log')] = r
      /\ \A i \in 1..Len(Log) : Log'[i] = Log[i]
      /\ Log \in Seq(Records) /\ Log' \in Seq(Records)
  BY <1>3 DEF Extends
<1>6. Numbered'
  <2>1. InOrder(Log, Len(Log)) /\ (Len(Log) # 0 => r.seq = Log[Len(Log)].seq + 1)
    BY <1>1, <1>2, <1>4 DEF Numbered
  <2>2. InOrder(Log', Len(Log'))
    BY <1>3, <2>1, ExtendsInOrder
  <2> QED
    BY <1>1, <1>2, <1>5, <2>2 DEF Numbered
<1>7. LastMark(Log', Len(Log')) = LastMark(Log, Len(Log))
  BY <1>2, <1>3, ExtendsMark
<1>8. MarksFlushed'
  BY <1>1, <1>4, <1>7 DEF MarksFlushed
<1>9. Stable(s)' = Stable(s)
  <2>1. /\ LastMark(Log', Len(Log')) \in 0..Len(Log')
        /\ LastMark(Log, Len(Log)) \in 0..Len(Log)
    BY <1>5, LastMarkProperties
  <2>2. Begins(Log, Log')
    BY <1>5 DEF Begins
  <2>3. InOrder(Log', Len(Log')) /\ LastMark(Log', Len(Log')) <= Len(Log)
    BY <1>5, <1>6, <1>7, <2>1 DEF Numbered
  <2>4. Replayed(Log, s, data[s]) = Replayed(Log', s, data[s])
    BY <1>1, <2>2, <2>3, BeginsReplays
  <2>5. Stable(s) = Replayed(Log, s, data[s])
    BY <1>4, StableLog DEF RecInv
  <2>6. Stable(s)' = Replayed(Log', s, data'[s])
    BY <1>6, <1>8, StableLogNext DEF RecInv
  <2> QED
    BY <1>1, <2>4, <2>5, <2>6
<1>10. Trailing(s)'
  <2>1. PagesSince(Log', s, tx[s], todo[s] \ {a})
    BY <1>1, <1>2, <1>3, <1>4, OnePageMore
  <2> QED
    BY <1>1, <1>4, <2>1 DEF Trailing, Empty
<1>11. Agreement(s)'
  BY <1>1, <1>4, <1>9 DEF Agreement
<1> QED
  BY <1>1, <1>6, <1>8, <1>9, <1>10, <1>11 DEF OneInv, StableStep

LEMMA MergeOne ==
    ASSUME RecInv, NEW s \in Storages, OneInv(s), Merge(s)
    PROVE  OneInv(s)' /\ StableStep(s)
<1>1. /\ mode = "up" /\ mode' = "up" /\ pc[s] = "journal" /\ pc'[s] = "synch"
      /\ mem'[s] = Overlay(mem[s], tx[s])
      /\ UNCHANGED <<data, acked, tx, todo, file, flushed, buffer, sequence>>
  BY Types DEF RecInv, TypeInv, Merge, logVars
<1>2. /\ Numbered /\ MarksFlushed /\ tx[s] # Empty /\ PagesSince(Log, s, tx[s], todo[s])
      /\ Stable(s) = acked[s] /\ mem[s] = acked[s]
  BY <1>1 DEF OneInv, Trailing, Agreement
<1>3. Numbered' /\ MarksFlushed' /\ Log' = Log
  BY <1>1, <1>2, SameLog
<1>4. Stable(s)' = Stable(s)
  BY <1>1 DEF Stable, Replayed, Readable
<1>5. Trailing(s)'
  BY <1>1, <1>2, <1>3 DEF Trailing, Empty
<1>6. Overlay(acked[s], tx[s])' = Overlay(acked[s], tx[s])
  BY <1>1 DEF Overlay
<1>7. Agreement(s)'
  BY <1>1, <1>2, <1>4, <1>6 DEF Agreement
<1> QED
  BY <1>1, <1>3, <1>4, <1>5, <1>7 DEF OneInv, StableStep

(* The commit record makes the whole commit what recovery would find.      *)
LEMMA MarkCommitOne ==
    ASSUME RecInv, RecInv', NEW s \in Storages, OneInv(s), MarkCommit,
           mode = "up", mode' = "up", pc[s] = "synch", data' = data
    PROVE  /\ Numbered' /\ MarksFlushed' /\ buffer' = <<>>
           /\ LastMark(Log', Len(Log')) = Len(Log')
           /\ Stable(s)' = Overlay(Stable(s), tx[s])
<1> DEFINE r == CommitMark
<1>1. /\ file' = file \o Append(buffer, r) /\ flushed' = Len(file')
      /\ buffer' = <<>> /\ sequence' = sequence + 1
  BY DEF MarkCommit
<1>2. /\ r \in Records /\ r.command = "commit" /\ r.seq = sequence + 1
      /\ sequence \in Nat
  BY Types DEF CommitMark, Records, RecInv, TypeInv
<1>3. /\ file \in Seq(Records) /\ buffer \in Seq(Records) /\ Log \in Seq(Records)
      /\ file' \in Seq(Records)
      /\ data[s] \in Contents /\ tx[s] \in Contents /\ todo[s] = {}
  BY Types, LogType DEF RecInv, TypeInv
<1> HIDE DEF r
<1>4. Log' = Append(Log, r) /\ Log' = file'
  <2>1. file' = Append(Log, r)
    BY <1>1, <1>2, <1>3, ConcatAppend DEF Log
  <2>2. Log' = file'
    BY <1>1, <1>3, ConcatEmptySeq DEF Log
  <2> QED
    BY <2>1, <2>2
<1>5. Extends(Log', Log, r)
  BY <1>2, <1>3, <1>4, AppendExtends
<1>6. /\ Numbered /\ MarksFlushed /\ PagesSince(Log, s, tx[s], {})
  BY <1>3 DEF OneInv, Trailing
<1>7. InOrder(Log, Len(Log)) /\ InOrder(Log', Len(Log'))
  <2>1. InOrder(Log, Len(Log)) /\ (Len(Log) # 0 => r.seq = Log[Len(Log)].seq + 1)
    BY <1>2, <1>6 DEF Numbered
  <2> QED
    BY <1>5, <2>1, ExtendsInOrder
<1>8. Numbered'
  <2>1. Len(Log') # 0 /\ Log'[Len(Log')].seq = sequence'
    BY <1>1, <1>2, <1>5 DEF Extends
  <2> QED
    BY <1>1, <1>2, <1>7, <2>1 DEF Numbered
<1>9. LastMark(Log', Len(Log')) = Len(Log') /\ Len(Log') \in Nat
  BY <1>2, <1>5, ExtendsMark DEF Extends
<1>10. MarksFlushed'
  BY <1>1, <1>4, <1>9 DEF MarksFlushed
<1>11. Replayed(Log', s, data[s]) = Overlay(Replayed(Log, s, data[s]), tx[s])
  BY <1>2, <1>3, <1>5, <1>6, <1>7, MarkedPages
<1>12. Stable(s) = Replayed(Log, s, data[s]) /\ Stable(s)' = Replayed(Log', s, data'[s])
  BY <1>6, <1>8, <1>10, StableLog, StableLogNext DEF RecInv
<1> QED
  BY <1>1, <1>8, <1>9, <1>10, <1>11, <1>12

LEMMA SynchOne ==
    ASSUME RecInv, RecInv', NEW s \in Storages, OneInv(s),
           NEW compacts \in BOOLEAN, Synch(s, compacts)
    PROVE  OneInv(s)' /\ StableStep(s)
<1>1. mode = "up" /\ mode' = "up" /\ pc[s] = "synch" /\ UNCHANGED <<data, mem>>
  BY DEF Synch
<1>2. /\ tx[s] # Empty /\ PagesSince(Log, s, tx[s], {}) /\ Numbered
      /\ Stable(s) = acked[s] /\ mem[s] = Overlay(acked[s], tx[s])
      /\ tx[s] \in Contents
  <2>1. todo[s] = {} /\ tx[s] \in Contents
    BY <1>1, Types DEF RecInv, TypeInv
  <2> QED
    BY <1>1, <2>1 DEF OneInv, Trailing, Agreement
<1>3. sequence # 0
  <2>1. PICK a \in Written(tx[s]) : TRUE
    BY <1>2, NoneWritten
  <2>2. PICK i \in (LastMark(Log, Len(Log)) + 1)..Len(Log) : Log[i].address = a
    BY <1>2 DEF PagesSince
  <2>3. Len(Log) \in Nat
    BY LogType, LenProperties DEF RecInv
  <2>4. LastMark(Log, Len(Log)) \in 0..Len(Log)
    BY <2>3, LastMarkProperties
  <2>5. Len(Log) # 0
    BY <2>2, <2>3, <2>4
  <2> QED
    BY <1>1, <1>2, <2>5 DEF Numbered
<1>4. MarkCommit
  BY <1>3 DEF Synch
<1>5. /\ Numbered' /\ MarksFlushed' /\ buffer' = <<>>
      /\ LastMark(Log', Len(Log')) = Len(Log')
      /\ Stable(s)' = Overlay(Stable(s), tx[s])
  BY <1>1, <1>4, MarkCommitOne
<1>6. CASE compacts
  <2>1. pc'[s] = "compact" /\ uncommitted' = Storages /\ UNCHANGED <<acked, tx>>
    BY <1>3, <1>6, Types DEF Synch, RecInv, TypeInv
  <2>2. Overlay(acked[s], tx[s])' = Overlay(acked[s], tx[s])
    BY <2>1 DEF Overlay
  <2>3. Trailing(s)' /\ Agreement(s)'
    BY <1>1, <1>2, <1>5, <2>1, <2>2 DEF Trailing, Agreement
  <2> QED
    BY <1>1, <1>5, <2>3 DEF OneInv, StableStep
<1>7. CASE ~compacts
  <2>1. pc'[s] = "idle" /\ acked'[s] = mem[s]
    BY <1>3, <1>7, Types DEF Synch, Returns, RecInv, TypeInv
  <2>2. Trailing(s)' /\ Agreement(s)'
    BY <1>1, <1>2, <1>5, <2>1 DEF Trailing, Agreement
  <2> QED
    BY <1>1, <1>5, <2>2 DEF OneInv, StableStep
<1> QED
  BY <1>6, <1>7

(* A participant's memory in its data file: the journal over it is as well *)
(* replayed once more.                                                     *)
LEMMA JournalCommitOne ==
    ASSUME RecInv, RecInv', NEW s \in Storages, OneInv(s), JournalCommit(s, s)
    PROVE  OneInv(s)' /\ StableStep(s)
<1>1. /\ mode = "up" /\ mode' = "up" /\ pc[s] = "compact" /\ data'[s] = mem[s]
      /\ UNCHANGED <<mem, acked, pc, tx, todo, file, flushed, buffer, sequence>>
  BY Types DEF RecInv, TypeInv, JournalCommit, logVars
<1>2. /\ Numbered /\ MarksFlushed /\ LastMark(Log, Len(Log)) = Len(Log)
      /\ buffer = <<>> /\ mem[s] = Stable(s) /\ mem[s] = Overlay(acked[s], tx[s])
  BY <1>1 DEF OneInv, Trailing, Agreement
<1>3. Numbered' /\ MarksFlushed' /\ Log' = Log
  BY <1>1, <1>2, SameLog
<1>4. Stable(s)' = Stable(s)
  <2>1. Stable(s) = IF Readable(file) THEN Overlay(data[s], Durable(s)) ELSE data[s]
    BY StableIs DEF RecInv
  <2>2. file \in Seq(Records) /\ mem[s] \in Contents
    BY Types DEF RecInv, TypeInv
  <2>3. Replayed(file, s, mem[s]) =
           IF Readable(file) THEN Overlay(mem[s], Durable(s)) ELSE mem[s]
    BY <2>2, ReplayedIs DEF Durable
  <2>4. Stable(s)' = Replayed(file, s, mem[s])
    BY <1>1 DEF Stable
  <2>5. ASSUME Readable(file) PROVE Overlay(mem[s], Durable(s)) = mem[s]
    <3>1. mem[s] = Overlay(data[s], Durable(s))
      BY <1>2, <2>1, <2>5
    <3>2. Overlay(Overlay(data[s], Durable(s)), Durable(s)) = Overlay(data[s], Durable(s))
      BY OverlayTwice
    <3> QED
      BY <3>1, <3>2
  <2> QED
    BY <1>2, <2>3, <2>4, <2>5, Zenon
<1>5. Overlay(acked[s], tx[s])' = Overlay(acked[s], tx[s])
  BY <1>1 DEF Overlay
<1>6. Trailing(s)' /\ Agreement(s)'
  BY <1>1, <1>2, <1>3, <1>4, <1>5 DEF Trailing, Agreement
<1> QED
  BY <1>1, <1>3, <1>4, <1>6 DEF OneInv, StableStep

LEMMA CompactFlushOne ==
    ASSUME RecInv, NEW s \in Storages, OneInv(s), CompactFlush(s)
    PROVE  OneInv(s)' /\ StableStep(s)
<1>1. /\ mode = "up" /\ mode' = "up" /\ pc[s] = "compact" /\ pc'[s] = "remove"
      /\ uncommitted = {} /\ file' = file \o buffer /\ buffer' = <<>>
      /\ UNCHANGED <<data, mem, acked, tx, todo, flushed, sequence>>
  BY Types DEF RecInv, TypeInv, CompactFlush
<1>2. /\ Numbered /\ MarksFlushed /\ LastMark(Log, Len(Log)) = Len(Log)
      /\ buffer = <<>> /\ mem[s] = Stable(s) /\ mem[s] = Overlay(acked[s], tx[s])
      /\ data[s] = mem[s]
  BY <1>1 DEF OneInv, Trailing, Agreement
<1>3. file' = file /\ buffer' = buffer
  BY <1>1, <1>2, ConcatEmptySeq DEF RecInv, TypeInv
<1>4. Numbered' /\ MarksFlushed' /\ Log' = Log
  BY <1>1, <1>2, <1>3, SameLog
<1>5. Stable(s)' = Stable(s)
  BY <1>1, <1>3 DEF Stable, Replayed, Readable
<1>6. Overlay(acked[s], tx[s])' = Overlay(acked[s], tx[s])
  BY <1>1 DEF Overlay
<1>7. Trailing(s)' /\ Agreement(s)'
  BY <1>1, <1>2, <1>3, <1>4, <1>5, <1>6 DEF Trailing, Agreement
<1> QED
  BY <1>1, <1>4, <1>5, <1>7 DEF OneInv, StableStep

(* A journal with nothing in it.                                           *)
LEMMA NothingLogged ==
    ASSUME NEW s \in Storages, file' = <<>>, buffer' = <<>>, flushed' = 0, sequence' = 0,
           data'[s] \in Contents
    PROVE  /\ Numbered' /\ MarksFlushed' /\ Stable(s)' = data'[s]
           /\ LastMark(Log', Len(Log')) = Len(Log')
<1>1. Log' = <<>> /\ Len(<<>>) = 0
  <2>1. <<>> \in Seq(Records)
    OBVIOUS
  <2>2. <<>> \o <<>> = <<>>
    BY <2>1, ConcatEmptySeq
  <2> QED
    BY <2>2 DEF Log
<1>2. LastMark(<<>>, 0) = 0
  BY DEF LastMark, Marks
<1>3. Stable(s)' = data'[s]
  BY EmptyJournal DEF Stable
<1>4. Numbered'
  BY <1>1 DEF Numbered, InOrder
<1> QED
  BY <1>1, <1>2, <1>3, <1>4 DEF MarksFlushed

LEMMA CompactRemoveOne ==
    ASSUME RecInv, NEW s \in Storages, OneInv(s), CompactRemove(s)
    PROVE  OneInv(s)' /\ StableStep(s)
<1>1. /\ mode = "up" /\ mode' = "up" /\ pc[s] = "remove" /\ pc'[s] = "idle"
      /\ file' = <<>> /\ flushed' = 0 /\ sequence' = 0 /\ acked'[s] = mem[s]
      /\ UNCHANGED <<data, mem, buffer>> /\ data[s] \in Contents
  BY Types DEF RecInv, TypeInv, CompactRemove, Returns
<1>2. buffer = <<>> /\ mem[s] = Stable(s) /\ data[s] = mem[s]
  BY <1>1 DEF OneInv, Trailing, Agreement
<1>3. /\ Numbered' /\ MarksFlushed' /\ Stable(s)' = data[s]
      /\ LastMark(Log', Len(Log')) = Len(Log')
  BY <1>1, <1>2, NothingLogged
<1>4. Trailing(s)' /\ Agreement(s)'
  BY <1>1, <1>2, <1>3 DEF Trailing, Agreement
<1> QED
  BY <1>1, <1>2, <1>3, <1>4 DEF OneInv, StableStep

(* A crash loses only records that recovery would not have used.           *)
LEMMA CrashOne ==
    ASSUME RecInv, RecInv', NEW s \in Storages, OneInv(s), NEW n \in Nat, Crash(n)
    PROVE  OneInv(s)' /\ StableStep(s)
<1>1. /\ n \in flushed..Len(file) /\ file' = SubSeq(file, 1, n) /\ flushed' = n
      /\ buffer' = <<>> /\ mode' = "read" /\ UNCHANGED <<data, acked, tx>>
  BY DEF Crash
<1>2. /\ file \in Seq(Records) /\ file' \in Seq(Records) /\ data[s] \in Contents
      /\ flushed \in 0..Len(file) /\ Len(file) \in Nat
      /\ Log \in Seq(Records) /\ Len(Log) \in Nat /\ Len(file) <= Len(Log)
      /\ \A i \in 1..Len(file) : Log[i] = file[i]
  BY Types, LogType DEF RecInv, TypeInv
<1>3. n \in 0..Len(file)
  BY <1>1, <1>2
<1>4. Len(file') = n /\ \A i \in 1..n : file'[i] = file[i]
  BY <1>1, <1>2, <1>3, Prefix
<1>5. Begins(file', Log)
  <2>1. Len(file') \in Nat /\ Len(file') <= Len(Log)
    BY <1>2, <1>3, <1>4
  <2>2. ASSUME NEW i \in 1..n PROVE Log[i] = file'[i]
    <3>1. i \in 1..Len(file)
      BY <1>2, <1>3
    <3> QED
      BY <1>2, <1>4, <3>1
  <2>3. \A i \in 1..Len(file') : Log[i] = file'[i]
    BY <1>4, <2>2
  <2> QED
    BY <1>2, <2>1, <2>3 DEF Begins
<1>6. Numbered /\ MarksFlushed /\ InOrder(Log, Len(Log))
  BY DEF OneInv, Numbered
<1>7. LastMark(Log, Len(Log)) \in 0..Len(Log) /\ LastMark(Log, Len(Log)) <= Len(file')
  BY <1>1, <1>2, <1>3, <1>4, <1>6, LastMarkProperties DEF MarksFlushed
<1>8. /\ InOrder(file', Len(file')) /\ LastMark(file', Len(file')) = LastMark(Log, Len(Log))
      /\ Replayed(file', s, data[s]) = Replayed(Log, s, data[s])
  BY <1>2, <1>5, <1>6, <1>7, BeginsReplays
<1>9. Log' = file'
  BY <1>1, <1>2, ConcatEmptySeq DEF Log
<1>10. Numbered' /\ MarksFlushed'
  BY <1>1, <1>4, <1>7, <1>8, <1>9 DEF Numbered, MarksFlushed
<1>11. Stable(s)' = Stable(s)
  <2>1. Stable(s) = Replayed(Log, s, data[s])
    BY <1>6, StableLog DEF RecInv
  <2> QED
    BY <1>1, <1>8, <2>1 DEF Stable
<1>12. Stable(s) \in {acked[s], Overlay(acked[s], tx[s])}
  <2>1. pc[s] \in {"idle", "journal", "synch", "compact", "remove"}
    BY Types DEF RecInv, TypeInv
  <2> QED
    BY <2>1 DEF OneInv, Agreement
<1>13. Overlay(acked[s], tx[s])' = Overlay(acked[s], tx[s])
  BY <1>1 DEF Overlay
<1> QED
  BY <1>1, <1>10, <1>11, <1>12, <1>13 DEF OneInv, StableStep

LEMMA RecoverOne ==
    ASSUME RecInv, RecInv', NEW s \in Storages, OneInv(s), Recover
    PROVE  OneInv(s)' /\ StableStep(s)
<1>1. mode # "up"
  BY DEF Recover, RecoverRecord, RecoverEndOfFile, RecoverCommit, RecoverDone
<1>2. Stable(s)' = Stable(s) /\ (mode' = "up" => mem'[s] = Stable(s))
  BY <1>1, RecoveryStep DEF Next
<1>3. CASE mode' # "up"
  <2>1. UNCHANGED <<file, flushed, buffer, sequence, acked, tx>>
    BY <1>3 DEF Recover, RecoverRecord, RecoverEndOfFile, RecoverCommit, RecoverDone,
                logVars, threadVars
  <2>2. Numbered' /\ MarksFlushed'
    BY <1>3, <2>1, SameLog DEF OneInv
  <2>3. Overlay(acked[s], tx[s])' = Overlay(acked[s], tx[s])
    BY <2>1 DEF Overlay
  <2> QED
    BY <1>1, <1>2, <1>3, <2>1, <2>2, <2>3 DEF OneInv, StableStep
<1>4. CASE mode' = "up"
  <2>1. RecoverDone
    BY <1>1, <1>4 DEF Recover, RecoverRecord, RecoverEndOfFile, RecoverCommit
  <2>2. /\ file' = <<>> /\ buffer' = <<>> /\ flushed' = 0 /\ sequence' = 0
        /\ mem' = data /\ acked' = data /\ data' = data /\ pc'[s] = "idle"
        /\ data[s] \in Contents
    BY <1>1, <2>1, Types DEF RecoverDone, RecInv, RecoveryInv, TypeInv
  <2>3. /\ Numbered' /\ MarksFlushed' /\ Stable(s)' = data[s]
        /\ LastMark(Log', Len(Log')) = Len(Log')
    BY <2>2, NothingLogged
  <2>4. Trailing(s)' /\ Agreement(s)'
    BY <2>2, <2>3 DEF Trailing, Agreement
  <2> QED
    BY <1>2, <1>4, <2>3, <2>4 DEF OneInv, StableStep
<1> QED
  BY <1>3, <1>4

LEMMA InitOne ==
    ASSUME NEW s \in Storages, Init
    PROVE  OneInv(s)
<1>1. /\ mode = "up" /\ file = <<>> /\ buffer = <<>> /\ flushed = 0 /\ sequence = 0
      /\ data[s] = Empty /\ mem = data /\ acked = data /\ pc[s] = "idle"
  BY DEF Init
<1>2. Log = <<>> /\ Len(<<>>) = 0
  <2>1. <<>> \in Seq(Records)
    OBVIOUS
  <2>2. <<>> \o <<>> = <<>>
    BY <2>1, ConcatEmptySeq
  <2> QED
    BY <1>1, <2>2 DEF Log
<1>3. LastMark(<<>>, 0) = 0
  BY DEF LastMark, Marks
<1>4. Stable(s) = data[s]
  BY <1>1, EmptyJournal, EmptyContents DEF Stable
<1>5. Numbered
  BY <1>1, <1>2 DEF Numbered, InOrder
<1>6. MarksFlushed /\ Trailing(s) /\ Agreement(s)
  BY <1>1, <1>2, <1>3, <1>4 DEF MarksFlushed, Trailing, Agreement
<1> QED
  BY <1>1, <1>5, <1>6 DEF OneInv

LEMMA NextOne ==
    ASSUME NEW s, Storages = {s}, Failing = {}, RecInv, OneInv(s), [Next]_vars
    PROVE  OneInv(s)' /\ StableStep(s)
<1>0. RecInv' /\ s \in Storages /\ \A r \in Storages : r = s
  BY NextRecovery
<1>1. ASSUME NEW p \in Contents \ {Empty}, CommitCalled(s, p)
      PROVE  OneInv(s)' /\ StableStep(s)
  BY <1>0, <1>1, CommitCalledOne
<1>2. CASE ThreadStep(s)
  <2>1. CASE \E a \in Addr, spill \in BOOLEAN : JournalPage(s, a, spill)
    BY <1>0, <2>1, JournalPageOne
  <2>2. CASE Merge(s) \/ MergeThrows(s)
    BY <1>0, <2>2, MergeOne DEF MergeThrows
  <2>3. CASE \E compacts \in BOOLEAN : Synch(s, compacts)
    BY <1>0, <2>3, SynchOne
  <2>4. CASE \E p \in Storages : JournalCommit(s, p)
    BY <1>0, <2>4, JournalCommitOne
  <2>5. CASE CompactFlush(s) \/ CompactRemove(s)
    BY <1>0, <2>5, CompactFlushOne, CompactRemoveOne
  <2> QED
    BY <1>2, <2>1, <2>2, <2>3, <2>4, <2>5 DEF ThreadStep
<1>3. ASSUME NEW n \in 0..Len(file), Crash(n) PROVE OneInv(s)' /\ StableStep(s)
  <2>1. n \in Nat
    BY <1>3, LenProperties DEF RecInv, TypeInv
  <2> QED
    BY <1>0, <1>3, <2>1, CrashOne
<1>4. CASE Recover
  BY <1>0, <1>4, RecoverOne
<1>5. CASE UNCHANGED vars
  <2>1. /\ UNCHANGED <<data, mem, acked, mode, pc, tx, todo, uncommitted>>
        /\ UNCHANGED <<file, flushed, buffer, sequence>>
    BY <1>5 DEF vars, logVars, threadVars
  <2>2. Numbered' /\ MarksFlushed' /\ Log' = Log
    BY <2>1, SameLog DEF OneInv
  <2>3. Stable(s)' = Stable(s) /\ Overlay(acked[s], tx[s])' = Overlay(acked[s], tx[s])
    BY <2>1 DEF Stable, Replayed, Readable, Overlay
  <2>4. mode = "up" => Trailing(s)' /\ Agreement(s)'
    BY <2>1, <2>2, <2>3 DEF OneInv, Trailing, Agreement, Empty
  <2> QED
    BY <2>1, <2>2, <2>3, <2>4 DEF OneInv, StableStep
<1> QED
  BY <1>0, <1>1, <1>2, <1>3, <1>4, <1>5 DEF Next

(* With one storage the records journal_state numbers, buffers, spills,    *)
(* flushes and loses to crashes are in sequence at every moment, so recover*)
(* never gives up a journal this process wrote.                            *)
THEOREM JournalStaysReadable ==
    ASSUME NEW X, Storages = {X}, Failing = {}
    PROVE  Spec => []AlwaysReadable
<1>1. Init => RecInv /\ OneInv(X)
  BY InitType, InitRecovery, InitOne DEF RecInv
<1>2. RecInv /\ OneInv(X) /\ [Next]_vars => RecInv' /\ OneInv(X)'
  BY NextRecovery, NextOne
<1>3. RecInv /\ OneInv(X) => AlwaysReadable
  BY DEF OneInv, Numbered, Log, InOrder, AlwaysReadable, Readable
<1> QED
  BY <1>1, <1>2, <1>3, PTL DEF Spec

(* With one storage what would be recovered changes only when synch flushes*)
(* the commit record, and then by the whole commit: not by journalling,    *)
(* not by compaction, not by a crash and not by any step of recovery.      *)
THEOREM OneCommitPoint ==
    ASSUME NEW X, Storages = {X}, Failing = {}
    PROVE  Spec => SynchIsCommitPoint
<1> DEFINE Step == \A s \in Storages :
                     Stable(s)' # Stable(s) =>
                         pc[s] = "synch" /\ Stable(s)' = Overlay(Stable(s), tx[s])
<1>1. Init => RecInv /\ OneInv(X)
  BY InitType, InitRecovery, InitOne DEF RecInv
<1>2. RecInv /\ OneInv(X) /\ [Next]_vars => RecInv' /\ OneInv(X)'
  BY NextRecovery, NextOne
<1>3. RecInv /\ OneInv(X) /\ [Next]_vars => [Step]_vars
  BY NextOne DEF StableStep
<1>4. Spec => [][Step]_vars
  BY <1>1, <1>2, <1>3, PTL DEF Spec
<1> QED
  BY <1>4 DEF SynchIsCommitPoint

(* With one storage a commit is atomic and durable: after any crashes and  *)
(* recoveries the storage holds its last acknowledged contents, or those   *)
(* with the whole of the commit that the first crash interrupted.          *)
THEOREM CommitsAreAtomic ==
    ASSUME NEW X, Storages = {X}, Failing = {}
    PROVE  Spec => RecoveryIsAtomic
<1> DEFINE Step == mode = "finish" /\ mode' = "up" =>
                     \A s \in Storages : mem'[s] \in {acked[s], Overlay(acked[s], tx[s])}
<1>1. Init => RecInv /\ OneInv(X)
  BY InitType, InitRecovery, InitOne DEF RecInv
<1>2. RecInv /\ OneInv(X) /\ [Next]_vars => RecInv' /\ OneInv(X)'
  BY NextRecovery, NextOne
<1>3. RecInv /\ OneInv(X) /\ [Next]_vars => [Step]_vars
  BY RecoveryStep DEF OneInv
<1>4. Spec => [][Step]_vars
  BY <1>1, <1>2, <1>3, PTL DEF Spec
<1> QED
  BY <1>4 DEF RecoveryIsAtomic
=============================================================================
