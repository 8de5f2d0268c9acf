--------------------------- MODULE SnapshotStore ---------------------------
(***************************************************************************)
(* What the MVCC coordinator promises its callers, without versions,       *)
(* reader counts or merging: a map of blocks with one committed state, and *)
(* transactions that each work on a private view of it.  A view is fixed   *)
(* when the transaction begins and only the transaction itself changes it. *)
(***************************************************************************)
CONSTANTS
    Tx,      \* transaction handles
    Addr,    \* block addresses
    Val,     \* block contents
    NoVal    \* no block at this address

VARIABLES
    committed,   \* the last committed contents of every address
    mode,        \* what each handle is: idle, a reader or the writer
    view         \* the contents each active transaction sees

vars == <<committed, mode, view>>

Contents == [Addr -> Val \cup {NoVal}]

Empty == [a \in Addr |-> NoVal]

TypeOK ==
    /\ committed \in Contents
    /\ mode \in [Tx -> {"idle", "read", "write"}]
    /\ view \in [Tx -> Contents]

Init ==
    /\ committed = Empty
    /\ mode = [t \in Tx |-> "idle"]
    /\ view = [t \in Tx |-> Empty]

(* Start a transaction on the committed state; one writer at a time.       *)
Begin(t, m) ==
    /\ mode[t] = "idle"
    /\ m = "write" => \A u \in Tx : mode[u] # "write"
    /\ mode' = [mode EXCEPT ![t] = m]
    /\ view' = [view EXCEPT ![t] = committed]
    /\ UNCHANGED committed

Put(t, a, v) ==
    /\ mode[t] = "write"
    /\ view' = [view EXCEPT ![t][a] = v]
    /\ UNCHANGED <<committed, mode>>

(* The writer's view becomes the committed state, all of it at once.       *)
Commit(t) ==
    /\ mode[t] = "write"
    /\ committed' = view[t]
    /\ mode' = [mode EXCEPT ![t] = "idle"]
    /\ view' = [view EXCEPT ![t] = Empty]

(* The same, with the writer going on from the state it has committed.     *)
CommitContinue(t) ==
    /\ mode[t] = "write"
    /\ committed' = view[t]
    /\ UNCHANGED <<mode, view>>

Discard(t) ==
    /\ mode[t] # "idle"
    /\ mode' = [mode EXCEPT ![t] = "idle"]
    /\ view' = [view EXCEPT ![t] = Empty]
    /\ UNCHANGED committed

Next ==
    \E t \in Tx :
        \/ \E m \in {"read", "write"} : Begin(t, m)
        \/ \E a \in Addr, v \in Val : Put(t, a, v)
        \/ Commit(t)
        \/ CommitContinue(t)
        \/ Discard(t)

Spec == Init /\ [][Next]_vars
=============================================================================
