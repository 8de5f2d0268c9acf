------------------------------ MODULE SortedMap ------------------------------
(***************************************************************************)
(* What a map on a transactional storage promises its client: inside a     *)
(* transaction it is a map that starts as the committed one; a commit      *)
(* makes it the committed one, a rollback forgets it.                      *)
(***************************************************************************)
CONSTANTS Keys, Values

VARIABLES
    map,        \* the map as the client sees it, a set of pairs
    committed,  \* the map the next transaction starts from
    open        \* is a transaction open

vars == <<map, committed, open>>

IsAMap(f) ==
    /\ f \subseteq Keys \X Values
    /\ \A p, q \in f : p[1] = q[1] => p = q

Without(f, k) == {p \in f : p[1] # k}

Init ==
    /\ IsAMap(committed)
    /\ map = committed
    /\ open = FALSE

Begin ==
    /\ ~open /\ open'
    /\ UNCHANGED <<committed, map>>

\* Put a value for a key, or erase the key.
Write ==
    /\ open /\ open'
    /\ UNCHANGED committed
    /\ \E old \in {map}, new \in {map'}, k \in Keys :
        new \in {Without(old, k)} \cup {Without(old, k) \cup {<<k, v>>} : v \in Values}

Commit ==
    /\ open /\ ~open'
    /\ committed' = map
    /\ UNCHANGED map

Rollback ==
    /\ open /\ ~open'
    /\ map' = committed
    /\ UNCHANGED committed

Next == Begin \/ Write \/ Commit \/ Rollback

Spec == Init /\ [][Next]_vars

=============================================================================
