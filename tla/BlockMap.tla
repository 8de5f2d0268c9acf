------------------------------ MODULE BlockMap ------------------------------
(***************************************************************************)
(* What a block allocator promises the versions built on it, without a     *)
(* cache, a file or eviction: a map from addresses to blocks, and the map  *)
(* that survives when the process or the transaction ends.                 *)
(***************************************************************************)
CONSTANTS
    Addr,     \* block addresses
    Block,    \* blocks
    NoBlock   \* end(): no block at this address

VARIABLES
    contents,     \* the block at every address
    stable,       \* the map that a crash leaves behind
    incarnation   \* the life of the allocator the contents belong to

vars == <<contents, stable, incarnation>>

Empty == [a \in Addr |-> NoBlock]

Init == contents = Empty /\ stable = Empty

(* Some block is put at address a, in place of the one there.              *)
Put(a) ==
    /\ contents'[a] \in Block
    /\ contents' = [contents EXCEPT ![a] = contents'[a]]
    /\ UNCHANGED <<stable, incarnation>>

(* Everything is made stable at once.                                      *)
Save ==
    /\ stable' = contents
    /\ UNCHANGED <<contents, incarnation>>

(* A new life begins with what is stable.                                  *)
Restart ==
    /\ contents' = stable
    /\ incarnation' # incarnation
    /\ UNCHANGED stable

Next ==
    \/ \E a \in Addr : Put(a)
    \/ Save
    \/ Restart

Spec == Init /\ [][Next]_vars
=============================================================================
