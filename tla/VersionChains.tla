--------------------------- MODULE VersionChains ----------------------------
(***************************************************************************)
(* The vector of committed versions as a set S ordered by positions sl,    *)
(* each version with a map bl[o] of its own blocks and rd[o] readers: how  *)
(* a block is looked up through it, and what merge_down makes of it.       *)
(***************************************************************************)
EXTENDS Integers, FiniteSets

CONSTANT NoVal    \* end(): no block at this address

(* The versions of S that hold a block at address a. *)
Holders(S, bl, a) == {p \in S : bl[p][a] # NoVal}

(* The uppermost version of a set. *)
Top(H, sl) == CHOOSE p \in H : \A q \in H : sl[q] <= sl[p]

(* What a walk from the uppermost version of S down finds at address a: the
   entry of f (contents or versions of blocks) where the block is met first. *)
Lookup(S, sl, bl, f, a, none) ==
    IF Holders(S, bl, a) = {} THEN none ELSE f[Top(Holders(S, bl, a), sl)][a]

(* The version directly below o, if there is one. *)
Below(S, sl, o) ==
    {p \in S : sl[p] < sl[o] /\ \A q \in S : sl[q] < sl[o] => sl[q] <= sl[p]}

(* Slips in merge_down: a version moved into one that is still read, and
   the initial version never moved into. *)
MergedAwayIntoUsed(S, sl, rd) == {o \in S : rd[o] = 0 /\ Below(S, sl, o) # {}}
MergedAwayAboveInitial(S, sl, rd) ==
    {o \in S : rd[o] = 0 /\ \E p \in Below(S, sl, o) :
                                 rd[p] = 0 /\ Below(S, sl, p) # {}}

(* merge_down: every unused version above another unused one moves into it. *)
MergedAway(S, sl, rd) ==
    {o \in S : rd[o] = 0 /\ \E p \in Below(S, sl, o) : rd[p] = 0}

(* The consecutive unused versions from p upwards. *)
Run(S, sl, rd, p) ==
    {o \in S : /\ sl[p] <= sl[o]
               /\ \A q \in S : sl[p] <= sl[q] /\ sl[q] <= sl[o] => rd[q] = 0}

(* A slip in move: blocks the destination has already are not replaced. *)
MoveDownMissingOnly(S, sl, rd, bl, f, none) ==
    [o \in DOMAIN f |->
        IF o \in S /\ rd[o] = 0
        THEN IF o \in MergedAway(S, sl, rd)
             THEN [a \in DOMAIN f[o] |-> none]
             ELSE [a \in DOMAIN f[o] |->
                      IF bl[o][a] # NoVal THEN f[o][a]
                      ELSE Lookup(Run(S, sl, rd, o), sl, bl, f, a, none)]
        ELSE f[o]]

(* The block maps after the moves: the lowest version of a run has the
   uppermost block of the run at each address, the others have nothing. *)
MoveDown(S, sl, rd, bl, f, none) ==
    [o \in DOMAIN f |->
        IF o \in S /\ rd[o] = 0
        THEN IF o \in MergedAway(S, sl, rd)
             THEN [a \in DOMAIN f[o] |-> none]
             ELSE [a \in DOMAIN f[o] |->
                      Lookup(Run(S, sl, rd, o), sl, bl, f, a, none)]
        ELSE f[o]]
=============================================================================
