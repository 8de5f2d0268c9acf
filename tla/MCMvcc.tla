------------------------------- MODULE MCMvcc -------------------------------
(* The coordinator on a few objects.  The objects other than the root are  *)
(* interchangeable, and so are the contents of blocks.  The view leaves out*)
(* the fields of free objects, which no operation reads before begin has   *)
(* set them again, and the base of anything but a transaction.             *)
EXTENDS Mvcc, TLC

Symmetry == Permutations(Objs \ {Root}) \cup Permutations(Val)

LiveFields ==
    <<storages, recycler, active, blocks, bver, readers, clock, txVars,
      comVars, journal_synching,
      [o \in storages |-> slot[o]],
      [o \in active |-> based[o]],
      [o \in Objs \ Free |-> <<version[o], order[o], read_only[o]>>],
      [o \in active |-> <<next[o], modified[o]>>]>>
=============================================================================
