---------------------------- MODULE MCSessions ------------------------------
(* Who uses which session for which storage.                               *)
EXTENDS Sessions, TLC

CONSTANTS s1, s2, s3, t1, t2, X, Y

(* Two threads with a session each for the same storage.                   *)
TwoRuns == s1 :> t1 @@ s2 :> t2
TwoStorage == s1 :> X @@ s2 :> X

(* One thread with two storages, another that uses the first of them.      *)
ThreeRuns == s1 :> t1 @@ s2 :> t1 @@ s3 :> t2
ThreeStorage == s1 :> X @@ s2 :> Y @@ s3 :> X
=============================================================================
