--------------------------- MODULE MCStartScreen ---------------------------
(* Instances of StartScreen: a version for each of two alert types.        *)
EXTENDS StartScreen, TLC

CONSTANTS t1, t2, v1, v2

VersionTypes == v1 :> t1 @@ v2 :> t2

Interchangeable == Permutations(Senders) \cup Permutations(AlertIDs) \cup Permutations(Calls)
=============================================================================
