------------------------- MODULE MCPlaybookLibrary -------------------------
(* An instance of PlaybookLibrary: a playbook of two versions, and the     *)
(* demo playbook.                                                          *)
EXTENDS PlaybookLibrary, TLC

CONSTANTS p1, v1, v2, demo, w1

Owners == v1 :> p1 @@ v2 :> p1 @@ w1 :> demo
Numbers == v1 :> 1 @@ v2 :> 2 @@ w1 :> 1
=============================================================================
