-------------------------- MODULE MCPlaybookEditor --------------------------
(***************************************************************************)
(* Two graphs that differ in their root, their nodes and their edges: a    *)
(* torn load shows as a graph that is neither.                             *)
(***************************************************************************)
EXTENDS PlaybookEditor, TLC

Whole(x) == [root |-> x, nodes |-> x, edges |-> x]

Nothing == Whole("none")

MCGraphs == {Nothing, Whole("g1")}

MCFinished == {Whole("g1")}

Interchangeable ==
  Permutations(Playbooks) \cup Permutations(Versions) \cup Permutations(Slots)

=============================================================================
