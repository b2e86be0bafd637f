-------------------------- MODULE MCPlaybookDraft --------------------------
(***************************************************************************)
(* Two nodes and two choices: enough for every pair of rows to share an id *)
(* of a node, a source or a label.                                         *)
(***************************************************************************)
EXTENDS PlaybookDraft

Interchangeable == Permutations(NodeUUIDs) \cup Permutations(EdgeUUIDs)

=============================================================================
