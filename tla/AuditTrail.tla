----------------------------- MODULE AuditTrail -----------------------------
(***************************************************************************)
(* What the investigation engine promises, without transactions, locks or  *)
(* a pointer kept beside the history: an investigation is a walk through   *)
(* the graph of one published version, from its root, one selected edge at *)
(* a time.  Nothing is ever taken back, and a key is spent once.           *)
(***************************************************************************)
EXTENDS PlaybookGraph, Sequences

CONSTANTS Investigations, Versions, Graph, EdgeRefs, Keys, NoKey, Bodies

VARIABLE trail  \* id of a started investigation -> [version, path]

Decisions == [edge : EdgeRefs, key : Keys \cup {NoKey}, body : Bodies]

(* Where the walk has led so far.                                          *)
EndOf(t) ==
  IF t.path = <<>> THEN Graph[t.version].root
  ELSE Graph[t.version].edges[t.path[Len(t.path)].edge].to

Init == trail = [i \in {} |-> i]

Begin(i, v) ==
  /\ i \notin DOMAIN trail
  /\ trail' = [j \in DOMAIN trail \cup {i} |->
                 IF j = i THEN [version |-> v, path |-> <<>>] ELSE trail[j]]

(* A decision d selects an edge that leaves the end of the walk, under a   *)
(* key that no earlier decision of the walk bears.                         *)
Advance(i, d) ==
  /\ i \in DOMAIN trail
  /\ d.edge \in OutgoingEdges(Graph[trail[i].version], EndOf(trail[i]))
  /\ \A k \in DOMAIN trail[i].path : d.key = NoKey \/ trail[i].path[k].key # d.key
  /\ trail' = [trail EXCEPT ![i].path = Append(@, d)]

Next ==
  \E i \in Investigations :
    \/ \E v \in Versions : Begin(i, v)
    \/ \E d \in Decisions : Advance(i, d)

Spec == Init /\ [][Next]_trail

=============================================================================
