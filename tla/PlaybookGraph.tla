--------------------------- MODULE PlaybookGraph ---------------------------
(***************************************************************************)
(* The playbook graph of internal/domain/playbook and the publish-time     *)
(* rules that can be stated without an algorithm.                          *)
(*                                                                         *)
(* A graph is a record                                                     *)
(*   root  : a node id, or NoNode (a nil RootNodeID)                       *)
(*   nodes : a function from node ids to [kind, resolution]                *)
(*   edges : a function from edge ids to [from, to]                        *)
(* Titles, descriptions, labels, sort orders and metadata are left out: no *)
(* rule below reads them.                                                  *)
(***************************************************************************)
EXTENDS Naturals

CONSTANTS NoNode,       \* a nil RootNodeID
          NoResolution  \* a nil TerminalResolution

KindDecision == "decision"
KindTerminal == "terminal"
EmptyResolution == ""

NodeIDs(g) == DOMAIN g.nodes

EdgeIDs(g) == DOMAIN g.edges

OutgoingEdges(g, n) == {e \in EdgeIDs(g) : g.edges[e].from = n}

(***************************************************************************)
(* Validate drops an edge with an unknown endpoint from the adjacency map, *)
(* so that the later checks see only edges between declared nodes.         *)
(***************************************************************************)
Dangling(g, e) == g.edges[e].from \notin NodeIDs(g) \/ g.edges[e].to \notin NodeIDs(g)

Adjacency(g, n) == {e \in OutgoingEdges(g, n) : ~Dangling(g, e)}

Successors(g, n) == {g.edges[e].to : e \in Adjacency(g, n)}

RootUsable(g) == g.root # NoNode /\ g.root \in NodeIDs(g)

----------------------------------------------------------------------------
(* The issues of steps 1 to 4 of Validate, one set per reason.             *)

NodeIssue(reason, n) == [reason |-> reason, node |-> n]

EdgeIssue(reason, e) == [reason |-> reason, edge |-> e]

RootIssues(g) ==
  IF g.root = NoNode THEN {[reason |-> "missing_root"]}
  ELSE {NodeIssue("dangling_reference", r) : r \in {g.root} \ NodeIDs(g)}

EdgeIssues(g) ==
  {EdgeIssue("dangling_reference", e) : e \in {f \in EdgeIDs(g) : Dangling(g, f)}}

DecisionIssues(g) ==
  LET decisions == {n \in NodeIDs(g) : g.nodes[n].kind = KindDecision}
  IN  {NodeIssue("decision_node_without_edges", n) :
         n \in {d \in decisions : Adjacency(g, d) = {}}}
      \cup
      {NodeIssue("decision_node_with_resolution", n) :
         n \in {d \in decisions : g.nodes[d].resolution # NoResolution}}

TerminalIssues(g) ==
  LET terminals == {n \in NodeIDs(g) : g.nodes[n].kind = KindTerminal}
  IN  {NodeIssue("terminal_node_with_edges", n) :
         n \in {t \in terminals : Adjacency(g, t) # {}}}
      \cup
      {NodeIssue("terminal_node_missing_resolution", n) :
         n \in {t \in terminals : g.nodes[t].resolution \in {NoResolution, EmptyResolution}}}

----------------------------------------------------------------------------
(***************************************************************************)
(* What the algorithms of Validate are meant to decide, defined without    *)
(* them.  A node is reachable when it is in every set that holds the start *)
(* and is closed under Successors.  A graph is acyclic when every non-empty*)
(* set of nodes has a member no edge of which stays in the set.            *)
(***************************************************************************)
Closed(g, S) == \A n \in S : Successors(g, n) \subseteq S

ReachableFrom(g, start) ==
  {n \in NodeIDs(g) :
     \A S \in SUBSET NodeIDs(g) : start \in S /\ Closed(g, S) => n \in S}

OnCycle(g) == {n \in NodeIDs(g) : \E m \in Successors(g, n) : n \in ReachableFrom(g, m)}

Acyclic(g) ==
  \A S \in SUBSET NodeIDs(g) : S # {} => \E n \in S : Successors(g, n) \cap S = {}

(***************************************************************************)
(* The rules of a publishable graph, as the comments of Validate number    *)
(* them.                                                                   *)
(***************************************************************************)
WellFormedNode(g, n) ==
  \/ /\ g.nodes[n].kind = KindDecision
     /\ Adjacency(g, n) # {}
     /\ g.nodes[n].resolution = NoResolution
  \/ /\ g.nodes[n].kind = KindTerminal
     /\ Adjacency(g, n) = {}
     /\ g.nodes[n].resolution \notin {NoResolution, EmptyResolution}

Publishable(g) ==
  /\ RootUsable(g)
  /\ \A e \in EdgeIDs(g) : ~Dangling(g, e)
  /\ \A n \in NodeIDs(g) : WellFormedNode(g, n)
  /\ Acyclic(g)
  /\ NodeIDs(g) \subseteq ReachableFrom(g, g.root)

=============================================================================
