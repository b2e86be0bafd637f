------------------------- MODULE MCGraphValidation -------------------------
(***************************************************************************)
(* Instances of GraphValidation.  An edge is named by its end points, so a *)
(* set of pairs is a graph; parallel edges make no difference to Validate. *)
(***************************************************************************)
EXTENDS GraphValidation, DemoPlaybook, FiniteSets

MaxEdges == 5  \* bound on the edges of a four-node graph

GraphOf(root, nodes, pairs) ==
  [root  |-> root,
   nodes |-> nodes,
   edges |-> [p \in pairs |-> [from |-> p[1], to |-> p[2]]]]

Decision == [kind |-> KindDecision, resolution |-> NoResolution]
Terminal == [kind |-> KindTerminal, resolution |-> "resolved"]

(* Node kinds and resolutions in every combination on two nodes, the root  *)
(* nil, declared or unknown, and edges that may end in an unknown node.    *)
RuleNodes ==
  {Decision, Terminal,
   [kind |-> KindDecision, resolution |-> "resolved"],
   [kind |-> KindTerminal, resolution |-> NoResolution],
   [kind |-> KindTerminal, resolution |-> EmptyResolution]}

RuleGraphs ==
  {GraphOf(r, ns, ps) :
     r \in {NoNode, "a", "x"},
     ns \in [{"a", "b"} -> RuleNodes],
     ps \in SUBSET ({"a", "b"} \X {"a", "b", "x"})}

(* Every graph on four nodes with at most MaxEdges edges and no self-loop, *)
(* the nodes with successors being decisions and the others terminals.     *)
Four == {"a", "b", "c", "d"}

KindBySuccessors(ps) ==
  [n \in Four |-> IF \E p \in ps : p[1] = n THEN Decision ELSE Terminal]

ShapeGraphs ==
  {GraphOf("a", KindBySuccessors(ps), ps) :
     ps \in {qs \in SUBSET {p \in Four \X Four : p[1] # p[2]} :
                Cardinality(qs) <= MaxEdges}}

AllGraphs == RuleGraphs \cup ShapeGraphs

(* Every graph on three nodes.                                             *)
Three == {"a", "b", "c"}

SmallGraphs ==
  {GraphOf("a", [n \in Three |-> Decision], ps) : ps \in SUBSET (Three \X Three)}

=============================================================================
