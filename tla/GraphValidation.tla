-------------------------- MODULE GraphValidation --------------------------
(***************************************************************************)
(* Graph.Validate of internal/domain/playbook/graph.go, as the algorithm   *)
(* it is: the rule checks, the iterative coloured depth-first search of    *)
(* detectCycles and the breadth-first search of detectUnreachable.         *)
(*                                                                         *)
(* The order of g.Nodes and g.Edges (a title or a sort_order decides it)   *)
(* is a free choice: a start node is any white node and a frame takes its  *)
(* remaining edges in any order, which gives exactly the runs of the code  *)
(* over all orders of the two slices.  sortIssues only orders the answer,  *)
(* which is a set here.                                                    *)
(***************************************************************************)
EXTENDS PlaybookGraph, Sequences

CONSTANT InputGraphs  \* the graphs Validate is called with

(* validateGraphInput and the column's CHECK let no other kind in.         *)
ASSUME KindsValid ==
  \A h \in InputGraphs : \A n \in NodeIDs(h) : h.nodes[n].kind \in {KindDecision, KindTerminal}

VARIABLES g,        \* the receiver of Validate
          phase,    \* "rules", "cycles", "reach" or "done"
          color,    \* detectCycles: white, grey or black
          stack,    \* detectCycles: frames [node, todo], todo the edges left
          inCycle,  \* detectCycles: nodes to be reported
          seen,     \* detectUnreachable: nodes found
          queue,    \* detectUnreachable: nodes found and not expanded
          issues    \* the issues so far

vars == <<g, phase, color, stack, inCycle, seen, queue, issues>>

Init ==
  /\ g \in InputGraphs
  /\ phase = "rules"
  /\ color = [n \in NodeIDs(g) |-> "white"]
  /\ stack = <<>>
  /\ inCycle = {}
  /\ seen = {}
  /\ queue = {}
  /\ issues = {}

(* Steps 1 to 4: no search is needed.                                      *)
CheckRules ==
  /\ phase = "rules"
  /\ issues' = RootIssues(g) \cup EdgeIssues(g) \cup DecisionIssues(g) \cup TerminalIssues(g)
  /\ phase' = "cycles"
  /\ UNCHANGED <<g, color, stack, inCycle, seen, queue>>

----------------------------------------------------------------------------
(* detectCycles.                                                           *)

Frame(n) == [node |-> n, todo |-> Adjacency(g, n)]

Top == stack[Len(stack)]

(* Mutant: the lead-in to a cycle is reported as well.                     *)
WholeStack(n) == {stack[i].node : i \in 1..Len(stack)}

StackFrom(n) == {stack[i].node : i \in {j \in 1..Len(stack) :
                                          \A k \in 1..Len(stack) : stack[k].node = n => k <= j}}

(* The outer loop: the next start node that is still white.                *)
PushStart(n) ==
  /\ phase = "cycles" /\ stack = <<>>
  /\ color[n] = "white"
  /\ stack' = <<Frame(n)>>
  /\ color' = [color EXCEPT ![n] = "grey"]
  /\ UNCHANGED <<g, phase, inCycle, seen, queue, issues>>

(* Mutant: the frame's cursor is not advanced.                             *)
ExploreAgain(e) ==
  /\ phase = "cycles" /\ stack # <<>>
  /\ e \in Top.todo
  /\ IF color[g.edges[e].to] = "white"
     THEN /\ color' = [color EXCEPT ![g.edges[e].to] = "grey"]
          /\ stack' = Append(stack, Frame(g.edges[e].to))
     ELSE UNCHANGED <<color, stack>>
  /\ UNCHANGED <<g, phase, inCycle, seen, queue, issues>>

(* The inner loop takes the next neighbour of the top frame: a white one   *)
(* is pushed, a grey one closes a cycle, a black one is skipped.           *)
Explore(e) ==
  /\ phase = "cycles" /\ stack # <<>>
  /\ e \in Top.todo
  /\ LET next == g.edges[e].to
         rest == [stack EXCEPT ![Len(stack)].todo = @ \ {e}]
     IN  \/ /\ color[next] = "white"
            /\ color' = [color EXCEPT ![next] = "grey"]
            /\ stack' = Append(rest, Frame(next))
            /\ UNCHANGED inCycle
         \/ /\ color[next] = "grey"
            /\ inCycle' = inCycle \cup StackFrom(next)
            /\ stack' = rest
            /\ UNCHANGED color
         \/ /\ color[next] = "black"
            /\ stack' = rest
            /\ UNCHANGED <<color, inCycle>>
  /\ UNCHANGED <<g, phase, seen, queue, issues>>

(* A frame without neighbours left is finished.                            *)
Finish ==
  /\ phase = "cycles" /\ stack # <<>>
  /\ Top.todo = {}
  /\ color' = [color EXCEPT ![Top.node] = "black"]
  /\ stack' = SubSeq(stack, 1, Len(stack) - 1)
  /\ UNCHANGED <<g, phase, inCycle, seen, queue, issues>>

(* Every node is explored: report, and go on to reachability if the root   *)
(* is usable.                                                              *)
EndCycles ==
  /\ phase = "cycles" /\ stack = <<>>
  /\ \A n \in NodeIDs(g) : color[n] # "white"
  /\ issues' = issues \cup {NodeIssue("cycle_detected", n) : n \in inCycle}
  /\ IF RootUsable(g)
     THEN phase' = "reach" /\ seen' = {g.root} /\ queue' = {g.root}
     ELSE phase' = "done" /\ UNCHANGED <<seen, queue>>
  /\ UNCHANGED <<g, color, stack, inCycle>>

----------------------------------------------------------------------------
(* detectUnreachable.  The order in which the queue is emptied does not    *)
(* reach the answer and is left open.                                      *)

(* Mutant: found nodes are not queued.                                     *)
DequeueShallow(cur) ==
  /\ phase = "reach"
  /\ cur \in queue
  /\ seen' = seen \cup Successors(g, cur)
  /\ queue' = queue \ {cur}
  /\ UNCHANGED <<g, phase, color, stack, inCycle, issues>>

Dequeue(cur) ==
  /\ phase = "reach"
  /\ cur \in queue
  /\ seen' = seen \cup Successors(g, cur)
  /\ queue' = (queue \ {cur}) \cup (Successors(g, cur) \ seen)
  /\ UNCHANGED <<g, phase, color, stack, inCycle, issues>>

EndReach ==
  /\ phase = "reach" /\ queue = {}
  /\ issues' = issues \cup {NodeIssue("unreachable_from_root", n) : n \in NodeIDs(g) \ seen}
  /\ phase' = "done"
  /\ UNCHANGED <<g, color, stack, inCycle, seen, queue>>

----------------------------------------------------------------------------
Next ==
  \/ CheckRules
  \/ \E n \in NodeIDs(g) : PushStart(n)
  \/ \E e \in EdgeIDs(g) : Explore(e)
  \/ Finish
  \/ EndCycles
  \/ \E n \in NodeIDs(g) : Dequeue(n)
  \/ EndReach

Spec == Init /\ [][Next]_vars

(* Validate is one uninterrupted loop: it never stops halfway.             *)
FairSpec == Spec /\ WF_vars(Next)

----------------------------------------------------------------------------
(* Properties.                                                             *)

(* A node that detectCycles marks really lies on a cycle, whatever part of *)
(* the graph the search has explored: a designer is never sent after a     *)
(* node that does not loop.                                                *)
CycleReportsSound == inCycle \subseteq OnCycle(g)

(* Validate returns no issue exactly for the publishable graphs: the two   *)
(* searches together decide the rules as they are stated without them.  It *)
(* reports exactly the nodes no path from the root leads to, and none of   *)
(* them without a usable root.                                             *)
DecidesPublishable ==
  phase = "done" =>
    /\ issues = {} <=> Publishable(g)
    /\ {n \in NodeIDs(g) : NodeIssue("unreachable_from_root", n) \in issues}
         = IF RootUsable(g) THEN NodeIDs(g) \ ReachableFrom(g, g.root) ELSE {}

(* Both loops end on every graph, cyclic ones included.                    *)
Terminates == <>(phase = "done")

(* The comment of detectCycles: "Nodes that participate in a cycle are     *)
(* reported individually so a designer can see exactly which part of the   *)
(* graph loops."                                                           *)
EveryCycleNodeReported ==
  phase = "done" =>
    \A n \in OnCycle(g) : NodeIssue("cycle_detected", n) \in issues

=============================================================================
