--------------------------- MODULE ReportOverlay ---------------------------
(***************************************************************************)
(* How the console draws a walk: frontend/src/lib/report-path.ts, the      *)
(* flags PlaybookGraph gives to nodes and edges, and what the report page  *)
(* and the investigation page show next to the graph.  A response is what  *)
(* InvestigationEngine's readers return, the row and the steps; the graph  *)
(* is the one of the row's version.  The code sorts the steps by number    *)
(* before it looks at them, so a set of steps is all there is to a path.   *)
(***************************************************************************)
EXTENDS InvestigationEngine

(* A graph read from the database is finite, and null is none of its nodes. *)
ASSUME GraphsFinite ==
  \A v \in Versions : IsFiniteSet(EdgeIDs(Graph[v])) /\ NoNode \notin NodeIDs(Graph[v])

NoNumber == 0  \* null: steps are numbered from 1

EmptyOverlay ==
  [visited |-> {}, stepAtNode |-> <<>>, selected |-> {}, stepAtEdge |-> <<>>, final |-> NoNode]

NumbersAt(path, n) == {s.seq : s \in {t \in path : t.node = n}}

NumbersOver(path, e) == {s.seq : s \in {t \in path : t.edge = e}}

LastStep(path) == CHOOSE s \in path : \A t \in path : t.seq <= s.seq

(* Mutant: the walk ends where its last decision was made.                 *)
LandedAtDecision(path, edges) == {LastStep(path).node}

(* The node the last selected edge leads to, if the graph has the edge.    *)
Landed(path, edges) == {edges[e].to : e \in {LastStep(path).edge} \cap DOMAIN edges}

(* A node is stamped with its first step, an edge with its last.           *)
PathOverlay(path, edges, terminalRoot) ==
  IF path = {}
  THEN [EmptyOverlay EXCEPT !.visited = {terminalRoot} \ {NoNode}, !.final = terminalRoot]
  ELSE LET from == {s.node : s \in path}
           selected == {s.edge : s \in path}
           landed == Landed(path, edges)
       IN  [visited    |-> from \cup landed,
            stepAtNode |-> [n \in from |-> Min(NumbersAt(path, n))],
            selected   |-> selected,
            stepAtEdge |-> [e \in selected |-> Max(NumbersOver(path, e))],
            final      |-> IF landed = {} THEN NoNode ELSE CHOOSE n \in landed : TRUE]

OverlayFromSteps(path, edges, current) ==
  LET o == PathOverlay(path, edges, NoNode)
  IN  [o EXCEPT !.visited = @ \cup {current}, !.final = current]

----------------------------------------------------------------------------
(* What PlaybookGraph makes of it, and the word a node's frame carries.    *)

Overlaid(o) == o.visited # {}

StampOf(stamps, x) == IF x \in DOMAIN stamps THEN stamps[x] ELSE NoNumber

FlowNode(g, o, n) ==
  [isRoot  |-> n = g.root,
   isVisited |-> n \in o.visited,
   isFinal |-> n = o.final,
   stepNumber |-> StampOf(o.stepAtNode, n),
   isGhost |-> Overlaid(o) /\ n \notin o.visited]

FlowEdge(o, e) ==
  [isSelected |-> e \in o.selected,
   stepNumber |-> StampOf(o.stepAtEdge, e),
   isGhost |-> Overlaid(o) /\ e \notin o.selected]

Word(g, o, n) ==
  LET f == FlowNode(g, o, n)
  IN  IF f.stepNumber # NoNumber \/ ~f.isFinal THEN "none"
      ELSE IF g.nodes[n].kind = KindTerminal THEN "reached" ELSE "current"

----------------------------------------------------------------------------
(* The two pages.                                                          *)

GraphOf(state) == Graph[state.inv.version]

(* The report: the root is the end of a walk that needed no step.          *)
ReportOverlay(state) ==
  PathOverlay(state.steps, GraphOf(state).edges,
              IF IsCompleted(state.inv) THEN GraphOf(state).root ELSE NoNode)

(* The investigation page: the current node is where the walk stands.      *)
RunnerOverlay(state) ==
  OverlayFromSteps(state.steps, GraphOf(state).edges, state.inv.current)

(* The timeline's entries, in order of their numbers.                      *)
Timeline(state) ==
  [k \in {s.seq : s \in state.steps} |->
     LET s == CHOOSE t \in state.steps : t.seq = k
     IN  [node |-> s.node, destination |-> GraphOf(state).edges[s.edge].to]]

(* The resolution of the "Final node" panel, shown when there is such a    *)
(* node, and the legend's counts.                                          *)
FinalPanel(state) ==
  LET n == ReportOverlay(state).final
  IN  IF n \in NodeIDs(GraphOf(state)) THEN GraphOf(state).nodes[n].resolution ELSE NoResolution

Legend(state) ==
  LET o == ReportOverlay(state)
  IN  [taken    |-> Cardinality(o.selected),
       onPath   |-> Cardinality(o.visited),
       notTaken |-> Cardinality(EdgeIDs(GraphOf(state))) - Cardinality(o.selected)]

----------------------------------------------------------------------------
(* Properties.                                                             *)

(* The lit part of a drawing is one numbered route: number k stands on one *)
(* node and on one edge that leaves it, for as many k as there are steps,  *)
(* and leads to the node numbered k + 1, or to the one that bears the word.*)
LitRoute(state, o) ==
  LET g == GraphOf(state)
      at(k) == {n \in NodeIDs(g) : FlowNode(g, o, n).stepNumber = k}
      over(k) == {e \in EdgeIDs(g) : FlowEdge(o, e).stepNumber = k}
      worded == {n \in NodeIDs(g) : Word(g, o, n) # "none"}
      count == Cardinality(state.steps)
  IN  /\ \A k \in 1..count : \E n \in NodeIDs(g), e \in EdgeIDs(g) :
           /\ at(k) = {n} /\ over(k) = {e} /\ g.edges[e].from = n
           /\ {g.edges[e].to} = IF k = count THEN worded ELSE at(k + 1)
           /\ k = 1 => FlowNode(g, o, n).isRoot
      /\ {e \in EdgeIDs(g) : ~FlowEdge(o, e).isGhost} = UNION {over(k) : k \in 1..count}
      /\ {n \in NodeIDs(g) : ~FlowNode(g, o, n).isGhost} = worded \cup UNION {at(k) : k \in 1..count}
      /\ worded = {state.inv.current}

(* Whatever a response holds, and however its decisions raced, both pages  *)
(* draw the walk the server recorded: the investigation page lights the    *)
(* route from the root to the current node; the report lights the same     *)
(* one, and nothing before the first decision; "reached" is written on a   *)
(* completed investigation's node alone, and the panel names the           *)
(* resolution the summary does.                                            *)
OverlayTellsWalk ==
  \A c \in Clients : answer[c] = "OK" =>
    LET state == view[c]
        g == GraphOf(state)
    IN  /\ LitRoute(state, RunnerOverlay(state))
        /\ ReportOverlay(state) =
             IF state.steps = {} /\ ~IsCompleted(state.inv) THEN EmptyOverlay
             ELSE RunnerOverlay(state)
        /\ IsCompleted(state.inv) <=> Word(g, RunnerOverlay(state), state.inv.current) = "reached"
        /\ FinalPanel(state) = state.inv.resolution
        /\ \A k \in DOMAIN Timeline(state) :
             /\ k # Cardinality(state.steps) =>
                  Timeline(state)[k + 1].node = Timeline(state)[k].destination
             /\ k = Cardinality(state.steps) =>
                  Timeline(state)[k].destination = ReportOverlay(state).final
        /\ LET l == Legend(state)
               ghosts == {e \in EdgeIDs(g) : FlowEdge(ReportOverlay(state), e).isGhost}
           IN  l.onPath # 0 => l.onPath = l.taken + 1 /\ l.notTaken = Cardinality(ghosts)

=============================================================================
