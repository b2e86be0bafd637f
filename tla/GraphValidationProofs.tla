----------------------- MODULE GraphValidationProofs -----------------------
(***************************************************************************)
(* Proofs about Graph.Validate, for graphs of any size and shape.          *)
(*                                                                         *)
(* The grey nodes are those on the stack, and the stack is a path: so what *)
(* a grey neighbour closes is a cycle.  While no cycle has been met, the   *)
(* black nodes have only black successors and every non-empty set of them  *)
(* has a member without a successor in the set: so when every node is      *)
(* black the graph is acyclic.                                             *)
(***************************************************************************)
EXTENDS GraphValidation, SequenceTheorems, TLAPS

----------------------------------------------------------------------------
(* Reachability and cycles, of any graph h.                                *)

LEMMA SuccessorsDeclared ==
  ASSUME NEW h, NEW n
  PROVE  Successors(h, n) \subseteq NodeIDs(h)
BY DEF Successors, Adjacency, Dangling

LEMMA ReachesItself ==
  ASSUME NEW h, NEW n \in NodeIDs(h)
  PROVE  n \in ReachableFrom(h, n)
BY DEF ReachableFrom

(* Reachability goes on along edges.                                       *)
LEMMA ReachesOn ==
  ASSUME NEW h, NEW s, NEW n \in ReachableFrom(h, s), NEW m \in Successors(h, n)
  PROVE  m \in ReachableFrom(h, s)
<1>1. m \in NodeIDs(h)
  BY SuccessorsDeclared
<1>2. ASSUME NEW S \in SUBSET NodeIDs(h), s \in S, Closed(h, S) PROVE m \in S
  <2>1. n \in S
    BY <1>2 DEF ReachableFrom
  <2> QED
    BY <1>2, <2>1 DEF Closed
<1> QED
  BY <1>1, <1>2 DEF ReachableFrom

LEMMA ReachableClosed ==
  ASSUME NEW h, NEW s
  PROVE  ReachableFrom(h, s) \in SUBSET NodeIDs(h) /\ Closed(h, ReachableFrom(h, s))
<1>1. ReachableFrom(h, s) \in SUBSET NodeIDs(h)
  BY DEF ReachableFrom
<1>2. Closed(h, ReachableFrom(h, s))
  BY ReachesOn DEF Closed
<1> QED
  BY <1>1, <1>2

LEMMA ReachesThrough ==
  ASSUME NEW h, NEW s, NEW n \in ReachableFrom(h, s), NEW m \in ReachableFrom(h, n)
  PROVE  m \in ReachableFrom(h, s)
<1>1. ReachableFrom(h, s) \in SUBSET NodeIDs(h) /\ Closed(h, ReachableFrom(h, s))
  BY ReachableClosed
<1>2. \A S \in SUBSET NodeIDs(h) : n \in S /\ Closed(h, S) => m \in S
  BY DEF ReachableFrom
<1> QED
  BY <1>1, <1>2

(* A path to another node has a first edge.                                *)
LEMMA FirstEdge ==
  ASSUME NEW h, NEW k \in NodeIDs(h), NEW n \in ReachableFrom(h, k), n # k
  PROVE  \E j \in Successors(h, k) : n \in ReachableFrom(h, j)
<1> DEFINE T == {x \in NodeIDs(h) : x = k \/ \E j \in Successors(h, k) : x \in ReachableFrom(h, j)}
<1>1. T \in SUBSET NodeIDs(h) /\ k \in T
  OBVIOUS
<1>2. ASSUME NEW x \in T, NEW y \in Successors(h, x) PROVE y \in T
  <2>1. y \in NodeIDs(h)
    BY SuccessorsDeclared
  <2>2. CASE x = k
    BY <1>2, <2>1, <2>2, ReachesItself
  <2>3. CASE x # k
    <3>1. PICK j \in Successors(h, k) : x \in ReachableFrom(h, j)
      BY <1>2, <2>3
    <3>2. y \in ReachableFrom(h, j)
      BY <1>2, <3>1, ReachesOn
    <3> QED
      BY <2>1, <3>2
  <2> QED
    BY <2>2, <2>3
<1>3. Closed(h, T)
  BY <1>2 DEF Closed
<1>4. n \in T
  <2> HIDE DEF T
  <2> QED
    BY <1>1, <1>3 DEF ReachableFrom
<1> QED
  BY <1>4

(* A node on a cycle refutes Acyclic: the nodes between its successor and  *)
(* itself all have a successor among them.                                 *)
LEMMA CycleRefutes ==
  ASSUME NEW h, NEW n \in OnCycle(h)
  PROVE  ~Acyclic(h)
<1>1. PICK m \in Successors(h, n) : n \in ReachableFrom(h, m)
  BY DEF OnCycle
<1> DEFINE S == {k \in NodeIDs(h) : k \in ReachableFrom(h, m) /\ n \in ReachableFrom(h, k)}
<1>2. n \in NodeIDs(h) /\ m \in NodeIDs(h)
  BY SuccessorsDeclared DEF OnCycle
<1>3. m \in S
  BY <1>1, <1>2, ReachesItself
<1>4. ASSUME NEW k \in S PROVE Successors(h, k) \cap S # {}
  <2>1. CASE k = n
    BY <1>1, <1>3, <2>1
  <2>2. CASE k # n
    <3>1. PICK j \in Successors(h, k) : n \in ReachableFrom(h, j)
      BY <1>4, <2>2, FirstEdge
    <3>2. j \in NodeIDs(h) /\ j \in ReachableFrom(h, m)
      BY <1>4, <3>1, ReachesOn, SuccessorsDeclared
    <3>3. j \in S
      BY <3>1, <3>2
    <3> QED
      BY <3>1, <3>3
  <2> QED
    BY <2>1, <2>2
<1>5. S \in SUBSET NodeIDs(h)
  OBVIOUS
<1> HIDE DEF S
<1> QED
  BY <1>3, <1>4, <1>5 DEF Acyclic

----------------------------------------------------------------------------
(* The inductive invariant.                                                *)

Frames == [node : NodeIDs(g), todo : SUBSET EdgeIDs(g)]

Depth == 1..Len(stack)

Typed ==
  /\ g \in InputGraphs
  /\ phase \in {"rules", "cycles", "reach", "done"}
  /\ DOMAIN color = NodeIDs(g)
  /\ \A n \in NodeIDs(g) : color[n] \in {"white", "grey", "black"}
  /\ stack \in Seq(Frames)
  /\ \A i \in Depth : stack[i].todo \subseteq Adjacency(g, stack[i].node)

(* The stack is a path of distinct nodes, the grey ones.                   *)
StackIsPath ==
  /\ \A n \in NodeIDs(g) : color[n] = "grey" <=> \E i \in Depth : stack[i].node = n
  /\ \A i, j \in Depth : stack[i].node = stack[j].node => i = j
  /\ \A i \in Depth : i + 1 \in Depth => stack[i + 1].node \in Successors(g, stack[i].node)
  /\ \A i, j \in Depth : i <= j => stack[j].node \in ReachableFrom(g, stack[i].node)

Black == {n \in NodeIDs(g) : color[n] = "black"}

(* While no cycle has been met: an edge already taken leads to a black     *)
(* node or to the next one on the stack, and the black nodes are acyclic.  *)
NoCycleSoFar ==
  inCycle = {} =>
    /\ \A n \in Black : Successors(g, n) \subseteq Black
    /\ \A i \in Depth : \A e \in Adjacency(g, stack[i].node) \ stack[i].todo :
         \/ g.edges[e].to \in Black
         \/ i + 1 \in Depth /\ g.edges[e].to = stack[i + 1].node
    /\ \A S \in SUBSET Black : S # {} => \E n \in S : Successors(g, n) \cap S = {}

RuleIssues == RootIssues(g) \cup EdgeIssues(g) \cup DecisionIssues(g) \cup TerminalIssues(g)

CycleIssues == {NodeIssue("cycle_detected", n) : n \in inCycle}

UnreachableIssues ==
  {NodeIssue("unreachable_from_root", n) : n \in NodeIDs(g) \ ReachableFrom(g, g.root)}

(* The breadth-first search: what is seen is reachable, and what is seen   *)
(* and not queued is expanded.                                             *)
SearchOK ==
  /\ RootUsable(g) /\ g.root \in seen
  /\ seen \subseteq ReachableFrom(g, g.root)
  /\ queue \subseteq seen
  /\ \A n \in seen \ queue : Successors(g, n) \subseteq seen

(* What each phase has established.                                        *)
PhaseOK ==
  /\ phase = "rules" => stack = <<>> /\ inCycle = {} /\ \A n \in NodeIDs(g) : color[n] = "white"
  /\ phase = "cycles" => issues = RuleIssues
  /\ phase \in {"reach", "done"} => stack = <<>> /\ (inCycle = {} <=> Acyclic(g))
  /\ phase = "reach" => issues = RuleIssues \cup CycleIssues /\ SearchOK
  /\ phase = "done" => issues = RuleIssues \cup CycleIssues
                                \cup (IF RootUsable(g) THEN UnreachableIssues ELSE {})

IInv == Typed /\ StackIsPath /\ NoCycleSoFar /\ CycleReportsSound /\ PhaseOK

----------------------------------------------------------------------------
LEMMA InitInv == Init => IInv
<1> SUFFICES ASSUME Init PROVE IInv
  OBVIOUS
<1>1. stack \in Seq(Frames) /\ Depth = {}
  BY DEF Init, Depth
<1>2. Typed
  BY <1>1 DEF Init, Typed
<1>3. StackIsPath /\ CycleReportsSound
  BY <1>1 DEF Init, StackIsPath, CycleReportsSound
<1>4. Black = {}
  BY DEF Init, Black
<1>5. NoCycleSoFar
  BY <1>1, <1>4 DEF NoCycleSoFar
<1>6. PhaseOK
  BY DEF Init, PhaseOK
<1> QED
  BY <1>2, <1>3, <1>5, <1>6 DEF IInv

(* The search goes on, so far without a result.                            *)
LEMMA Searching ==
  ASSUME phase = "cycles", UNCHANGED <<g, phase, issues>>, PhaseOK
  PROVE  PhaseOK'
BY DEF PhaseOK, RuleIssues

LEMMA CheckRulesInv ==
  ASSUME IInv, CheckRules
  PROVE  IInv'
<1>1. Typed' /\ StackIsPath' /\ NoCycleSoFar' /\ CycleReportsSound'
  BY DEF IInv, CheckRules, Typed, Frames, Depth, StackIsPath, NoCycleSoFar, Black, CycleReportsSound
<1>2. PhaseOK'
  BY DEF CheckRules, PhaseOK, RuleIssues
<1> QED
  BY <1>1, <1>2 DEF IInv

LEMMA PushStartInv ==
  ASSUME IInv, NEW n \in NodeIDs(g), PushStart(n)
  PROVE  IInv'
<1>1. /\ phase = "cycles" /\ stack = <<>> /\ color[n] = "white"
      /\ stack' = <<Frame(n)>> /\ color' = [color EXCEPT ![n] = "grey"]
      /\ UNCHANGED <<g, phase, inCycle, seen, queue, issues>>
  BY DEF PushStart
<1>2. Depth = {} /\ Depth' = {1} /\ stack'[1] = Frame(n)
  BY <1>1 DEF Depth
<1>3. Frame(n) \in Frames /\ Frame(n).node = n /\ Frame(n).todo = Adjacency(g, n)
  BY DEF Frame, Frames, Adjacency, OutgoingEdges
<1>4. stack' \in Seq(Frames)'
  BY <1>1, <1>3 DEF Frames
<1>5. Typed'
  BY <1>1, <1>2, <1>3, <1>4 DEF IInv, Typed
<1>6. n \in ReachableFrom(g, n)
  BY ReachesItself
<1>7. \A m \in NodeIDs(g) : color'[m] = IF m = n THEN "grey" ELSE color[m]
  BY <1>1 DEF IInv, Typed
<1>8. StackIsPath'
  BY <1>1, <1>2, <1>3, <1>6, <1>7 DEF IInv, StackIsPath
<1>9. Black' = Black
  BY <1>1, <1>7 DEF Black
<1>10. NoCycleSoFar'
  BY <1>1, <1>2, <1>3, <1>9 DEF IInv, NoCycleSoFar
<1>11. CycleReportsSound' /\ PhaseOK'
  BY <1>1, Searching DEF IInv, CycleReportsSound
<1> QED
  BY <1>5, <1>8, <1>10, <1>11 DEF IInv

(* The top frame and the edge it takes next.                               *)
LEMMA TopEdge ==
  ASSUME IInv, stack # <<>>
  PROVE  /\ Len(stack) \in Nat /\ Len(stack) \in Depth
         /\ Top.node \in NodeIDs(g)
         /\ \A i \in Depth : i \in Nat /\ i <= Len(stack) /\ stack[i].node \in NodeIDs(g)
         /\ \A e \in Top.todo :
              /\ e \in Adjacency(g, Top.node)
              /\ g.edges[e].to \in Successors(g, Top.node)
              /\ g.edges[e].to \in NodeIDs(g)
<1>1. stack \in Seq(Frames)
  BY DEF IInv, Typed
<1>2. Len(stack) \in Nat /\ Len(stack) \in Depth
  BY <1>1, EmptySeq DEF Depth
<1>3. \A i \in Depth : i \in Nat /\ i <= Len(stack) /\ stack[i].node \in NodeIDs(g)
  <2>1. \A i \in Depth : stack[i] \in Frames
    BY <1>1, ElementOfSeq DEF Depth
  <2> QED
    BY <1>2, <2>1 DEF Depth, Frames
<1>4. Top.todo \subseteq Adjacency(g, Top.node)
  BY <1>2 DEF IInv, Typed, Top
<1> QED
  BY <1>2, <1>3, <1>4, SuccessorsDeclared DEF Top, Successors

(* The stack with the edge e taken off its top frame.                      *)
Rest(e) == [stack EXCEPT ![Len(stack)].todo = @ \ {e}]

LEMMA RestOK ==
  ASSUME IInv, stack # <<>>, NEW e \in Top.todo
  PROVE  /\ Rest(e) \in Seq(Frames) /\ Len(Rest(e)) = Len(stack)
         /\ \A i \in Depth : Rest(e)[i].node = stack[i].node
         /\ \A i \in Depth : i # Len(stack) => Rest(e)[i].todo = stack[i].todo
         /\ Rest(e)[Len(stack)].todo = Top.todo \ {e}
<1>1. stack \in Seq(Frames) /\ Len(stack) \in 1..Len(stack)
  BY TopEdge DEF IInv, Typed, Depth
<1>2. Top \in Frames
  BY <1>1, ElementOfSeq DEF Top
<1> DEFINE f == [Top EXCEPT !.todo = @ \ {e}]
<1>3. f \in Frames /\ f.node = Top.node /\ f.todo = Top.todo \ {e}
  BY <1>2 DEF Frames
<1>4. Rest(e) = [stack EXCEPT ![Len(stack)] = f]
  BY DEF Rest, Top
<1> HIDE DEF f
<1>5. /\ Rest(e) \in Seq(Frames) /\ Len(Rest(e)) = Len(stack)
      /\ \A j \in 1..Len(stack) : Rest(e)[j] = IF j = Len(stack) THEN f ELSE stack[j]
  BY <1>1, <1>3, <1>4, ExceptSeq
<1> QED
  BY <1>1, <1>3, <1>5 DEF Depth, Top

(* A white neighbour goes on the stack.                                    *)
LEMMA PushInv ==
  ASSUME IInv, phase = "cycles", stack # <<>>, NEW e \in Top.todo,
         color[g.edges[e].to] = "white",
         color' = [color EXCEPT ![g.edges[e].to] = "grey"],
         stack' = Append(Rest(e), Frame(g.edges[e].to)),
         UNCHANGED <<g, phase, inCycle, seen, queue, issues>>
  PROVE  IInv'
<1> DEFINE k == Len(stack)
<1>1. PICK n \in NodeIDs(g) : n = g.edges[e].to
  BY TopEdge
<1>2. /\ k \in Nat /\ k \in Depth /\ n \in Successors(g, Top.node) /\ Top.node \in NodeIDs(g)
      /\ \A i \in Depth : i \in Nat /\ i <= k /\ stack[i].node \in NodeIDs(g)
      /\ Depth = 1..k
  BY <1>1, TopEdge DEF Depth
<1>3. Frame(n) \in Frames /\ Frame(n).node = n /\ Frame(n).todo = Adjacency(g, n)
  BY DEF Frame, Frames, Adjacency, OutgoingEdges
<1>4. /\ stack' \in Seq(Frames) /\ Len(stack') = k + 1
      /\ \A i \in 1..k : stack'[i] = Rest(e)[i]
      /\ stack'[k + 1] = Frame(n)
  BY <1>1, <1>3, RestOK, AppendProperties
<1>5. /\ Depth' = 1..(k + 1)
      /\ \A i \in Depth : stack'[i].node = stack[i].node
      /\ \A i \in Depth : i # k => stack'[i].todo = stack[i].todo
      /\ stack'[k].todo = Top.todo \ {e}
      /\ stack'[k + 1].node = n /\ stack'[k + 1].todo = Adjacency(g, n)
      /\ \A i \in Depth' : i \in Depth \/ i = k + 1
      /\ Depth \subseteq Depth' /\ k + 1 \in Depth' /\ k + 1 \notin Depth
  BY <1>2, <1>3, <1>4, RestOK DEF Depth
<1>6. PICK top : /\ top = k + 1 /\ stack'[top].node = n /\ top \in Depth' /\ Depth \subseteq Depth'
                 /\ \A i \in Depth' : i \in Depth \/ i = top
                 /\ \A i \in Depth : stack'[i].node = stack[i].node
                 /\ \A i \in Depth : stack'[i].todo \subseteq stack[i].todo
                 /\ stack'[top].todo = Adjacency(g, n)
  BY <1>5 DEF Top
<1>7. \A m \in NodeIDs(g) : color'[m] = IF m = n THEN "grey" ELSE color[m]
  BY <1>1 DEF IInv, Typed
<1>8. Typed'
  <2>1. stack' \in Seq(Frames)'
    BY <1>4 DEF Frames
  <2>2. \A i \in Depth' : stack'[i].todo \subseteq Adjacency(g, stack'[i].node)
    <3>1. \A i \in Depth : stack[i].todo \subseteq Adjacency(g, stack[i].node)
      BY DEF IInv, Typed
    <3> QED
      BY <1>6, <3>1
  <2> QED
    BY <1>7, <2>1, <2>2 DEF IInv, Typed
<1>9. \A i \in Depth : stack[i].node # n
  BY <1>1 DEF IInv, StackIsPath
<1>10. StackIsPath'
  <2>1. \A m \in NodeIDs(g) : color'[m] = "grey" <=> \E i \in Depth' : stack'[i].node = m
    <3>1. \A m \in NodeIDs(g) : color[m] = "grey" <=> \E i \in Depth : stack[i].node = m
      BY DEF IInv, StackIsPath
    <3> SUFFICES ASSUME NEW m \in NodeIDs(g)
                 PROVE  color'[m] = "grey" <=> \E i \in Depth' : stack'[i].node = m
      OBVIOUS
    <3>2. CASE m = n
      BY <1>6, <1>7, <3>2
    <3>3. CASE m # n
      <4>1. color'[m] = color[m]
        BY <1>7, <3>3
      <4>2. ASSUME NEW i \in Depth, stack[i].node = m PROVE \E j \in Depth' : stack'[j].node = m
        BY <1>6, <4>2
      <4>3. ASSUME NEW i \in Depth', stack'[i].node = m PROVE \E j \in Depth : stack[j].node = m
        BY <1>6, <3>3, <4>3
      <4> QED
        BY <3>1, <4>1, <4>2, <4>3
    <3> QED
      BY <3>2, <3>3
  <2>2. \A i, j \in Depth' : stack'[i].node = stack'[j].node => i = j
    <3>1. \A i, j \in Depth : stack[i].node = stack[j].node => i = j
      BY DEF IInv, StackIsPath
    <3> SUFFICES ASSUME NEW i \in Depth', NEW j \in Depth', stack'[i].node = stack'[j].node
                 PROVE  i = j
      OBVIOUS
    <3>2. CASE i \in Depth /\ j \in Depth
      BY <1>6, <3>1, <3>2
    <3>3. CASE i \notin Depth \/ j \notin Depth
      BY <1>6, <1>9, <3>3
    <3> QED
      BY <3>2, <3>3
  <2>3. \A i \in Depth' : i + 1 \in Depth' => stack'[i + 1].node \in Successors(g, stack'[i].node)
    <3> SUFFICES ASSUME NEW i \in Depth', i + 1 \in Depth'
                 PROVE  stack'[i + 1].node \in Successors(g, stack'[i].node)
      OBVIOUS
    <3>1. CASE i = k
      BY <1>2, <1>5, <3>1 DEF Top
    <3>2. CASE i # k
      <4>1. i \in Depth /\ i + 1 \in Depth
        BY <1>2, <1>5, <3>2
      <4> QED
        BY <1>5, <4>1 DEF IInv, StackIsPath
    <3> QED
      BY <3>1, <3>2
  <2>4. \A i, j \in Depth' : i <= j => stack'[j].node \in ReachableFrom(g, stack'[i].node)
    <3> SUFFICES ASSUME NEW i \in Depth', NEW j \in Depth', i <= j
                 PROVE  stack'[j].node \in ReachableFrom(g, stack'[i].node)
      OBVIOUS
    <3>1. CASE j \in Depth
      <4>1. i \in Depth
        BY <1>2, <1>5, <3>1
      <4> QED
        BY <1>5, <3>1, <4>1 DEF IInv, StackIsPath
    <3>2. CASE j = k + 1 /\ i \in Depth
      <4>1. Top.node \in ReachableFrom(g, stack[i].node)
        BY <1>2, <3>2 DEF IInv, StackIsPath, Top
      <4>2. n \in ReachableFrom(g, stack[i].node)
        BY <1>2, <4>1, ReachesOn
      <4> QED
        BY <1>5, <3>2, <4>2
    <3>3. CASE i = k + 1 /\ j = k + 1
      BY <1>5, <3>3, ReachesItself
    <3> QED
      BY <1>2, <1>5, <3>1, <3>2, <3>3
  <2> QED
    BY <2>1, <2>2, <2>3, <2>4 DEF StackIsPath
<1>11. Black' = Black
  BY <1>1, <1>7 DEF Black
<1>12. NoCycleSoFar'
  <2> SUFFICES ASSUME inCycle = {} PROVE NoCycleSoFar'
    BY DEF NoCycleSoFar
  <2>1. ASSUME NEW i \in Depth', NEW f \in Adjacency(g, stack'[i].node) \ stack'[i].todo
        PROVE  \/ g.edges[f].to \in Black
               \/ i + 1 \in Depth' /\ g.edges[f].to = stack'[i + 1].node
    <3>1. i \in Depth
      BY <1>5, <2>1
    <3>2. CASE i = k /\ f = e
      BY <1>1, <1>5, <3>2
    <3>3. CASE ~(i = k /\ f = e)
      <4>1. f \in Adjacency(g, stack[i].node) \ stack[i].todo
        BY <1>5, <2>1, <3>1, <3>3 DEF Top
      <4>2. \/ g.edges[f].to \in Black
            \/ i + 1 \in Depth /\ g.edges[f].to = stack[i + 1].node
        BY <3>1, <4>1 DEF IInv, NoCycleSoFar
      <4> QED
        BY <1>5, <4>2
    <3> QED
      BY <3>2, <3>3
  <2> QED
    BY <1>11, <2>1 DEF IInv, NoCycleSoFar
<1>13. CycleReportsSound' /\ PhaseOK'
  BY Searching DEF IInv, CycleReportsSound
<1> QED
  BY <1>8, <1>10, <1>12, <1>13 DEF IInv

(* Only the top frame's edges to take change: the stack stays the same     *)
(* path.                                                                   *)
LEMMA TakeOff ==
  ASSUME IInv, stack # <<>>, NEW e \in Top.todo, stack' = Rest(e), UNCHANGED <<g, color>>
  PROVE  /\ Typed' <=> phase' \in {"rules", "cycles", "reach", "done"}
         /\ StackIsPath' /\ Depth' = Depth
         /\ \A i \in Depth : stack'[i].node = stack[i].node
         /\ \A i \in Depth : stack'[i].todo \subseteq stack[i].todo
         /\ \A i \in Depth : \A f \in stack[i].todo \ stack'[i].todo : f = e /\ i = Len(stack)
<1>1. /\ stack' \in Seq(Frames) /\ Depth' = Depth
      /\ \A i \in Depth : stack'[i].node = stack[i].node
      /\ \A i \in Depth : i # Len(stack) => stack'[i].todo = stack[i].todo
      /\ stack'[Len(stack)].todo = stack[Len(stack)].todo \ {e}
  BY RestOK DEF Depth, Top
<1>2. Typed' <=> phase' \in {"rules", "cycles", "reach", "done"}
  <2>1. stack' \in Seq(Frames)'
    BY <1>1 DEF Frames
  <2>2. \A i \in Depth' : stack'[i].todo \subseteq Adjacency(g, stack'[i].node)
    BY <1>1 DEF IInv, Typed
  <2> QED
    BY <2>1, <2>2 DEF IInv, Typed
<1>3. StackIsPath'
  BY <1>1 DEF IInv, StackIsPath
<1> QED
  BY <1>1, <1>2, <1>3

(* A grey neighbour closes a cycle.  It is on the stack, and so all of the *)
(* stack from it on is reachable from it and leads to the top.             *)
LEMMA CloseCycleInv ==
  ASSUME IInv, phase = "cycles", stack # <<>>, NEW e \in Top.todo,
         color[g.edges[e].to] = "grey",
         inCycle' = inCycle \cup StackFrom(g.edges[e].to),
         stack' = Rest(e),
         UNCHANGED <<g, phase, color, seen, queue, issues>>
  PROVE  IInv'
<1>1. PICK n \in NodeIDs(g) : n = g.edges[e].to
  BY TopEdge
<1>2. /\ Len(stack) \in Depth /\ n \in Successors(g, Top.node)
      /\ \A i \in Depth : i \in Nat /\ i <= Len(stack) /\ stack[i].node \in NodeIDs(g)
  BY <1>1, TopEdge
<1>3. PICK k \in Depth : stack[k].node = n
  BY <1>1 DEF IInv, StackIsPath
<1>4. StackFrom(n) = {stack[i].node : i \in {j \in Depth : k <= j}}
  <2>1. \A j \in Depth : (\A l \in Depth : stack[l].node = n => l <= j) <=> k <= j
    BY <1>3 DEF IInv, StackIsPath
  <2> QED
    BY <2>1 DEF StackFrom, Depth
<1>5. Typed' /\ StackIsPath'
  BY TakeOff DEF IInv, Typed
<1>6. Top.node \in StackFrom(n)
  BY <1>2, <1>3, <1>4 DEF Top
<1>7. NoCycleSoFar'
  BY <1>1, <1>6 DEF NoCycleSoFar
<1>8. ASSUME NEW i \in Depth, k <= i PROVE stack[i].node \in OnCycle(g)
  <2>1. stack[i].node \in ReachableFrom(g, n) /\ stack[i].node \in NodeIDs(g)
    BY <1>2, <1>3, <1>8 DEF IInv, StackIsPath
  <2>2. CASE i = Len(stack)
    BY <1>2, <2>1, <2>2 DEF OnCycle, Top
  <2>3. CASE i # Len(stack)
    <3>1. i + 1 \in Depth /\ i + 1 <= Len(stack)
      BY <1>2, <1>8, <2>3 DEF Depth
    <3>2. PICK m : m = stack[i + 1].node
      OBVIOUS
    <3>3. m \in Successors(g, stack[i].node) /\ Top.node \in ReachableFrom(g, m)
      BY <1>2, <3>1, <3>2 DEF IInv, StackIsPath, Top
    <3>4. stack[i].node \in ReachableFrom(g, m)
      BY <1>2, <2>1, <3>3, ReachesOn, ReachesThrough
    <3> QED
      BY <2>1, <3>3, <3>4 DEF OnCycle
  <2> QED
    BY <2>2, <2>3
<1>9. CycleReportsSound'
  BY <1>1, <1>4, <1>8 DEF IInv, CycleReportsSound
<1>10. PhaseOK'
  BY Searching DEF IInv
<1> QED
  BY <1>5, <1>7, <1>9, <1>10 DEF IInv

(* A black neighbour is passed over.                                       *)
LEMMA PassOverInv ==
  ASSUME IInv, phase = "cycles", stack # <<>>, NEW e \in Top.todo,
         color[g.edges[e].to] = "black",
         stack' = Rest(e),
         UNCHANGED <<g, phase, color, inCycle, seen, queue, issues>>
  PROVE  IInv'
<1>1. PICK n \in Black : n = g.edges[e].to
  BY TopEdge DEF Black
<1>2. Typed' /\ StackIsPath' /\ Depth' = Depth /\ Black' = Black
  BY TakeOff DEF IInv, Typed, Black
<1>3. NoCycleSoFar'
  <2> SUFFICES ASSUME inCycle = {} PROVE NoCycleSoFar'
    BY DEF NoCycleSoFar
  <2>1. ASSUME NEW i \in Depth, NEW f \in Adjacency(g, stack'[i].node) \ stack'[i].todo
        PROVE  \/ g.edges[f].to \in Black
               \/ i + 1 \in Depth /\ g.edges[f].to = stack'[i + 1].node
    <3>1. CASE f = e
      BY <1>1, <3>1
    <3>2. CASE f # e
      <4>1. f \in Adjacency(g, stack[i].node) \ stack[i].todo
        BY <2>1, <3>2, TakeOff
      <4>2. \/ g.edges[f].to \in Black
            \/ i + 1 \in Depth /\ g.edges[f].to = stack[i + 1].node
        BY <4>1 DEF IInv, NoCycleSoFar
      <4> QED
        BY <4>2, TakeOff
    <3> QED
      BY <3>1, <3>2
  <2> QED
    BY <1>2, <2>1 DEF IInv, NoCycleSoFar
<1>4. CycleReportsSound' /\ PhaseOK'
  BY Searching DEF IInv, CycleReportsSound
<1> QED
  BY <1>2, <1>3, <1>4 DEF IInv

LEMMA ExploreInv ==
  ASSUME IInv, NEW e \in EdgeIDs(g), Explore(e)
  PROVE  IInv'
<1>1. phase = "cycles" /\ stack # <<>> /\ e \in Top.todo
  BY DEF Explore
<1>2. UNCHANGED <<g, phase, seen, queue, issues>>
  BY DEF Explore
<1>3. CASE /\ color[g.edges[e].to] = "white"
           /\ color' = [color EXCEPT ![g.edges[e].to] = "grey"]
           /\ stack' = Append(Rest(e), Frame(g.edges[e].to))
           /\ UNCHANGED inCycle
  BY <1>1, <1>2, <1>3, PushInv
<1>4. CASE /\ color[g.edges[e].to] = "grey"
           /\ inCycle' = inCycle \cup StackFrom(g.edges[e].to)
           /\ stack' = Rest(e)
           /\ UNCHANGED color
  BY <1>1, <1>2, <1>4, CloseCycleInv
<1>5. CASE color[g.edges[e].to] = "black" /\ stack' = Rest(e) /\ UNCHANGED <<color, inCycle>>
  BY <1>1, <1>2, <1>5, PassOverInv
<1> QED
  BY <1>3, <1>4, <1>5 DEF Explore, Rest

(* A finished node turns black.  Its successors are all black, so it       *)
(* closes no cycle among the black nodes.                                  *)
LEMMA FinishInv ==
  ASSUME IInv, Finish
  PROVE  IInv'
<1> DEFINE k == Len(stack)
<1>1. /\ phase = "cycles" /\ stack # <<>> /\ Top.todo = {}
      /\ color' = [color EXCEPT ![Top.node] = "black"]
      /\ stack' = SubSeq(stack, 1, k - 1)
      /\ UNCHANGED <<g, phase, inCycle, seen, queue, issues>>
  BY DEF Finish
<1>2. PICK n \in NodeIDs(g) : n = Top.node
  BY <1>1, TopEdge
<1>3. /\ k \in Nat /\ k \in Depth /\ k + 1 \notin Depth
      /\ stack[k].node = n /\ stack[k].todo = {}
      /\ \A i \in Depth : i \in Nat /\ i <= k
  BY <1>1, <1>2, TopEdge DEF Top, Depth
<1>4. stack' \in Seq(Frames) /\ Len(stack') = k - 1 /\ \A i \in 1..(k - 1) : stack'[i] = stack[i]
  <2>1. stack \in Seq(Frames) /\ k - 1 \in 0..k /\ k \in 1..k
    BY <1>3 DEF IInv, Typed, Depth
  <2>2. PICK l \in 0..k : l = k - 1
    BY <2>1
  <2>3. /\ SubSeq(stack, 1, l) \in Seq(Frames)
        /\ Len(SubSeq(stack, 1, l)) = l
        /\ \A i \in 1..l : SubSeq(stack, 1, l)[i] = stack[i]
    BY <1>3, <2>1
  <2> QED
    BY <1>1, <2>2, <2>3
<1>5. /\ \A i \in Depth' : i \in Depth /\ stack'[i] = stack[i] /\ i # k
      /\ \A i \in Depth : i # k => i \in Depth' /\ stack'[i] = stack[i]
  BY <1>3, <1>4 DEF Depth
<1>6. \A m \in NodeIDs(g) : color'[m] = IF m = n THEN "black" ELSE color[m]
  BY <1>1, <1>2 DEF IInv, Typed
<1>7. Typed'
  <2>1. stack' \in Seq(Frames)'
    BY <1>1, <1>4 DEF Frames
  <2>2. \A i \in Depth' : stack'[i].todo \subseteq Adjacency(g, stack'[i].node)
    BY <1>5 DEF IInv, Typed
  <2> QED
    BY <1>1, <1>6, <2>1, <2>2 DEF IInv, Typed
<1>8. \A i \in Depth : stack[i].node = n => i = k
  BY <1>3 DEF IInv, StackIsPath
<1>9. StackIsPath'
  <2>1. \A m \in NodeIDs(g) : color'[m] = "grey" <=> \E i \in Depth' : stack'[i].node = m
    <3> SUFFICES ASSUME NEW m \in NodeIDs(g)
                 PROVE  color'[m] = "grey" <=> \E i \in Depth' : stack'[i].node = m
      OBVIOUS
    <3>1. color[m] = "grey" <=> \E i \in Depth : stack[i].node = m
      BY DEF IInv, StackIsPath
    <3>2. CASE m = n
      BY <1>5, <1>6, <1>8, <3>2
    <3>3. CASE m # n
      <4>1. color'[m] = color[m]
        BY <1>6, <3>3
      <4>2. ASSUME NEW i \in Depth, stack[i].node = m PROVE \E j \in Depth' : stack'[j].node = m
        BY <1>3, <1>5, <3>3, <4>2
      <4>3. ASSUME NEW i \in Depth', stack'[i].node = m PROVE \E j \in Depth : stack[j].node = m
        BY <1>5, <4>3
      <4> QED
        BY <3>1, <4>1, <4>2, <4>3
    <3> QED
      BY <3>2, <3>3
  <2>2. \A i, j \in Depth' : stack'[i].node = stack'[j].node => i = j
    BY <1>5 DEF IInv, StackIsPath
  <2>3. \A i \in Depth' : i + 1 \in Depth' => stack'[i + 1].node \in Successors(g, stack'[i].node)
    BY <1>5 DEF IInv, StackIsPath
  <2>4. \A i, j \in Depth' : i <= j => stack'[j].node \in ReachableFrom(g, stack'[i].node)
    BY <1>5 DEF IInv, StackIsPath
  <2> QED
    BY <1>1, <2>1, <2>2, <2>3, <2>4 DEF StackIsPath
<1>10. Black' = Black \cup {n} /\ n \notin Black
  <2>1. color[n] = "grey"
    BY <1>3 DEF IInv, StackIsPath
  <2> QED
    BY <1>1, <1>6, <2>1 DEF Black
<1>11. NoCycleSoFar'
  <2> SUFFICES ASSUME inCycle = {} PROVE NoCycleSoFar'
    BY <1>1 DEF NoCycleSoFar
  <2>1. /\ \A m \in Black : Successors(g, m) \subseteq Black
        /\ \A i \in Depth : \A e \in Adjacency(g, stack[i].node) \ stack[i].todo :
             \/ g.edges[e].to \in Black
             \/ i + 1 \in Depth /\ g.edges[e].to = stack[i + 1].node
        /\ \A S \in SUBSET Black : S # {} => \E m \in S : Successors(g, m) \cap S = {}
    BY DEF IInv, NoCycleSoFar
  <2>2. Successors(g, n) \subseteq Black
    BY <1>3, <2>1 DEF Successors
  <2>3. ASSUME NEW i \in Depth', NEW e \in Adjacency(g, stack'[i].node) \ stack'[i].todo
        PROVE  \/ g.edges[e].to \in Black'
               \/ i + 1 \in Depth' /\ g.edges[e].to = stack'[i + 1].node
    <3>1. \/ g.edges[e].to \in Black
          \/ i + 1 \in Depth /\ g.edges[e].to = stack[i + 1].node
      BY <1>5, <2>1, <2>3
    <3> QED
      BY <1>3, <1>5, <1>10, <3>1
  <2>4. ASSUME NEW S \in SUBSET Black', S # {} PROVE \E m \in S : Successors(g, m) \cap S = {}
    <3>1. CASE S = {n}
      BY <1>10, <2>2, <3>1
    <3>2. CASE S # {n}
      <4>1. S \ {n} \in SUBSET Black /\ S \ {n} # {}
        BY <1>10, <2>4, <3>2
      <4>2. PICK m \in S \ {n} : Successors(g, m) \cap (S \ {n}) = {}
        BY <2>1, <4>1
      <4>3. n \notin Successors(g, m)
        BY <1>10, <2>1, <4>1
      <4> QED
        BY <4>2, <4>3
    <3> QED
      BY <3>1, <3>2
  <2> QED
    BY <1>1, <1>10, <2>1, <2>2, <2>3, <2>4 DEF NoCycleSoFar
<1>12. CycleReportsSound' /\ PhaseOK'
  BY <1>1, Searching DEF IInv, CycleReportsSound
<1> QED
  BY <1>7, <1>9, <1>11, <1>12 DEF IInv

(* Every node is explored.  Without a cycle met, all are black, and the    *)
(* black nodes are acyclic; a node marked refutes that.                    *)
LEMMA EndCyclesInv ==
  ASSUME IInv, EndCycles
  PROVE  IInv'
<1>1. /\ phase = "cycles" /\ stack = <<>> /\ \A n \in NodeIDs(g) : color[n] # "white"
      /\ issues' = issues \cup CycleIssues
      /\ UNCHANGED <<g, color, stack, inCycle>>
  BY DEF EndCycles, CycleIssues
<1>2. \/ RootUsable(g) /\ phase' = "reach" /\ seen' = {g.root} /\ queue' = {g.root}
      \/ ~RootUsable(g) /\ phase' = "done"
  BY DEF EndCycles
<1>3. Black = NodeIDs(g)
  <2>1. Depth = {}
    BY <1>1 DEF Depth
  <2> QED
    BY <1>1, <2>1 DEF IInv, Typed, StackIsPath, Black
<1>4. inCycle = {} <=> Acyclic(g)
  <2>1. inCycle = {} => Acyclic(g)
    BY <1>3 DEF IInv, NoCycleSoFar, Acyclic
  <2>2. inCycle # {} => ~Acyclic(g)
    BY CycleRefutes DEF IInv, CycleReportsSound
  <2> QED
    BY <2>1, <2>2
<1>5. issues' = RuleIssues \cup CycleIssues
  BY <1>1 DEF IInv, PhaseOK
<1>6. Typed' /\ StackIsPath' /\ NoCycleSoFar' /\ CycleReportsSound'
  BY <1>1, <1>2 DEF IInv, Typed, Frames, Depth, StackIsPath, NoCycleSoFar, Black, CycleReportsSound
<1>7. RuleIssues' = RuleIssues /\ CycleIssues' = CycleIssues
  BY <1>1 DEF RuleIssues, CycleIssues
<1>8. CASE RootUsable(g) /\ phase' = "reach" /\ seen' = {g.root} /\ queue' = {g.root}
  <2>1. g.root \in ReachableFrom(g, g.root)
    BY <1>8, ReachesItself DEF RootUsable
  <2>2. SearchOK'
    BY <1>1, <1>8, <2>1 DEF SearchOK
  <2> QED
    BY <1>1, <1>4, <1>5, <1>6, <1>7, <1>8, <2>2 DEF IInv, PhaseOK
<1>9. CASE ~RootUsable(g) /\ phase' = "done"
  BY <1>1, <1>4, <1>5, <1>6, <1>7, <1>9 DEF IInv, PhaseOK
<1> QED
  BY <1>2, <1>8, <1>9

(* The searches of detectCycles are over.                                  *)
LEMMA CyclesOver ==
  ASSUME IInv, phase = "reach", phase' \in {"reach", "done"}, UNCHANGED <<g, color, stack, inCycle>>
  PROVE  /\ Typed' /\ StackIsPath' /\ NoCycleSoFar' /\ CycleReportsSound'
         /\ stack' = <<>> /\ (inCycle' = {} <=> Acyclic(g'))
         /\ RuleIssues' = RuleIssues /\ CycleIssues' = CycleIssues
         /\ UnreachableIssues' = UnreachableIssues
<1>1. Typed' /\ StackIsPath' /\ NoCycleSoFar' /\ CycleReportsSound'
  BY DEF IInv, Typed, Frames, Depth, StackIsPath, NoCycleSoFar, Black, CycleReportsSound
<1>2. stack' = <<>> /\ (inCycle' = {} <=> Acyclic(g'))
  BY DEF IInv, PhaseOK
<1>3. RuleIssues' = RuleIssues /\ CycleIssues' = CycleIssues /\ UnreachableIssues' = UnreachableIssues
  BY DEF RuleIssues, CycleIssues, UnreachableIssues
<1> QED
  BY <1>1, <1>2, <1>3

LEMMA DequeueInv ==
  ASSUME IInv, NEW cur \in NodeIDs(g), Dequeue(cur)
  PROVE  IInv'
<1>1. /\ phase = "reach" /\ cur \in queue /\ seen' = seen \cup Successors(g, cur)
      /\ queue' = (queue \ {cur}) \cup (Successors(g, cur) \ seen)
      /\ UNCHANGED <<g, phase, color, stack, inCycle, issues>>
  BY DEF Dequeue
<1>2. SearchOK
  BY <1>1 DEF IInv, PhaseOK
<1>3. Successors(g, cur) \subseteq ReachableFrom(g, g.root)
  BY <1>1, <1>2, ReachesOn DEF SearchOK
<1>4. SearchOK'
  BY <1>1, <1>2, <1>3 DEF SearchOK
<1>5. PhaseOK'
  BY <1>1, <1>4, CyclesOver DEF IInv, PhaseOK
<1> QED
  BY <1>1, <1>5, CyclesOver DEF IInv

(* With nothing queued what is seen is closed, and so it is all that is    *)
(* reachable.                                                              *)
LEMMA EndReachInv ==
  ASSUME IInv, EndReach
  PROVE  IInv'
<1>1. /\ phase = "reach" /\ queue = {} /\ phase' = "done"
      /\ issues' = issues \cup {NodeIssue("unreachable_from_root", n) : n \in NodeIDs(g) \ seen}
      /\ UNCHANGED <<g, color, stack, inCycle, seen, queue>>
  BY DEF EndReach
<1>2. SearchOK /\ issues = RuleIssues \cup CycleIssues
  BY <1>1 DEF IInv, PhaseOK
<1>3. seen = ReachableFrom(g, g.root)
  <2>1. seen \in SUBSET NodeIDs(g) /\ g.root \in seen /\ Closed(g, seen)
    BY <1>1, <1>2, ReachableClosed DEF SearchOK, Closed
  <2>2. ReachableFrom(g, g.root) \subseteq seen
    BY <2>1 DEF ReachableFrom
  <2> QED
    BY <1>2, <2>2 DEF SearchOK
<1>4. issues' = RuleIssues \cup CycleIssues \cup UnreachableIssues
  BY <1>1, <1>2, <1>3 DEF UnreachableIssues
<1>5. RootUsable(g)
  BY <1>2 DEF SearchOK
<1>6. PhaseOK'
  BY <1>1, <1>4, <1>5, CyclesOver DEF PhaseOK
<1> QED
  BY <1>1, <1>6, CyclesOver DEF IInv

LEMMA NextInv ==
  ASSUME IInv, [Next]_vars
  PROVE  IInv'
<1>1. CASE CheckRules
  BY <1>1, CheckRulesInv
<1>2. ASSUME NEW n \in NodeIDs(g), PushStart(n) PROVE IInv'
  BY <1>2, PushStartInv
<1>3. ASSUME NEW e \in EdgeIDs(g), Explore(e) PROVE IInv'
  BY <1>3, ExploreInv
<1>4. CASE Finish
  BY <1>4, FinishInv
<1>5. CASE EndCycles
  BY <1>5, EndCyclesInv
<1>6. ASSUME NEW n \in NodeIDs(g), Dequeue(n) PROVE IInv'
  BY <1>6, DequeueInv
<1>7. CASE EndReach
  BY <1>7, EndReachInv
<1>8. CASE UNCHANGED vars
  BY <1>8 DEF vars, IInv, Typed, Frames, Depth, StackIsPath, NoCycleSoFar, Black, CycleReportsSound,
              PhaseOK, RuleIssues, CycleIssues, UnreachableIssues, SearchOK
<1> QED
  BY <1>1, <1>2, <1>3, <1>4, <1>5, <1>6, <1>7, <1>8 DEF Next

LEMMA SpecInv == Spec => []IInv
<1>1. Init => IInv
  BY InitInv
<1>2. IInv /\ [Next]_vars => IInv'
  BY NextInv
<1> QED
  BY <1>1, <1>2, PTL DEF Spec

----------------------------------------------------------------------------
(* A node that detectCycles marks lies on a cycle, in every graph and in   *)
(* every order of its nodes and edges.                                     *)
THEOREM CycleReportsHold == Spec => []CycleReportsSound
<1>1. IInv => CycleReportsSound
  BY DEF IInv
<1> QED
  BY <1>1, SpecInv, PTL

(* The rule checks find nothing exactly in a graph that keeps the rules.   *)
LEMMA RulesDecided ==
  ASSUME NEW h \in InputGraphs
  PROVE  RootIssues(h) \cup EdgeIssues(h) \cup DecisionIssues(h) \cup TerminalIssues(h) = {}
           <=> /\ RootUsable(h)
               /\ \A e \in EdgeIDs(h) : ~Dangling(h, e)
               /\ \A n \in NodeIDs(h) : WellFormedNode(h, n)
<1>1. RootIssues(h) = {} <=> RootUsable(h)
  BY DEF RootIssues, RootUsable
<1>2. EdgeIssues(h) = {} <=> \A e \in EdgeIDs(h) : ~Dangling(h, e)
  BY DEF EdgeIssues
<1>3. DecisionIssues(h) = {} <=>
        \A n \in NodeIDs(h) : h.nodes[n].kind = KindDecision =>
           Adjacency(h, n) # {} /\ h.nodes[n].resolution = NoResolution
  BY DEF DecisionIssues
<1>4. TerminalIssues(h) = {} <=>
        \A n \in NodeIDs(h) : h.nodes[n].kind = KindTerminal =>
           Adjacency(h, n) = {} /\ h.nodes[n].resolution \notin {NoResolution, EmptyResolution}
  BY DEF TerminalIssues
<1>5. DecisionIssues(h) \cup TerminalIssues(h) = {} <=> \A n \in NodeIDs(h) : WellFormedNode(h, n)
  BY <1>3, <1>4, KindsValid DEF WellFormedNode, KindDecision, KindTerminal
<1> QED
  BY <1>1, <1>2, <1>5

(* Validate answers with no issue exactly for a publishable graph, and     *)
(* names exactly the nodes that no path from the root leads to, in every   *)
(* graph and in every order of its nodes and edges.                        *)
THEOREM ValidateDecides == Spec => []DecidesPublishable
<1>1. IInv => DecidesPublishable
  <2> SUFFICES ASSUME IInv, phase = "done" PROVE DecidesPublishable
    BY DEF DecidesPublishable
  <2>1. /\ g \in InputGraphs /\ (inCycle = {} <=> Acyclic(g))
        /\ issues = RuleIssues \cup CycleIssues \cup (IF RootUsable(g) THEN UnreachableIssues ELSE {})
    BY DEF IInv, Typed, PhaseOK
  <2>2. RuleIssues = {} <=> /\ RootUsable(g)
                            /\ \A e \in EdgeIDs(g) : ~Dangling(g, e)
                            /\ \A n \in NodeIDs(g) : WellFormedNode(g, n)
    BY <2>1, RulesDecided DEF RuleIssues
  <2>3. CycleIssues = {} <=> Acyclic(g)
    BY <2>1 DEF CycleIssues
  <2>4. UnreachableIssues = {} <=> NodeIDs(g) \subseteq ReachableFrom(g, g.root)
    BY DEF UnreachableIssues
  <2>5. issues = {} <=> Publishable(g)
    BY <2>1, <2>2, <2>3, <2>4 DEF Publishable
  <2>6. \A i \in RuleIssues \cup CycleIssues : i.reason # "unreachable_from_root"
    BY DEF RuleIssues, RootIssues, EdgeIssues, DecisionIssues, TerminalIssues, CycleIssues,
           NodeIssue, EdgeIssue
  <2>7. \A n : /\ NodeIssue("unreachable_from_root", n).reason = "unreachable_from_root"
               /\ NodeIssue("unreachable_from_root", n).node = n
    BY DEF NodeIssue
  <2>8. \A n \in NodeIDs(g) : NodeIssue("unreachable_from_root", n) \in issues
          <=> RootUsable(g) /\ n \notin ReachableFrom(g, g.root)
    BY <2>1, <2>6, <2>7 DEF UnreachableIssues
  <2> QED
    BY <2>5, <2>8 DEF DecidesPublishable
<1> QED
  BY <1>1, SpecInv, PTL

----------------------------------------------------------------------------
(* Why Validate ends: the work ahead of it, by kind.  No step makes any of *)
(* these sets larger, and every step takes something out of one of them.   *)

PhasesAhead ==
  {p \in {"cycles", "reach", "done"} :
     \/ phase = "rules"
     \/ phase = "cycles" /\ p # "cycles"
     \/ phase = "reach" /\ p = "done"}

(* Nodes to be pushed, edges to be taken, nodes to be finished, nodes to   *)
(* be dequeued.                                                            *)
White == {n \in NodeIDs(g) : color[n] = "white"}

EdgesAhead ==
  {e \in EdgeIDs(g) : \/ \E n \in White : e \in Adjacency(g, n)
                      \/ \E i \in Depth : e \in stack[i].todo}

Unfinished == NodeIDs(g) \ Black

Unexpanded ==
  {n \in NodeIDs(g) : phase \in {"reach", "done"} => n \notin seen \/ n \in queue}

Progress ==
  /\ PhasesAhead' \subseteq PhasesAhead /\ White' \subseteq White
  /\ EdgesAhead' \subseteq EdgesAhead /\ Unfinished' \subseteq Unfinished
  /\ Unexpanded' \subseteq Unexpanded
  /\ \/ PhasesAhead' # PhasesAhead \/ White' # White \/ EdgesAhead' # EdgesAhead
     \/ Unfinished' # Unfinished \/ Unexpanded' # Unexpanded

(* A step of the depth-first search leaves the rest alone.                 *)
LEMMA SearchStep ==
  ASSUME UNCHANGED <<g, phase, seen, queue>>
  PROVE  PhasesAhead' = PhasesAhead /\ Unexpanded' = Unexpanded
BY DEF PhasesAhead, Unexpanded

(* A step outside of it.                                                   *)
LEMMA OtherStep ==
  ASSUME UNCHANGED <<g, color, stack>>
  PROVE  White' = White /\ EdgesAhead' = EdgesAhead /\ Unfinished' = Unfinished
BY DEF White, EdgesAhead, Unfinished, Black, Depth

LEMMA PushStartProgress ==
  ASSUME IInv, NEW n \in NodeIDs(g), PushStart(n)
  PROVE  Progress
<1>1. /\ stack = <<>> /\ color[n] = "white"
      /\ stack' = <<Frame(n)>> /\ color' = [color EXCEPT ![n] = "grey"]
      /\ UNCHANGED <<g, phase, seen, queue>>
  BY DEF PushStart
<1>2. \A m \in NodeIDs(g) : color'[m] = IF m = n THEN "grey" ELSE color[m]
  BY <1>1 DEF IInv, Typed
<1>3. White' = White \ {n} /\ n \in White /\ Unfinished' = Unfinished
  BY <1>1, <1>2 DEF White, Unfinished, Black
<1>4. Depth' = {1} /\ stack'[1].todo = Adjacency(g, n)
  BY <1>1 DEF Depth, Frame
<1>5. EdgesAhead' \subseteq EdgesAhead
  BY <1>1, <1>3, <1>4 DEF EdgesAhead
<1> QED
  BY <1>1, <1>3, <1>5, SearchStep DEF Progress

LEMMA ExploreProgress ==
  ASSUME IInv, NEW e \in EdgeIDs(g), Explore(e)
  PROVE  Progress
<1>1. stack # <<>> /\ e \in Top.todo /\ UNCHANGED <<g, phase, seen, queue>>
  BY DEF Explore
<1>2. PICK n \in NodeIDs(g) : n = g.edges[e].to
  BY <1>1, TopEdge
<1>3. CASE color[n] = "white" /\ color' = [color EXCEPT ![n] = "grey"]
           /\ stack' = Append(Rest(e), Frame(n))
  <2>1. \A m \in NodeIDs(g) : color'[m] = IF m = n THEN "grey" ELSE color[m]
    BY <1>3 DEF IInv, Typed
  <2>2. White' = White \ {n} /\ n \in White /\ Unfinished' = Unfinished
    BY <1>1, <1>3, <2>1 DEF White, Unfinished, Black
  <2>3. Frame(n) \in Frames /\ Frame(n).todo = Adjacency(g, n)
    BY DEF Frame, Frames, Adjacency, OutgoingEdges
  <2>4. /\ \A i \in Depth : Rest(e)[i].todo \subseteq stack[i].todo
        /\ Rest(e) \in Seq(Frames) /\ Len(Rest(e)) = Len(stack) /\ Len(stack) \in Nat
    BY <1>1, RestOK, TopEdge DEF Top
  <2>5. \A i \in Depth' : \/ i \in Depth /\ stack'[i] = Rest(e)[i]
                          \/ stack'[i] = Frame(n)
    BY <1>3, <2>3, <2>4, AppendProperties DEF Depth
  <2>6. EdgesAhead' \subseteq EdgesAhead
    <3> SUFFICES ASSUME NEW f \in EdgeIDs(g), f \in EdgesAhead' PROVE f \in EdgesAhead
      BY <1>1 DEF EdgesAhead
    <3>1. CASE \E m \in White' : f \in Adjacency(g, m)
      BY <2>2, <3>1 DEF EdgesAhead
    <3>2. CASE \E i \in Depth' : f \in stack'[i].todo
      <4>1. PICK i \in Depth' : f \in stack'[i].todo
        BY <3>2
      <4>2. CASE i \in Depth /\ stack'[i] = Rest(e)[i]
        BY <2>4, <4>1, <4>2 DEF EdgesAhead
      <4>3. CASE stack'[i] = Frame(n)
        BY <2>2, <2>3, <4>1, <4>3 DEF EdgesAhead
      <4> QED
        BY <2>5, <4>2, <4>3
    <3> QED
      BY <1>1, <3>1, <3>2 DEF EdgesAhead
  <2> QED
    BY <1>1, <2>2, <2>6, SearchStep DEF Progress
<1>4. CASE stack' = Rest(e) /\ UNCHANGED color
  <2>1. /\ Depth' = Depth
        /\ \A i \in Depth : stack'[i].node = stack[i].node
        /\ \A i \in Depth : stack'[i].todo \subseteq stack[i].todo
        /\ stack'[Len(stack)].todo = Top.todo \ {e}
    BY <1>1, <1>4, RestOK, TakeOff
  <2>2. White' = White /\ Unfinished' = Unfinished
    BY <1>1, <1>4 DEF White, Unfinished, Black
  <2>3. EdgesAhead' \subseteq EdgesAhead
    BY <1>1, <2>1, <2>2 DEF EdgesAhead
  <2>4. e \in EdgesAhead
    BY <1>1, TopEdge DEF EdgesAhead, Top
  <2>5. e \notin EdgesAhead'
    <3>1. g.edges[e].from = Top.node
      BY <1>1, TopEdge DEF Adjacency, OutgoingEdges
    <3>2. Top.node \notin White
      BY <1>1, TopEdge DEF IInv, StackIsPath, White, Top
    <3>3. ASSUME NEW i \in Depth, e \in stack'[i].todo PROVE FALSE
      <4>1. i # Len(stack)
        BY <2>1, <3>3
      <4>2. e \in Adjacency(g, stack[i].node)
        BY <2>1, <3>3 DEF IInv, Typed
      <4>3. stack[i].node = stack[Len(stack)].node
        BY <3>1, <4>2 DEF Adjacency, OutgoingEdges, Top
      <4> QED
        BY <1>1, <4>1, <4>3, TopEdge DEF IInv, StackIsPath
    <3>4. \A m \in White : e \notin Adjacency(g, m)
      BY <3>1, <3>2 DEF Adjacency, OutgoingEdges
    <3> QED
      BY <1>1, <2>1, <2>2, <3>3, <3>4 DEF EdgesAhead
  <2> QED
    BY <1>1, <2>2, <2>3, <2>4, <2>5, SearchStep DEF Progress
<1> QED
  BY <1>2, <1>3, <1>4 DEF Explore, Rest

LEMMA FinishProgress ==
  ASSUME IInv, Finish
  PROVE  Progress
<1>1. /\ stack # <<>> /\ color' = [color EXCEPT ![Top.node] = "black"]
      /\ stack' = SubSeq(stack, 1, Len(stack) - 1)
      /\ UNCHANGED <<g, phase, seen, queue>>
  BY DEF Finish
<1>2. PICK n \in NodeIDs(g) : n = Top.node
  BY <1>1, TopEdge
<1>3. color[n] = "grey"
  BY <1>1, <1>2, TopEdge DEF IInv, StackIsPath, Top
<1>4. \A m \in NodeIDs(g) : color'[m] = IF m = n THEN "black" ELSE color[m]
  BY <1>1, <1>2 DEF IInv, Typed
<1>5. White' = White /\ Unfinished' = Unfinished \ {n} /\ n \in Unfinished
  BY <1>1, <1>3, <1>4 DEF White, Unfinished, Black
<1>6. \A i \in Depth' : i \in Depth /\ stack'[i] = stack[i]
  <2>1. stack \in Seq(Frames) /\ Len(stack) \in Nat /\ Len(stack) >= 1
    BY <1>1, TopEdge DEF IInv, Typed, Depth
  <2>2. Len(stack) - 1 \in 0..Len(stack)
    BY <2>1
  <2>3. PICK l \in 0..Len(stack) : l = Len(stack) - 1
    BY <2>2
  <2>4. Len(SubSeq(stack, 1, l)) = l /\ \A i \in 1..l : SubSeq(stack, 1, l)[i] = stack[i]
    BY <2>1
  <2> QED
    BY <1>1, <2>1, <2>3, <2>4 DEF Depth
<1>7. EdgesAhead' \subseteq EdgesAhead
  BY <1>1, <1>5, <1>6 DEF EdgesAhead
<1> QED
  BY <1>1, <1>5, <1>7, SearchStep DEF Progress

LEMMA DequeueProgress ==
  ASSUME IInv, NEW cur \in NodeIDs(g), Dequeue(cur)
  PROVE  Progress
<1>1. /\ phase = "reach" /\ cur \in queue /\ seen' = seen \cup Successors(g, cur)
      /\ queue' = (queue \ {cur}) \cup (Successors(g, cur) \ seen)
      /\ UNCHANGED <<g, phase, color, stack>>
  BY DEF Dequeue
<1>2. cur \in seen
  BY <1>1 DEF IInv, PhaseOK, SearchOK
<1>3. Unexpanded' \subseteq Unexpanded /\ cur \in Unexpanded /\ cur \notin Unexpanded'
  BY <1>1, <1>2 DEF Unexpanded
<1>4. PhasesAhead' = PhasesAhead
  BY <1>1 DEF PhasesAhead
<1> QED
  BY <1>1, <1>3, <1>4, OtherStep DEF Progress

LEMMA PhaseProgress ==
  ASSUME CheckRules \/ EndCycles \/ EndReach
  PROVE  Progress
<1>1. UNCHANGED <<g, color, stack>>
  BY DEF CheckRules, EndCycles, EndReach
<1>2. PhasesAhead' \subseteq PhasesAhead /\ PhasesAhead' # PhasesAhead
  <2>1. CASE phase = "rules" /\ phase' = "cycles"
    BY <2>1 DEF PhasesAhead
  <2>2. CASE phase = "cycles" /\ phase' \in {"reach", "done"}
    BY <2>2 DEF PhasesAhead
  <2>3. CASE phase = "reach" /\ phase' = "done"
    BY <2>3 DEF PhasesAhead
  <2> QED
    BY <2>1, <2>2, <2>3 DEF CheckRules, EndCycles, EndReach
<1>3. Unexpanded' \subseteq Unexpanded
  BY DEF Unexpanded, CheckRules, EndCycles, EndReach
<1> QED
  BY <1>1, <1>2, <1>3, OtherStep DEF Progress

(* Both loops of Validate make progress on every graph, cyclic or not, and *)
(* in every order of its nodes and edges: each step takes something out of *)
(* the work ahead and adds nothing to it.  On a graph of N nodes and E     *)
(* edges Validate therefore takes at most 3 + 3 N + E steps.               *)
THEOREM ValidateProgresses == Spec => [][Progress]_vars
<1>1. ASSUME IInv, Next PROVE Progress
  BY <1>1, PushStartProgress, ExploreProgress, FinishProgress, DequeueProgress, PhaseProgress
     DEF Next
<1>2. IInv /\ [Next]_vars => [Progress]_vars
  BY <1>1
<1> QED
  BY <1>2, SpecInv, PTL DEF Spec

=============================================================================
