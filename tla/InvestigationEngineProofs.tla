---------------------- MODULE InvestigationEngineProofs ----------------------
(***************************************************************************)
(* Proofs about InvestigationEngine, for any clients, investigations,      *)
(* keys, bodies and publishable graphs: its invariants and action          *)
(* properties, that it implements AuditTrail, and that what ReportOverlay  *)
(* draws of its responses is the walk they tell.                           *)
(***************************************************************************)
EXTENDS InvestigationRefinement, ReportOverlay, SequenceTheorems, FiniteSetTheorems, TLAPS

----------------------------------------------------------------------------
(* Facts about a publishable graph and about the domain rules.             *)

(* In a published graph every edge joins two nodes, the root is a node and *)
(* every node obeys the rules of its kind.                                 *)
LEMMA GraphFacts ==
  ASSUME NEW v \in Versions
  PROVE  /\ Graph[v].root \in NodeIDs(Graph[v])
         /\ \A e \in EdgeIDs(Graph[v]) : /\ Graph[v].edges[e].from \in NodeIDs(Graph[v])
                                         /\ Graph[v].edges[e].to \in NodeIDs(Graph[v])
         /\ \A n \in NodeIDs(Graph[v]) : WellFormedNode(Graph[v], n)
         /\ Acyclic(Graph[v])
  BY GraphsPublishable DEF Publishable, RootUsable, Dangling

(* Arrive settles a row that has just been placed on a node.               *)
LEMMA ArriveSettles ==
  ASSUME NEW r \in InvestigationRow,
         r.current \in NodeIDs(Graph[r.version]),
         r.status = "in_progress", r.resolution = NoResolution
  PROVE  /\ Arrive(r) \in InvestigationRow
         /\ Arrive(r).version = r.version
         /\ Arrive(r).current = r.current
         /\ Settled(Arrive(r))
<1> DEFINE node == Graph[r.version].nodes[r.current]
<1>1. r.version \in Versions
  BY DEF InvestigationRow
<1>2. WellFormedNode(Graph[r.version], r.current)
  BY <1>1, GraphFacts
<1>3. CASE node.kind = KindTerminal
  <2>1. node.resolution \in Resolutions
    BY <1>1 DEF Resolutions
  <2>2. Arrive(r) = [r EXCEPT !.status = "completed", !.resolution = node.resolution]
    BY <1>3 DEF Arrive
  <2>3. Arrive(r) \in InvestigationRow /\ Arrive(r).version = r.version
        /\ Arrive(r).current = r.current /\ Arrive(r).status = "completed"
        /\ Arrive(r).resolution = node.resolution
    BY <2>1, <2>2 DEF InvestigationRow
  <2> QED
    BY <1>3, <2>3 DEF Settled, IsCompleted
<1>4. CASE node.kind # KindTerminal
  <2>1. Arrive(r) = r
    BY <1>4 DEF Arrive
  <2>2. node.kind = KindDecision /\ Adjacency(Graph[r.version], r.current) # {}
    BY <1>2, <1>4 DEF WellFormedNode
  <2>3. ChoicesFor(r) # {}
    BY <2>2 DEF ChoicesFor, IsCompleted, Adjacency
  <2> QED
    BY <2>1, <2>2, <2>3 DEF Settled, IsCompleted
<1> QED
  BY <1>3, <1>4

LEMMA StartSettles ==
  ASSUME NEW v \in Versions
  PROVE  /\ StartRow(v) \in InvestigationRow
         /\ StartRow(v).version = v
         /\ StartRow(v).current = Graph[v].root
         /\ Settled(StartRow(v))
<1> DEFINE r == [version |-> v, status |-> "in_progress",
                 current |-> Graph[v].root, resolution |-> NoResolution]
<1>1. r \in InvestigationRow /\ r.current \in NodeIDs(Graph[r.version])
  BY GraphFacts DEF InvestigationRow, Nodes
<1> QED
  BY <1>1, ArriveSettles DEF StartRow

LEMMA DecideSettles ==
  ASSUME NEW r \in InvestigationRow, Settled(r), ~IsCompleted(r),
         NEW e, Legal(r, e)
  PROVE  /\ DecideRow(r, e) \in InvestigationRow
         /\ DecideRow(r, e).version = r.version
         /\ DecideRow(r, e).current = EdgeOf(r, e).to
         /\ Settled(DecideRow(r, e))
<1> DEFINE q == [r EXCEPT !.current = EdgeOf(r, e).to]
<1>1. r.version \in Versions
  BY DEF InvestigationRow
<1>2. EdgeOf(r, e).to \in NodeIDs(Graph[r.version])
  BY <1>1, GraphFacts DEF Legal, EdgeOf
<1>3. q \in InvestigationRow /\ q.version = r.version /\ q.current = EdgeOf(r, e).to
      /\ q.status = "in_progress" /\ q.resolution = NoResolution
  BY <1>1, <1>2 DEF InvestigationRow, Nodes, Settled, IsCompleted
<1> QED
  BY <1>2, <1>3, ArriveSettles DEF DecideRow

----------------------------------------------------------------------------
(* The largest of a set of numbers, when there is one.                     *)
LEMMA MaxIs ==
  ASSUME NEW S \in SUBSET Nat, NEW m \in S, \A k \in S : m >= k
  PROVE  Max(S) = m
<1>1. Max(S) \in S /\ \A k \in S : Max(S) >= k
  BY DEF Max
<1>2. Max(S) \in Nat /\ m \in Nat /\ Max(S) >= m /\ m >= Max(S)
  BY <1>1
<1> QED
  BY <1>2

(* The next sequence number of a numbered trail is one past its last step. *)
LEMMA NextNumber ==
  ASSUME NEW trail \in SUBSET StepRow, NEW r, EndsAt(r, trail), Numbered(trail)
  PROVE  LET n == NextSequenceNumber(trail)
         IN  /\ n \in Nat /\ n >= 1
             /\ \A s \in trail : s.seq < n
             /\ n = 1 <=> trail = {}
             /\ n > 1 => \E s \in trail : s.seq = n - 1 /\ r.current = EdgeOf(r, s.edge).to
             /\ trail = {} => r.current = Graph[r.version].root
<1> DEFINE S == {s.seq : s \in trail} \cup {0}
<1>0. S \subseteq Nat
  BY DEF StepRow
<1>1. CASE trail = {}
  <2>1. S = {0}
    BY <1>1
  <2>2. Max(S) = 0
    BY <2>1 DEF Max
  <2> QED
    BY <1>1, <2>2 DEF NextSequenceNumber, EndsAt
<1>2. CASE trail # {}
  <2>1. PICK s \in trail : /\ \A t \in trail : t.seq <= s.seq
                           /\ r.current = EdgeOf(r, s.edge).to
    BY <1>2 DEF EndsAt
  <2>2. s.seq \in S /\ s.seq >= 1 /\ s.seq \in Nat
    BY <1>0 DEF Numbered
  <2>3. \A k \in S : s.seq >= k
    BY <2>1, <2>2, <1>0
  <2>4. Max(S) = s.seq
    BY <2>2, <2>3, <1>0, MaxIs
  <2>5. NextSequenceNumber(trail) = s.seq + 1
    BY <2>4 DEF NextSequenceNumber
  <2>6. \A t \in trail : t.seq \in Nat /\ t.seq < s.seq + 1
    BY <2>1, <2>2, <1>0
  <2>7. s.seq + 1 \in Nat /\ s.seq + 1 > 1 /\ s.seq = (s.seq + 1) - 1
    BY <2>2
  <2> QED
    BY <1>2, <2>1, <2>5, <2>6, <2>7
<1> QED
  BY <1>1, <1>2

(* The step that InsertStep appends.                                       *)
NewStep(r, trail, e, b, k) ==
  [seq |-> NextSequenceNumber(trail), node |-> r.current, edge |-> e, body |-> b, key |-> k]

(* A legal decision prolongs the story.                                    *)
LEMMA StoryGrows ==
  ASSUME NEW r \in InvestigationRow, Settled(r), ~IsCompleted(r),
         NEW trail \in SUBSET StepRow, OneStory(r, trail),
         NEW e \in EdgeRefs, Legal(r, e),
         NEW b \in Bodies, NEW k \in Keys \cup {NoKey}
  PROVE  /\ NewStep(r, trail, e, b, k) \in StepRow
         /\ OneStory(DecideRow(r, e), trail \cup {NewStep(r, trail, e, b, k)})
<1> DEFINE q == DecideRow(r, e)
           new == NewStep(r, trail, e, b, k)
           n == NextSequenceNumber(trail)
           T == trail \cup {new}
<1>1. /\ q.version = r.version /\ q.current = EdgeOf(r, e).to
  BY DecideSettles
<1>2. Numbered(trail) /\ Connected(r, trail) /\ EndsAt(r, trail)
  BY DEF OneStory
<1>3. /\ n \in Nat /\ n >= 1
      /\ \A s \in trail : s.seq < n
      /\ n = 1 <=> trail = {}
      /\ n > 1 => \E s \in trail : s.seq = n - 1 /\ r.current = EdgeOf(r, s.edge).to
      /\ trail = {} => r.current = Graph[r.version].root
  BY <1>2, NextNumber
<1>4. /\ new.seq = n /\ new.node = r.current /\ new.edge = e
      /\ new.body = b /\ new.key = k
  BY DEF NewStep
<1>5. new \in StepRow
  BY <1>3 DEF NewStep, StepRow, Settled, InvestigationRow
<1>6. \A s \in trail : s.seq \in Nat /\ s.seq >= 1 /\ s.seq < n
  BY <1>2, <1>3 DEF Numbered, StepRow
<1> HIDE DEF q, new, n
<1>7. Numbered(T)
  <2>1. \A s, t \in T : s.seq = t.seq => s = t
    BY <1>2, <1>3, <1>4, <1>6 DEF Numbered
  <2>2. ASSUME NEW s \in T
        PROVE  s.seq >= 1 /\ \A j \in 1..s.seq : \E t \in T : t.seq = j
    <3>1. CASE s \in trail
      BY <3>1, <1>2 DEF Numbered
    <3>2. CASE s = new
      <4>1. s.seq = n /\ n >= 1
        BY <3>2, <1>3, <1>4
      <4>2. ASSUME NEW j \in 1..n
            PROVE  \E t \in T : t.seq = j
        <5>1. CASE j = n
          BY <5>1, <1>4
        <5>2. CASE j # n
          <6>1. n > 1 /\ j \in 1..(n - 1)
            BY <5>2, <1>3
          <6>2. PICK u \in trail : u.seq = n - 1
            BY <6>1, <1>3
          <6>3. \E t \in trail : t.seq = j
            BY <6>1, <6>2, <1>2 DEF Numbered
          <6> QED
            BY <6>3
        <5> QED
          BY <5>1, <5>2
      <4> QED
        BY <4>1, <4>2
    <3> QED
      BY <3>1, <3>2
  <2> QED
    BY <2>1, <2>2 DEF Numbered
<1>8. \A f : EdgeOf(q, f) = EdgeOf(r, f)
  BY <1>1 DEF EdgeOf
<1>9. Connected(q, T)
  <2>1. \A s \in T : s.edge \in EdgeIDs(Graph[q.version]) /\ EdgeOf(q, s.edge).from = s.node
    BY <1>1, <1>2, <1>4, <1>8 DEF Connected, Legal
  <2>2. \A s \in T : s.seq = 1 => s.node = Graph[q.version].root
    BY <1>1, <1>2, <1>3, <1>4 DEF Connected
  <2>3. ASSUME NEW s \in T, NEW t \in T, t.seq = s.seq + 1
        PROVE  t.node = EdgeOf(q, s.edge).to
    <3>1. CASE s \in trail /\ t \in trail
      BY <3>1, <2>3, <1>2, <1>8 DEF Connected
    <3>2. CASE s = new
      BY <3>2, <2>3, <1>3, <1>4, <1>6
    <3>3. CASE s \in trail /\ t = new
      <4>1. n > 1 /\ s.seq = n - 1
        BY <3>3, <2>3, <1>3, <1>4, <1>6
      <4>2. PICK u \in trail : u.seq = n - 1 /\ r.current = EdgeOf(r, u.edge).to
        BY <4>1, <1>3
      <4>3. u = s
        BY <4>1, <4>2, <3>3, <1>2 DEF Numbered
      <4> QED
        BY <4>2, <4>3, <3>3, <1>4, <1>8
    <3> QED
      BY <3>1, <3>2, <3>3
  <2> QED
    BY <2>1, <2>2, <2>3 DEF Connected
<1>10. EndsAt(q, T)
  <2>1. \A t \in T : t.seq <= new.seq
    BY <1>3, <1>4, <1>6
  <2> QED
    BY <2>1, <1>1, <1>4, <1>8 DEF EndsAt
<1> QED
  BY <1>5, <1>7, <1>9, <1>10 DEF OneStory, q, new, T

(* In a published graph every set of nodes has one that leads out of it.   *)
LEMMA SetHasExit ==
  ASSUME NEW v \in Versions, NEW S \in SUBSET NodeIDs(Graph[v]), NEW m \in S
  PROVE  \E n \in S : Successors(Graph[v], n) \cap S = {}
<1>1. Acyclic(Graph[v])
  BY GraphFacts
<1>2. S # {}
  OBVIOUS
<1> QED
  BY <1>1, <1>2, Zenon DEF Acyclic

(* An acyclic graph is never walked through the same node twice.           *)
LEMMA StoryNeverRevisits ==
  ASSUME NEW r \in InvestigationRow, NEW trail \in SUBSET StepRow, OneStory(r, trail),
         NEW s \in trail, NEW t \in trail, s.node = t.node
  PROVE  s = t
<1> DEFINE g == Graph[r.version]
<1>1. Numbered(trail) /\ Connected(r, trail)
  BY DEF OneStory
<1>2. \A u \in trail : u.seq \in Nat /\ u.seq >= 1
  BY <1>1 DEF Numbered, StepRow
<1>3. ASSUME NEW a \in trail, NEW b \in trail, a.node = b.node, a.seq < b.seq
      PROVE  FALSE
  <2> DEFINE between(u) == a.seq <= u.seq /\ u.seq < b.seq
             S == {u.node : u \in {w \in trail : between(w)}}
  <2>1. r.version \in Versions
    BY DEF InvestigationRow
  <2>2. \A u \in trail : /\ u.edge \in EdgeIDs(g) /\ g.edges[u.edge].from = u.node
                         /\ g.edges[u.edge].to \in NodeIDs(g) /\ u.node \in NodeIDs(g)
    BY <2>1, <1>1, GraphFacts DEF Connected, EdgeOf
  <2>3. S \in SUBSET NodeIDs(g) /\ a.node \in S
    BY <2>2, <1>2, <1>3
  <2>4. PICK n \in S : Successors(g, n) \cap S = {}
    BY <2>1, <2>3, SetHasExit
  <2>5. PICK u \in trail : between(u) /\ n = u.node
    BY <2>4
  <2>6. g.edges[u.edge].to \in Successors(g, n)
    BY <2>2, <2>5 DEF Successors, Adjacency, OutgoingEdges, Dangling
  <2>7. PICK w \in trail : w.seq = u.seq + 1
    <3>1. u.seq + 1 \in 1..b.seq
      BY <2>5, <1>2
    <3> QED
      BY <3>1, <1>1 DEF Numbered
  <2>8. w.node = g.edges[u.edge].to
    BY <2>7, <1>1 DEF Connected, EdgeOf
  <2>9. w.node \in S
    <3>1. CASE w.seq < b.seq
      BY <3>1, <2>5, <2>7, <1>2
    <3>2. CASE w.seq = b.seq
      BY <3>2, <2>3, <1>1, <1>3 DEF Numbered
    <3> QED
      BY <3>1, <3>2, <2>5, <2>7, <1>2
  <2> QED
    BY <2>4, <2>6, <2>8, <2>9
<1>4. s.seq = t.seq
  BY <1>2, <1>3
<1> QED
  BY <1>1, <1>4 DEF Numbered

----------------------------------------------------------------------------
(***************************************************************************)
(* The inductive invariant.  TrailMatchesPointer alone is not inductive:   *)
(* what a commit will write was computed several statements earlier, so    *)
(* each client's transaction must be known to still describe the database. *)
(* It does because the client holds the row lock.                          *)
(***************************************************************************)
Locked == {"find", "decide", "insert", "commit"}

(* The transaction of c holds its lock, has read the current row and will  *)
(* write what Decide makes of it.                                          *)
TransactionOK(c) ==
  /\ pc[c] # "idle" => want[c] \in Request
  /\ pc[c] \in Locked \cup {"lock"} => want[c].op = "decide"
  /\ pc[c] \in Locked => /\ lock[Inv(c)] = c
                         /\ investigations[Inv(c)] # NoRow
                         /\ row[c] = investigations[Inv(c)]
  /\ pc[c] \in {"decide", "insert", "commit"} => ~KeyTaken(c)
  /\ pc[c] \in {"insert", "commit"} => /\ ~IsCompleted(row[c])
                                       /\ Legal(row[c], want[c].edge)
                                       /\ next[c] = DecideRow(row[c], want[c].edge)
  /\ pc[c] = "commit" => step[c] = NewStep(row[c], steps[Inv(c)], want[c].edge,
                                           want[c].body, want[c].key)
  /\ pc[c] # "commit" => step[c] = NoStep

(* The step that the decision of c asks for.                               *)
Records(c, s) == s \in steps[Inv(c)] /\ s.key = want[c].key /\ Equivalent(c, s)

(* The response of c shows one story, in which its decision appears, and a *)
(* row that is completed exactly on a terminal node.                       *)
ResponseOK(c) ==
  /\ pc[c] = "read" /\ want[c].op = "decide" => \E s \in steps[Inv(c)] : Records(c, s)
  /\ answer[c] = "OK" => pc[c] = "answered"
  /\ pc[c] = "steps" \/ answer[c] = "OK" =>
       /\ view[c] \in [inv : InvestigationRow, steps : SUBSET StepRow]
       /\ OneStory(view[c].inv, view[c].steps) /\ Settled(view[c].inv)
       /\ want[c].op = "decide" => \E s \in view[c].steps : Records(c, s)

TablesOK == TrailMatchesPointer /\ CompletedExactlyAtTerminal /\ OneStepPerKey

IInv ==
  /\ TypeOK
  /\ TablesOK
  /\ \A c \in Clients : TransactionOK(c) /\ ResponseOK(c)

----------------------------------------------------------------------------
(* What the invariant says of an investigation that has been started.      *)
LEMMA StartedFacts ==
  ASSUME TypeOK, TablesOK, NEW i \in Investigations, investigations[i] # NoRow
  PROVE  /\ investigations[i] \in InvestigationRow /\ Settled(investigations[i])
         /\ steps[i] \in SUBSET StepRow /\ OneStory(investigations[i], steps[i])
<1>1. investigations[i] \in InvestigationRow /\ steps[i] \in SUBSET StepRow
  BY DEF TypeOK
<1>2. OneStory(investigations[i], steps[i])
  BY DEF TablesOK, TrailMatchesPointer
<1>3. Settled(investigations[i])
  BY DEF TablesOK, CompletedExactlyAtTerminal
<1> QED
  BY <1>1, <1>2, <1>3

(* What the fields of a request are.                                       *)
LEMMA RequestFields ==
  ASSUME NEW w \in Request
  PROVE  /\ w.inv \in Investigations
         /\ w.op = "decide" => /\ w.edge \in EdgeRefs /\ w.body \in Bodies
                               /\ w.key \in Keys \cup {NoKey}
  BY DEF Request

(* A step of one client leaves the invariant of another alone as long as   *)
(* it neither takes the other's lock nor changes a row under that lock,    *)
(* and only adds steps.                                                    *)
LEMMA OthersUndisturbed ==
  ASSUME NEW d \in Clients, TransactionOK(d), ResponseOK(d), TypeOK,
         pc'[d] = pc[d], want'[d] = want[d], row'[d] = row[d], next'[d] = next[d],
         step'[d] = step[d], view'[d] = view[d], answer'[d] = answer[d],
         \A i \in Investigations :
           /\ steps[i] \subseteq steps'[i]
           /\ lock[i] = d => /\ lock'[i] = d /\ steps'[i] = steps[i]
                             /\ investigations'[i] = investigations[i]
  PROVE  TransactionOK(d)' /\ ResponseOK(d)'
<1>1. pc[d] # "idle" => Inv(d) \in Investigations /\ Inv(d)' = Inv(d)
  BY RequestFields DEF TransactionOK, Inv
<1>2. pc[d] \in Locked => pc[d] # "idle"
  BY DEF Locked
<1>3. pc[d] \in Locked => /\ lock[Inv(d)] = d /\ lock'[Inv(d)] = d
                          /\ steps'[Inv(d)] = steps[Inv(d)]
                          /\ investigations'[Inv(d)] = investigations[Inv(d)]
  BY <1>1, <1>2 DEF TransactionOK
<1>4. pc[d] \in Locked => KeyTaken(d)' = KeyTaken(d)
  BY <1>1, <1>2, <1>3 DEF KeyTaken, StepsUnderKey
<1>5. TransactionOK(d)'
  BY <1>1, <1>2, <1>3, <1>4 DEF TransactionOK, Locked
<1>6. \A s : pc[d] # "idle" /\ Records(d, s) => Records(d, s)'
  BY <1>1 DEF Records, Equivalent
<1>7. pc[d] # "idle" => steps[Inv(d)] \subseteq steps'[Inv(d)']
  BY <1>1
<1>8. ResponseOK(d)'
  BY <1>1, <1>6, <1>7 DEF ResponseOK
<1> QED
  BY <1>5, <1>8

(* A step that leaves the tables alone leaves their invariants alone.      *)
LEMMA TablesUndisturbed ==
  ASSUME TablesOK, UNCHANGED <<investigations, steps>>
  PROVE  TablesOK'
  BY DEF TablesOK, TrailMatchesPointer, CompletedExactlyAtTerminal, OneStepPerKey

(* The end of a transaction touches nobody else's lock.                    *)
LEMMA LocksOfOthers ==
  ASSUME TypeOK, NEW c \in Clients, EndTransaction(c)
  PROVE  /\ \A i \in Investigations : \A d \in Clients \ {c} : lock[i] = d => lock'[i] = d
         /\ lock' \in [Investigations -> Clients \cup {NoClient}]
  BY DEF TypeOK, EndTransaction

----------------------------------------------------------------------------
(* Every action preserves the invariant.                                   *)

LEMMA InitKeeps == Init => IInv
<1> SUFFICES ASSUME Init PROVE IInv
  OBVIOUS
<1>1. TypeOK
  BY DEF Init, TypeOK, Labels, Codes
<1>2. TablesOK
  BY DEF Init, TablesOK, TrailMatchesPointer, CompletedExactlyAtTerminal, OneStepPerKey
<1>3. \A c \in Clients : TransactionOK(c) /\ ResponseOK(c)
  BY DEF Init, TransactionOK, ResponseOK, Locked
<1> QED
  BY <1>1, <1>2, <1>3 DEF IInv

(* A new investigation has no steps and nobody holds its lock.             *)
LEMMA StartKeeps ==
  ASSUME IInv, NEW i \in Investigations, NEW v \in Versions, StartInvestigation(i, v)
  PROVE  IInv'
<1>1. /\ StartRow(v) \in InvestigationRow /\ StartRow(v) # NoRow
      /\ StartRow(v).version = v /\ StartRow(v).current = Graph[v].root /\ Settled(StartRow(v))
  BY StartSettles, NothingIsDistinct
<1>2. TypeOK'
  BY <1>1 DEF IInv, TypeOK, StartInvestigation
<1>3. /\ investigations'[i] = StartRow(v) /\ steps'[i] = {} /\ steps' = steps
      /\ \A j \in Investigations \ {i} : investigations'[j] = investigations[j]
  BY DEF IInv, TypeOK, TablesOK, TrailMatchesPointer, StartInvestigation
<1>4. OneStory(StartRow(v), {})
  BY <1>1 DEF OneStory, Numbered, Connected, EndsAt
<1>5. TablesOK'
  <2>1. TrailMatchesPointer'
    BY <1>1, <1>3, <1>4 DEF IInv, TablesOK, TrailMatchesPointer
  <2>2. CompletedExactlyAtTerminal'
    BY <1>1, <1>3 DEF IInv, TablesOK, CompletedExactlyAtTerminal
  <2>3. OneStepPerKey'
    BY <1>3 DEF IInv, TablesOK, OneStepPerKey
  <2> QED
    BY <2>1, <2>2, <2>3 DEF TablesOK
<1>6. ASSUME NEW d \in Clients
      PROVE  TransactionOK(d)' /\ ResponseOK(d)'
  <2>1. TransactionOK(d) /\ ResponseOK(d)
    BY DEF IInv
  <2>2. UNCHANGED <<steps, lock, pc, want, row, next, step, view, answer>>
    BY DEF StartInvestigation
  <2>3. pc[d] \in Locked => Inv(d) # i
    BY <2>1 DEF TransactionOK, StartInvestigation
  <2>4. pc[d] \in Locked => Inv(d) \in Investigations
    BY <2>1, RequestFields DEF TransactionOK, Inv, Locked
  <2>5. pc[d] \in Locked => investigations'[Inv(d)] = investigations[Inv(d)]
    BY <2>3, <2>4, <1>3
  <2>6. /\ Inv(d)' = Inv(d) /\ KeyTaken(d)' = KeyTaken(d)
        /\ \A s : Records(d, s)' = Records(d, s)
    BY <2>2 DEF Inv, KeyTaken, StepsUnderKey, Records, Equivalent
  <2>7. TransactionOK(d)'
    BY <2>1, <2>2, <2>5, <2>6 DEF TransactionOK, Locked
  <2>8. ResponseOK(d)'
    BY <2>1, <2>2, <2>6 DEF ResponseOK
  <2> QED
    BY <2>7, <2>8
<1> QED
  BY <1>2, <1>5, <1>6 DEF IInv

(* A transaction that rolls back leaves no trace but its answer.           *)
LEMMA RollbackKeeps ==
  ASSUME IInv, NEW c \in Clients, pc[c] # "idle",
         NEW code \in Codes \ {"OK"}, Rollback(c, code)
  PROVE  IInv'
<1>1. TypeOK /\ TablesOK /\ \A d \in Clients : TransactionOK(d) /\ ResponseOK(d)
  BY DEF IInv
<1>2. TypeOK'
  BY <1>1, LocksOfOthers DEF TypeOK, Rollback, Answer, Goto, EndTransaction, Labels
<1>3. TablesOK'
  BY <1>1, TablesUndisturbed DEF Rollback
<1>4. ASSUME NEW d \in Clients \ {c}
      PROVE  TransactionOK(d)' /\ ResponseOK(d)'
  <2>1. /\ pc'[d] = pc[d] /\ want'[d] = want[d] /\ row'[d] = row[d] /\ next'[d] = next[d]
        /\ step'[d] = step[d] /\ view'[d] = view[d] /\ answer'[d] = answer[d]
        /\ UNCHANGED <<investigations, steps>>
    BY <1>1 DEF TypeOK, Rollback, Answer, Goto, EndTransaction
  <2>2. \A i \in Investigations : lock[i] = d => lock'[i] = d
    BY <1>1, LocksOfOthers DEF Rollback
  <2> QED
    BY <1>1, <2>1, <2>2, OthersUndisturbed
<1>5. /\ pc'[c] = "answered" /\ answer'[c] = code /\ want'[c] = want[c] /\ step'[c] = NoStep
  BY <1>1 DEF TypeOK, Rollback, Answer, Goto, EndTransaction
<1>6. TransactionOK(c)' /\ ResponseOK(c)'
  BY <1>1, <1>5 DEF TransactionOK, ResponseOK, Locked
<1> QED
  BY <1>2, <1>3, <1>4, <1>6 DEF IInv

(* Nothing of d changes.                                                   *)
Idles(d) ==
  /\ pc'[d] = pc[d] /\ want'[d] = want[d] /\ row'[d] = row[d] /\ next'[d] = next[d]
  /\ step'[d] = step[d] /\ view'[d] = view[d] /\ answer'[d] = answer[d]

(* A step of c that leaves the tables alone has only c to answer for.      *)
LEMMA OwnStep ==
  ASSUME IInv, NEW c \in Clients, TypeOK', UNCHANGED <<investigations, steps>>,
         \A d \in Clients \ {c} : Idles(d),
         \A i \in Investigations : \A d \in Clients \ {c} : lock[i] = d => lock'[i] = d,
         TransactionOK(c)', ResponseOK(c)'
  PROVE  IInv'
<1>1. TypeOK /\ TablesOK /\ \A d \in Clients : TransactionOK(d) /\ ResponseOK(d)
  BY DEF IInv
<1>2. TablesOK'
  BY <1>1, TablesUndisturbed
<1>3. ASSUME NEW d \in Clients \ {c}
      PROVE  TransactionOK(d)' /\ ResponseOK(d)'
  BY <1>1, OthersUndisturbed DEF Idles
<1> QED
  BY <1>2, <1>3 DEF IInv

LEMMA GetKeeps ==
  ASSUME IInv, NEW c \in Clients, NEW r \in Request, Get(c, r)
  PROVE  IInv'
<1>1. TypeOK /\ TransactionOK(c) /\ ResponseOK(c)
  BY DEF IInv
<1>2. TypeOK'
  BY <1>1 DEF TypeOK, Get, Goto, Labels
<1>3. \A d \in Clients \ {c} : Idles(d)
  BY <1>1 DEF TypeOK, Get, Goto, Idles
<1>4. /\ pc'[c] = "read" /\ want'[c] = r /\ r.op # "decide" /\ pc[c] = "idle"
      /\ UNCHANGED <<investigations, steps, lock, row, next, step, view, answer>>
  BY <1>1 DEF TypeOK, Get, Goto
<1>5. TransactionOK(c)' /\ ResponseOK(c)'
  BY <1>1, <1>4 DEF TransactionOK, ResponseOK, Locked
<1> QED
  BY <1>2, <1>3, <1>4, <1>5, OwnStep

LEMMA SubmitKeeps ==
  ASSUME IInv, NEW c \in Clients, NEW r \in Request, SubmitDecision(c, r)
  PROVE  IInv'
<1>1. TypeOK /\ TransactionOK(c) /\ ResponseOK(c)
  BY DEF IInv
<1>2. TypeOK'
  BY <1>1 DEF TypeOK, SubmitDecision, Answer, Goto, Labels, Codes
<1>3. \A d \in Clients \ {c} : Idles(d)
  BY <1>1 DEF TypeOK, SubmitDecision, Answer, Goto, Idles
<1>4. /\ pc'[c] \in {"lock", "answered"} /\ want'[c] = r /\ r.op = "decide" /\ pc[c] = "idle"
      /\ UNCHANGED <<investigations, steps, lock, row, next, step, view>>
      /\ answer'[c] # "OK"
  BY <1>1 DEF TypeOK, SubmitDecision, Answer, Goto, ResponseOK
<1>5. TransactionOK(c)' /\ ResponseOK(c)'
  BY <1>1, <1>4 DEF TransactionOK, ResponseOK, Locked
<1> QED
  BY <1>2, <1>3, <1>4, <1>5, OwnStep

(* The lock is free when it is taken, so nobody else loses it.             *)
LEMMA LockKeeps ==
  ASSUME IInv, NEW c \in Clients, LockInvestigation(c)
  PROVE  IInv'
<1>1. TypeOK /\ TransactionOK(c) /\ ResponseOK(c)
  BY DEF IInv
<1>2. /\ pc[c] = "lock" /\ want[c] \in Request /\ Inv(c) \in Investigations
      /\ want[c].op = "decide"
  BY <1>1, RequestFields DEF LockInvestigation, TransactionOK, Inv
<1>3. /\ TypeOK'
      /\ \A d \in Clients \ {c} : Idles(d)
      /\ pc'[c] = "find" /\ want' = want /\ lock'[Inv(c)] = c
      /\ row'[c] = investigations[Inv(c)] /\ investigations[Inv(c)] # NoRow
      /\ UNCHANGED <<investigations, steps, next, step, view, answer>>
  BY <1>1, <1>2 DEF TypeOK, LockInvestigation, Goto, Labels, Idles
<1>4. \A i \in Investigations : \A d \in Clients \ {c} : lock[i] = d => lock'[i] = d
  BY <1>1, <1>2, NothingIsDistinct DEF TypeOK, LockInvestigation
<1>5. Inv(c)' = Inv(c)
  BY <1>3 DEF Inv
<1>6. TransactionOK(c)' /\ ResponseOK(c)'
  BY <1>1, <1>2, <1>3, <1>5 DEF TransactionOK, ResponseOK, Locked
<1> QED
  BY <1>3, <1>4, <1>6, OwnStep

(* A replay goes on to read; the step it stands for is in the table.       *)
LEMMA ReplayKeeps ==
  ASSUME IInv, NEW c \in Clients, FindReplay(c)
  PROVE  IInv'
<1>1. TypeOK /\ TransactionOK(c) /\ ResponseOK(c)
  BY DEF IInv
<1>2. TypeOK'
  BY <1>1, LocksOfOthers DEF TypeOK, FindReplay, EndTransaction, Goto, Labels
<1>3. /\ \A d \in Clients \ {c} : Idles(d)
      /\ pc[c] = "find" /\ pc'[c] = "read" /\ step'[c] = NoStep
      /\ UNCHANGED <<investigations, steps, want, view, answer>>
  BY <1>1 DEF TypeOK, FindReplay, EndTransaction, Goto, Idles
<1>4. \A i \in Investigations : \A d \in Clients \ {c} : lock[i] = d => lock'[i] = d
  BY <1>1, LocksOfOthers DEF FindReplay
<1>5. \E s \in steps[Inv(c)] : Records(c, s)
  BY DEF FindReplay, StepsUnderKey, Records
<1>6. Inv(c)' = Inv(c) /\ \A s : Records(c, s)' = Records(c, s)
  BY <1>3 DEF Inv, Records, Equivalent
<1>7. TransactionOK(c)'
  BY <1>1, <1>3 DEF TransactionOK, Locked
<1>8. ResponseOK(c)'
  BY <1>1, <1>3, <1>5, <1>6 DEF ResponseOK
<1> QED
  BY <1>2, <1>3, <1>4, <1>7, <1>8, OwnStep

LEMMA FindNothingKeeps ==
  ASSUME IInv, NEW c \in Clients, FindNothing(c)
  PROVE  IInv'
<1>1. TypeOK /\ TransactionOK(c) /\ ResponseOK(c)
  BY DEF IInv
<1>2. /\ TypeOK'
      /\ \A d \in Clients \ {c} : Idles(d)
      /\ pc[c] = "find" /\ pc'[c] = "decide"
      /\ UNCHANGED <<investigations, steps, lock, want, row, next, step, view, answer>>
  BY <1>1 DEF TypeOK, FindNothing, Goto, Labels, Idles
<1>3. ~KeyTaken(c) /\ KeyTaken(c)' = KeyTaken(c) /\ Inv(c)' = Inv(c)
  BY <1>2 DEF FindNothing, KeyTaken, StepsUnderKey, Inv
<1>4. TransactionOK(c)' /\ ResponseOK(c)'
  BY <1>1, <1>2, <1>3 DEF TransactionOK, ResponseOK, Locked
<1> QED
  BY <1>2, <1>4, OwnStep

(* Decide works on the row under the lock.                                 *)
LEMMA DecideKeeps ==
  ASSUME IInv, NEW c \in Clients, Decide(c)
  PROVE  IInv'
<1>1. TypeOK /\ TransactionOK(c) /\ ResponseOK(c)
  BY DEF IInv
<1>2. /\ pc[c] = "decide" /\ ~IsCompleted(row[c]) /\ Legal(row[c], want[c].edge)
      /\ Inv(c) \in Investigations /\ row[c] = investigations[Inv(c)] /\ row[c] # NoRow
  BY <1>1, RequestFields DEF Decide, TransactionOK, Inv, Locked
<1>3. row[c] \in InvestigationRow /\ Settled(row[c])
  BY <1>1, <1>2 DEF IInv, TypeOK, TablesOK, CompletedExactlyAtTerminal
<1>4. DecideRow(row[c], want[c].edge) \in InvestigationRow
  BY <1>2, <1>3, DecideSettles
<1>5. /\ TypeOK'
      /\ \A d \in Clients \ {c} : Idles(d)
      /\ pc'[c] = "insert" /\ next'[c] = DecideRow(row[c], want[c].edge)
      /\ UNCHANGED <<investigations, steps, lock, want, row, step, view, answer>>
  BY <1>1, <1>4 DEF TypeOK, Decide, Goto, Labels, Idles
<1>6. KeyTaken(c)' = KeyTaken(c) /\ Inv(c)' = Inv(c)
  BY <1>5 DEF KeyTaken, StepsUnderKey, Inv
<1>7. TransactionOK(c)' /\ ResponseOK(c)'
  BY <1>1, <1>2, <1>5, <1>6 DEF TransactionOK, ResponseOK, Locked
<1> QED
  BY <1>5, <1>7, OwnStep

(* What the transaction of c is about to append, known from the moment it  *)
(* has decided.                                                            *)
LEMMA DecidedStory ==
  ASSUME IInv, NEW c \in Clients, pc[c] \in {"insert", "commit"}
  PROVE  LET r == row[c]
             new == NewStep(r, steps[Inv(c)], want[c].edge, want[c].body, want[c].key)
         IN  /\ Inv(c) \in Investigations /\ want[c] \in Request
             /\ r \in InvestigationRow /\ r = investigations[Inv(c)]
             /\ new \in StepRow /\ new # NoStep
             /\ next[c] \in InvestigationRow /\ Settled(next[c]) /\ next[c].version = r.version
             /\ OneStory(next[c], steps[Inv(c)] \cup {new})
<1>1. TypeOK /\ TransactionOK(c) /\ TablesOK
  BY DEF IInv
<1>2. /\ Inv(c) \in Investigations /\ want[c] \in Request
      /\ want[c].edge \in EdgeRefs /\ want[c].body \in Bodies /\ want[c].key \in Keys \cup {NoKey}
      /\ row[c] = investigations[Inv(c)] /\ row[c] # NoRow
      /\ ~IsCompleted(row[c]) /\ Legal(row[c], want[c].edge)
      /\ next[c] = DecideRow(row[c], want[c].edge)
  BY <1>1, RequestFields DEF TransactionOK, Inv, Locked
<1>3. /\ row[c] \in InvestigationRow /\ Settled(row[c]) /\ steps[Inv(c)] \in SUBSET StepRow
      /\ OneStory(row[c], steps[Inv(c)])
  BY <1>1, <1>2, StartedFacts
<1> DEFINE new == NewStep(row[c], steps[Inv(c)], want[c].edge, want[c].body, want[c].key)
<1>4. new \in StepRow /\ OneStory(next[c], steps[Inv(c)] \cup {new})
  <2>1. new \in StepRow
        /\ OneStory(DecideRow(row[c], want[c].edge), steps[Inv(c)] \cup {new})
    <3> HIDE DEF new
    <3>1. \A r \in InvestigationRow, T \in SUBSET StepRow, e \in EdgeRefs, b \in Bodies,
            k \in Keys \cup {NoKey} :
            Settled(r) /\ ~IsCompleted(r) /\ OneStory(r, T) /\ Legal(r, e)
              => /\ NewStep(r, T, e, b, k) \in StepRow
                 /\ OneStory(DecideRow(r, e), T \cup {NewStep(r, T, e, b, k)})
      BY StoryGrows
    <3> QED
      BY <1>2, <1>3, <3>1, Zenon DEF new
  <2> QED
    BY <1>2, <2>1
<1>5. next[c] \in InvestigationRow /\ Settled(next[c]) /\ next[c].version = row[c].version
  BY <1>2, <1>3, DecideSettles
<1>6. new # NoStep
  BY <1>4, NothingIsDistinct
<1> QED
  BY <1>2, <1>3, <1>4, <1>5, <1>6

LEMMA InsertKeeps ==
  ASSUME IInv, NEW c \in Clients, InsertStep(c)
  PROVE  IInv'
<1>1. TypeOK /\ TransactionOK(c) /\ ResponseOK(c) /\ pc[c] = "insert"
  BY DEF IInv, InsertStep
<1>2. CASE SequenceTaken(c) \/ KeyTaken(c)
  <2>1. \E code \in {"CONFLICT", "IDEMPOTENCY_KEY_REUSED"} : Rollback(c, code)
    BY <1>2 DEF InsertStep
  <2> QED
    BY <1>1, <2>1, RollbackKeeps DEF Codes
<1>3. CASE ~(SequenceTaken(c) \/ KeyTaken(c))
  <2> DEFINE new == NewStep(row[c], steps[Inv(c)], want[c].edge, want[c].body, want[c].key)
  <2>1. new \in StepRow
    BY <1>1, DecidedStory
  <2>2. /\ step' = [step EXCEPT ![c] = new]
        /\ pc' = [pc EXCEPT ![c] = "commit"]
        /\ UNCHANGED <<investigations, steps, lock, want, row, next, view, answer>>
    BY <1>3 DEF InsertStep, Goto, NewStep
  <2> HIDE DEF new
  <2>3. TypeOK' /\ \A d \in Clients \ {c} : Idles(d)
    BY <1>1, <2>1, <2>2 DEF TypeOK, Labels, Idles
  <2>4. pc'[c] = "commit" /\ step'[c] = new
    BY <1>1, <2>2 DEF TypeOK
  <2>5. /\ Inv(c)' = Inv(c) /\ KeyTaken(c)' = KeyTaken(c)
    BY <2>2 DEF Inv, KeyTaken, StepsUnderKey
  <2>6. TransactionOK(c)' /\ ResponseOK(c)'
    BY <1>1, <2>2, <2>4, <2>5 DEF TransactionOK, ResponseOK, Locked, new
  <2> QED
    BY <2>2, <2>3, <2>6, OwnStep
<1> QED
  BY <1>2, <1>3

(* The commit: the tables move together, and only for the lock's holder.   *)
LEMMA CommitKeeps ==
  ASSUME IInv, NEW c \in Clients, Commit(c) \/ CommitUnacknowledged(c)
  PROVE  IInv'
<1> DEFINE i == Inv(c)
           new == NewStep(row[c], steps[i], want[c].edge, want[c].body, want[c].key)
<1>1. TypeOK /\ TransactionOK(c) /\ ResponseOK(c) /\ TablesOK
      /\ pc[c] = "commit" /\ CommitWrites(c)
  BY DEF IInv, Commit, CommitUnacknowledged, CommitWrites
<1>2. /\ i \in Investigations /\ want[c] \in Request
      /\ row[c] \in InvestigationRow /\ row[c] = investigations[i]
      /\ new \in StepRow /\ step[c] = new
      /\ next[c] \in InvestigationRow /\ Settled(next[c])
      /\ OneStory(next[c], steps[i] \cup {new})
      /\ next[c] # NoRow /\ ~KeyTaken(c) /\ lock[i] = c
  BY <1>1, DecidedStory, NothingIsDistinct DEF TransactionOK, Locked
<1>3. /\ new.key = want[c].key /\ new.edge = want[c].edge /\ new.body = want[c].body
  BY DEF NewStep
<1> HIDE DEF i, new
<1>4. /\ investigations' = [investigations EXCEPT ![i] = next[c]]
      /\ steps' = [steps EXCEPT ![i] = steps[i] \cup {new}]
      /\ UNCHANGED <<want, view>>
  BY <1>1, <1>2 DEF CommitWrites, TypeOK, i
<1>5. /\ pc' \in {[pc EXCEPT ![c] = "read"], [pc EXCEPT ![c] = "answered"]}
      /\ answer' \in {answer, [answer EXCEPT ![c] = "INTERNAL_ERROR"]}
  BY DEF Commit, CommitUnacknowledged, Goto, Answer
<1>6. EndTransaction(c)
  BY <1>1 DEF CommitWrites
<1>7. TypeOK'
  BY <1>1, <1>2, <1>4, <1>5, <1>6, LocksOfOthers DEF TypeOK, EndTransaction, Labels, Codes
<1>8. /\ investigations'[i] = next[c] /\ steps'[i] = steps[i] \cup {new}
      /\ \A j \in Investigations \ {i} : /\ investigations'[j] = investigations[j]
                                         /\ steps'[j] = steps[j]
  BY <1>1, <1>2, <1>4 DEF TypeOK
<1>9. TablesOK'
  <2>1. TrailMatchesPointer'
    BY <1>1, <1>2, <1>8 DEF TablesOK, TrailMatchesPointer
  <2>2. CompletedExactlyAtTerminal'
    BY <1>1, <1>2, <1>8 DEF TablesOK, CompletedExactlyAtTerminal
  <2>3. \A s \in steps[i] : s.key # NoKey => s.key # new.key
    BY <1>2, <1>3 DEF KeyTaken, StepsUnderKey, i
  <2>4. OneStepPerKey'
    <3> SUFFICES ASSUME NEW j \in Investigations, NEW s \in steps'[j], NEW t \in steps'[j],
                        s.key = t.key, s.key # NoKey
                 PROVE  s = t
      BY DEF OneStepPerKey
    <3>1. CASE j = i
      BY <3>1, <1>1, <1>2, <1>8, <2>3 DEF TablesOK, OneStepPerKey
    <3>2. CASE j # i
      BY <3>2, <1>1, <1>8 DEF TablesOK, OneStepPerKey
    <3> QED
      BY <3>1, <3>2
  <2> QED
    BY <2>1, <2>2, <2>4 DEF TablesOK
<1>10. ASSUME NEW d \in Clients \ {c}
       PROVE  TransactionOK(d)' /\ ResponseOK(d)'
  <2>1. /\ pc'[d] = pc[d] /\ want'[d] = want[d] /\ row'[d] = row[d] /\ next'[d] = next[d]
        /\ step'[d] = step[d] /\ view'[d] = view[d] /\ answer'[d] = answer[d]
    BY <1>1, <1>4, <1>5, <1>6 DEF TypeOK, EndTransaction
  <2>2. \A j \in Investigations :
          /\ steps[j] \subseteq steps'[j]
          /\ lock[j] = d => /\ lock'[j] = d /\ steps'[j] = steps[j]
                            /\ investigations'[j] = investigations[j]
    BY <1>1, <1>2, <1>6, <1>8, LocksOfOthers
  <2>3. TransactionOK(d) /\ ResponseOK(d)
    BY DEF IInv
  <2> QED
    BY <1>1, <2>1, <2>2, <2>3, OthersUndisturbed
<1>11. /\ pc'[c] \in {"read", "answered"} /\ step'[c] = NoStep /\ answer'[c] # "OK"
       /\ want'[c] = want[c]
  BY <1>1, <1>4, <1>5, <1>6 DEF TypeOK, EndTransaction, ResponseOK
<1>12. TransactionOK(c)'
  BY <1>2, <1>11 DEF TransactionOK, Locked
<1>13. (\E s \in steps[Inv(c)] : Records(c, s))'
  <2>1. Inv(c)' = i
    BY <1>11 DEF Inv, i
  <2>2. \E s \in steps'[i] : /\ s.key = want'[c].key /\ s.edge = want'[c].edge
                             /\ s.body = want'[c].body
    BY <1>3, <1>8, <1>11
  <2> QED
    BY <2>1, <2>2 DEF Records, Equivalent
<1>14. ResponseOK(c)'
  BY <1>11, <1>13 DEF ResponseOK
<1> QED
  BY <1>7, <1>9, <1>10, <1>12, <1>14 DEF IInv

(* One statement fixes the snapshot, so the response is one story.         *)
LEMMA ReadKeeps ==
  ASSUME IInv, NEW c \in Clients, ReadInvestigation(c)
  PROVE  IInv'
<1>1. TypeOK /\ TransactionOK(c) /\ ResponseOK(c) /\ TablesOK /\ pc[c] = "read"
  BY DEF IInv, ReadInvestigation
<1>2. Inv(c) \in Investigations
  BY <1>1, RequestFields DEF TransactionOK, Inv
<1>3. UNCHANGED <<investigations, steps, lock, want, row, next, step>>
  BY DEF ReadInvestigation
<1>4. Inv(c)' = Inv(c) /\ \A s : Records(c, s)' = Records(c, s)
  BY <1>3 DEF Inv, Records, Equivalent
<1>5. CASE investigations[Inv(c)] = NoRow
  <2>1. /\ TypeOK' /\ \A d \in Clients \ {c} : Idles(d)
        /\ pc'[c] = "answered" /\ answer'[c] = "RESOURCE_NOT_FOUND"
    BY <1>1, <1>3, <1>5 DEF TypeOK, ReadInvestigation, Answer, Goto, Labels, Codes, Idles
  <2>2. TransactionOK(c)' /\ ResponseOK(c)'
    BY <1>1, <1>3, <2>1 DEF TransactionOK, ResponseOK, Locked
  <2> QED
    BY <1>3, <2>1, <2>2, OwnStep
<1>6. CASE investigations[Inv(c)] # NoRow
  <2> DEFINE v == [inv |-> investigations[Inv(c)], steps |-> steps[Inv(c)]]
  <2>1. /\ v \in [inv : InvestigationRow, steps : SUBSET StepRow]
        /\ OneStory(v.inv, v.steps) /\ Settled(v.inv)
    BY <1>1, <1>2, <1>6 DEF TypeOK, TablesOK, TrailMatchesPointer, CompletedExactlyAtTerminal
  <2>2. view' = [view EXCEPT ![c] = v] /\ pc' = [pc EXCEPT ![c] = "steps"] /\ answer' = answer
    BY <1>6 DEF ReadInvestigation, Goto
  <2>3. TypeOK' /\ \A d \in Clients \ {c} : Idles(d)
    BY <1>1, <1>3, <2>1, <2>2 DEF TypeOK, Labels, Idles
  <2>4. pc'[c] = "steps" /\ view'[c] = v /\ answer'[c] # "OK"
    BY <1>1, <2>2 DEF TypeOK, ResponseOK
  <2>5. TransactionOK(c)'
    BY <1>1, <1>3, <2>4 DEF TransactionOK, Locked
  <2>6. want[c].op = "decide" => \E s \in v.steps : Records(c, s)
    BY <1>1 DEF ResponseOK
  <2>7. ResponseOK(c)'
    BY <1>3, <1>4, <2>1, <2>4, <2>6 DEF ResponseOK
  <2> QED
    BY <1>3, <2>3, <2>5, <2>7, OwnStep
<1> QED
  BY <1>5, <1>6

LEMMA LoadKeeps ==
  ASSUME IInv, NEW c \in Clients, LoadSteps(c)
  PROVE  IInv'
<1>1. TypeOK /\ TransactionOK(c) /\ ResponseOK(c) /\ pc[c] = "steps"
  BY DEF IInv, LoadSteps
<1>2. /\ view[c] \in [inv : InvestigationRow, steps : SUBSET StepRow]
      /\ OneStory(view[c].inv, view[c].steps) /\ Settled(view[c].inv)
      /\ want[c].op = "decide" => \E s \in view[c].steps : Records(c, s)
  BY <1>1 DEF ResponseOK
<1>3. UNCHANGED <<investigations, steps, lock, want, row, next, step>>
  BY DEF LoadSteps
<1>4. view' = view
  BY <1>1, <1>2 DEF LoadSteps, SnapshotSteps, TypeOK
<1>5. /\ TypeOK' /\ \A d \in Clients \ {c} : Idles(d)
      /\ pc'[c] = "answered"
  BY <1>1, <1>3, <1>4 DEF TypeOK, LoadSteps, Answer, Goto, Labels, Codes, Idles
<1>6. TransactionOK(c)'
  BY <1>1, <1>3, <1>5 DEF TransactionOK, Locked
<1>7. Inv(c)' = Inv(c) /\ \A s : Records(c, s)' = Records(c, s)
  BY <1>3 DEF Inv, Records, Equivalent
<1>8. ResponseOK(c)'
  BY <1>2, <1>3, <1>4, <1>5, <1>7 DEF ResponseOK
<1> QED
  BY <1>3, <1>5, <1>6, <1>8, OwnStep

LEMMA FailReadKeeps ==
  ASSUME IInv, NEW c \in Clients, FailRead(c)
  PROVE  IInv'
<1>1. TypeOK /\ TransactionOK(c) /\ pc[c] \in {"read", "steps"}
  BY DEF IInv, FailRead
<1>2. UNCHANGED <<investigations, steps, lock, want, row, next, step, view>>
  BY DEF FailRead
<1>3. /\ TypeOK' /\ \A d \in Clients \ {c} : Idles(d)
      /\ pc'[c] = "answered" /\ answer'[c] = "INTERNAL_ERROR"
  BY <1>1, <1>2 DEF TypeOK, FailRead, Answer, Goto, Labels, Codes, Idles
<1>4. TransactionOK(c)' /\ ResponseOK(c)'
  BY <1>1, <1>2, <1>3 DEF TransactionOK, ResponseOK, Locked
<1> QED
  BY <1>2, <1>3, <1>4, OwnStep

LEMMA ReceiveKeeps ==
  ASSUME IInv, NEW c \in Clients, Receive(c)
  PROVE  IInv'
<1>1. TypeOK /\ TransactionOK(c) /\ pc[c] = "answered"
  BY DEF IInv, Receive
<1>2. UNCHANGED <<investigations, steps, lock, row, next, step>>
  BY DEF Receive
<1>3. /\ TypeOK' /\ \A d \in Clients \ {c} : Idles(d)
      /\ pc'[c] = "idle" /\ answer'[c] = "none"
  BY <1>1, <1>2 DEF TypeOK, Receive, Goto, Labels, Codes, Idles
<1>4. TransactionOK(c)' /\ ResponseOK(c)'
  BY <1>1, <1>2, <1>3 DEF TransactionOK, ResponseOK, Locked
<1> QED
  BY <1>2, <1>3, <1>4, OwnStep

(* The remaining actions answer with an error and roll back.               *)
LEMMA RefusalKeeps ==
  ASSUME IInv, NEW c \in Clients,
         \/ LockNotFound(c) \/ FindKeyReused(c) \/ RejectCompleted(c)
         \/ RejectTransition(c) \/ AbortTransaction(c)
  PROVE  IInv'
<1>1. pc[c] # "idle"
  BY DEF LockNotFound, FindKeyReused, RejectCompleted, RejectTransition, AbortTransaction
<1>2. \E code \in Codes \ {"OK"} : Rollback(c, code)
  BY DEF LockNotFound, FindKeyReused, RejectCompleted, RejectTransition, AbortTransaction, Codes
<1> QED
  BY <1>1, <1>2, RollbackKeeps

LEMMA StutterKeeps ==
  ASSUME IInv, UNCHANGED vars
  PROVE  IInv'
<1>1. UNCHANGED <<investigations, steps, lock, pc, want, row, next, step, view, answer>>
  BY DEF vars
<1>2. TypeOK' /\ TablesOK'
  BY <1>1, TablesUndisturbed DEF IInv, TypeOK
<1>3. ASSUME NEW d \in Clients
      PROVE  TransactionOK(d)' /\ ResponseOK(d)'
  BY <1>1, OthersUndisturbed DEF IInv
<1> QED
  BY <1>2, <1>3 DEF IInv

LEMMA NextKeeps == IInv /\ [Next]_vars => IInv'
<1> SUFFICES ASSUME IInv, [Next]_vars PROVE IInv'
  OBVIOUS
<1>1. ASSUME NEW i \in Investigations, NEW v \in Versions, StartInvestigation(i, v) PROVE IInv'
  BY <1>1, StartKeeps
<1>2. ASSUME NEW c \in Clients, NEW r \in Request, Get(c, r) \/ SubmitDecision(c, r) PROVE IInv'
  BY <1>2, GetKeeps, SubmitKeeps
<1>3. ASSUME NEW c \in Clients, LockInvestigation(c) PROVE IInv'
  BY <1>3, LockKeeps
<1>4. ASSUME NEW c \in Clients, Proceed(c) PROVE IInv'
  BY <1>4, RefusalKeeps, ReplayKeeps, FindNothingKeeps, DecideKeeps, InsertKeeps,
     CommitKeeps, ReadKeeps, LoadKeeps DEF Proceed
<1>5. ASSUME NEW c \in Clients, Fail(c) PROVE IInv'
  BY <1>5, RefusalKeeps, CommitKeeps, FailReadKeeps DEF Fail
<1>6. ASSUME NEW c \in Clients, Receive(c) PROVE IInv'
  BY <1>6, ReceiveKeeps
<1>7. CASE UNCHANGED vars
  BY <1>7, StutterKeeps
<1> QED
  BY <1>1, <1>2, <1>3, <1>4, <1>5, <1>6, <1>7 DEF Next

----------------------------------------------------------------------------
(* The theorems.                                                           *)

(* The strengthened invariant holds in every run of the engine.            *)
THEOREM Inductive == Spec => []IInv
<1>1. Init => IInv
  BY InitKeeps
<1>2. IInv /\ [Next]_vars => IInv'
  BY NextKeeps
<1> QED
  BY <1>1, <1>2, PTL DEF Spec

(* Rows, locks, requests and responses always have their types: in         *)
(* particular NextSequenceNumber is always a number.                       *)
THEOREM TypeCorrect == Spec => []TypeOK
<1>1. IInv => TypeOK
  BY DEF IInv
<1> QED
  BY <1>1, Inductive, PTL

(* The committed steps and the current_node_id pointer of an investigation *)
(* always tell the same story (ApplyDecision).                             *)
THEOREM TrailAndPointerAgree == Spec => []TrailMatchesPointer
<1>1. IInv => TrailMatchesPointer
  BY DEF IInv, TablesOK
<1> QED
  BY <1>1, Inductive, PTL

(* An investigation is completed exactly on a terminal node, with its      *)
(* resolution, and otherwise always has a choice to offer (Start, Decide). *)
THEOREM CompletionIsTerminal == Spec => []CompletedExactlyAtTerminal
<1>1. IInv => CompletedExactlyAtTerminal
  BY DEF IInv, TablesOK
<1> QED
  BY <1>1, Inductive, PTL

(* An idempotency key stands for at most one step of an investigation      *)
(* (findStepByIdempotencyKey under the row lock).                          *)
THEOREM KeyIsSpentOnce == Spec => []OneStepPerKey
<1>1. IInv => OneStepPerKey
  BY DEF IInv, TablesOK
<1> QED
  BY <1>1, Inductive, PTL

(* No investigation visits a node twice: Decide only follows edges of an   *)
(* acyclic graph.                                                          *)
THEOREM WalkNeverReturns == Spec => []NeverRevisits
<1>1. IInv => NeverRevisits
  <2> SUFFICES ASSUME IInv, NEW i \in Investigations, NEW s \in steps[i], NEW t \in steps[i],
                      s.node = t.node
               PROVE  s = t
    BY DEF NeverRevisits
  <2>1. TypeOK /\ TrailMatchesPointer
    BY DEF IInv, TablesOK
  <2>2. /\ investigations[i] \in InvestigationRow /\ steps[i] \in SUBSET StepRow
        /\ OneStory(investigations[i], steps[i])
    BY <2>1 DEF TypeOK, TrailMatchesPointer
  <2> QED
    BY <2>2, StoryNeverRevisits
<1> QED
  BY <1>1, Inductive, PTL

(* GetWithSteps reads the row and the steps in one snapshot: what a        *)
(* response shows is one state of the investigation.                       *)
THEOREM ResponseIsOneInstant == Spec => []ResponseIsOneStory
<1>1. IInv => ResponseIsOneStory
  BY DEF IInv, ResponseOK, ResponseIsOneStory
<1> QED
  BY <1>1, Inductive, PTL

(* A decision answered with success (SubmitDecision) is in the response    *)
(* and in the table, as the request stated it.                             *)
THEOREM ResponseIsTruthful == Spec => []SuccessMeansRecorded
<1>1. IInv => SuccessMeansRecorded
  BY DEF IInv, ResponseOK, Records, Equivalent, SuccessMeansRecorded
<1> QED
  BY <1>1, Inductive, PTL

(* The unique indexes behind ApplyDecision are never hit: two clients are  *)
(* never past the row lock of one investigation.                           *)
THEOREM BackstopIsIdle == Spec => []BackstopNeverHit
<1>1. IInv => BackstopNeverHit
  <2> SUFFICES ASSUME IInv, NEW c \in Clients, pc[c] = "insert"
               PROVE  ~SequenceTaken(c) /\ ~KeyTaken(c)
    BY DEF BackstopNeverHit
  <2>1. lock[Inv(c)] = c /\ ~KeyTaken(c)
    BY DEF IInv, TransactionOK, Locked
  <2>2. \A d \in Clients : step[d] # NoStep => lock[Inv(d)] = d
    BY DEF IInv, TransactionOK, Locked
  <2> QED
    BY <2>1, <2>2 DEF SequenceTaken
<1> QED
  BY <1>1, Inductive, PTL

(* The tables change only by a start or by the commit of a decision.       *)
LEMMA TablesChange ==
  ASSUME IInv, [Next]_vars
  PROVE  \/ UNCHANGED <<investigations, steps>>
         \/ \E i \in Investigations, v \in Versions : StartInvestigation(i, v)
         \/ \E c \in Clients : CommitWrites(c)
<1>1. ASSUME NEW c \in Clients, LoadSteps(c) \/ ReadInvestigation(c) \/ FailRead(c)
      PROVE  UNCHANGED <<investigations, steps>>
  BY <1>1 DEF LoadSteps, ReadInvestigation, FailRead
<1>2. ASSUME NEW c \in Clients, Proceed(c) \/ Fail(c)
      PROVE  UNCHANGED <<investigations, steps>> \/ CommitWrites(c)
  BY <1>1, <1>2 DEF Proceed, Fail, LockNotFound, FindReplay, FindKeyReused, FindNothing,
     RejectCompleted, RejectTransition, Decide, InsertStep, Commit, CommitUnacknowledged,
     AbortTransaction, Rollback
<1>3. ASSUME NEW c \in Clients,
             \/ \E r \in Request : Get(c, r) \/ SubmitDecision(c, r)
             \/ LockInvestigation(c) \/ Receive(c)
      PROVE  UNCHANGED <<investigations, steps>>
  BY <1>3 DEF Get, SubmitDecision, LockInvestigation, Receive
<1>4. CASE UNCHANGED vars
  BY <1>4 DEF vars
<1> QED
  BY <1>2, <1>3, <1>4 DEF Next

(* What the commit of a decision does to the tables.                       *)
LEMMA CommitAppends ==
  ASSUME IInv, NEW c \in Clients, CommitWrites(c)
  PROVE  /\ Inv(c) \in Investigations /\ investigations[Inv(c)] \in InvestigationRow
         /\ ~IsCompleted(investigations[Inv(c)])
         /\ Legal(investigations[Inv(c)], want[c].edge) /\ ~KeyTaken(c)
         /\ investigations'[Inv(c)] = next[c]
         /\ next[c] \in InvestigationRow /\ next[c].version = investigations[Inv(c)].version
         /\ step[c] = NewStep(investigations[Inv(c)], steps[Inv(c)], want[c].edge,
                              want[c].body, want[c].key)
         /\ steps'[Inv(c)] = steps[Inv(c)] \cup {step[c]}
         /\ \A j \in Investigations \ {Inv(c)} : /\ investigations'[j] = investigations[j]
                                                 /\ steps'[j] = steps[j]
<1>1. TypeOK /\ TransactionOK(c) /\ pc[c] = "commit"
  BY DEF IInv, CommitWrites
<1>2. /\ Inv(c) \in Investigations /\ row[c] \in InvestigationRow
      /\ row[c] = investigations[Inv(c)]
      /\ next[c] \in InvestigationRow /\ next[c].version = row[c].version
  BY <1>1, DecidedStory
<1>3. /\ ~IsCompleted(row[c]) /\ Legal(row[c], want[c].edge) /\ ~KeyTaken(c)
      /\ step[c] = NewStep(row[c], steps[Inv(c)], want[c].edge, want[c].body, want[c].key)
  BY <1>1 DEF TransactionOK
<1>4. /\ investigations'[Inv(c)] = next[c] /\ steps'[Inv(c)] = steps[Inv(c)] \cup {step[c]}
      /\ \A j \in Investigations \ {Inv(c)} : /\ investigations'[j] = investigations[j]
                                              /\ steps'[j] = steps[j]
  BY <1>1, <1>2 DEF CommitWrites, TypeOK
<1> QED
  BY <1>2, <1>3, <1>4

(* No step row is ever changed or removed, an investigation keeps its      *)
(* version, and a completed one never changes (ApplyDecision).             *)
THEOREM TrailIsAppendOnly == Spec => AppendOnly
<1> DEFINE A == \A i \in Investigations :
                  /\ steps[i] \subseteq steps'[i]
                  /\ investigations[i] # NoRow =>
                       /\ investigations'[i].version = investigations[i].version
                       /\ IsCompleted(investigations[i]) =>
                            investigations'[i] = investigations[i] /\ steps'[i] = steps[i]
<1>1. IInv /\ [Next]_vars => A
  <2> SUFFICES ASSUME IInv, [Next]_vars PROVE A
    OBVIOUS
  <2>1. CASE UNCHANGED <<investigations, steps>>
    BY <2>1
  <2>2. ASSUME NEW i \in Investigations, NEW v \in Versions, StartInvestigation(i, v) PROVE A
    BY <2>2 DEF StartInvestigation, IInv, TypeOK
  <2>3. ASSUME NEW c \in Clients, CommitWrites(c) PROVE A
    <3> SUFFICES ASSUME NEW i \in Investigations
                 PROVE  /\ steps[i] \subseteq steps'[i]
                        /\ investigations[i] # NoRow =>
                             /\ investigations'[i].version = investigations[i].version
                             /\ IsCompleted(investigations[i]) =>
                                  investigations'[i] = investigations[i] /\ steps'[i] = steps[i]
      OBVIOUS
    <3>1. CASE i = Inv(c)
      BY <2>3, <3>1, CommitAppends
    <3>2. CASE i # Inv(c)
      BY <2>3, <3>2, CommitAppends
    <3> QED
      BY <3>1, <3>2
  <2> QED
    BY <2>1, <2>2, <2>3, TablesChange
<1> QED
  BY <1>1, Inductive, PTL DEF Spec, AppendOnly

(* A request is answered by a step of its own.                             *)
LEMMA AnswerIsOwn ==
  ASSUME IInv, [Next]_vars, NEW c \in Clients,
         pc[c] \notin {"idle", "answered"}, pc'[c] = "answered"
  PROVE  Proceed(c) \/ Fail(c)
<1>1. pc \in [Clients -> Labels]
  BY DEF IInv, TypeOK
<1>2. ASSUME NEW d \in Clients, d # c,
             \/ \E r \in Request : Get(d, r) \/ SubmitDecision(d, r)
             \/ LockInvestigation(d) \/ Proceed(d) \/ Fail(d) \/ Receive(d)
      PROVE  FALSE
  <2>1. \E label : pc' = [pc EXCEPT ![d] = label]
    BY <1>2 DEF Get, SubmitDecision, LockInvestigation, Proceed, Fail, Receive, LockNotFound,
       FindReplay, FindKeyReused, FindNothing, RejectCompleted, RejectTransition, Decide,
       InsertStep, Commit, CommitUnacknowledged, AbortTransaction, ReadInvestigation,
       LoadSteps, FailRead, Rollback, Answer, Goto
  <2> QED
    BY <1>1, <1>2, <2>1
<1>3. ASSUME \/ \E r \in Request : Get(c, r) \/ SubmitDecision(c, r)
             \/ LockInvestigation(c) \/ Receive(c)
      PROVE  FALSE
  BY <1>1, <1>3 DEF Get, SubmitDecision, LockInvestigation, Receive, Goto
<1>4. CASE UNCHANGED vars
  BY <1>4 DEF vars
<1>5. ASSUME NEW i \in Investigations, NEW v \in Versions, StartInvestigation(i, v) PROVE FALSE
  BY <1>5 DEF StartInvestigation
<1> QED
  BY <1>2, <1>3, <1>4, <1>5 DEF Next

(* A decision already applied under its key is answered with success or,   *)
(* if a statement fails, with an error that says nothing about it: never   *)
(* with a refusal (ApplyDecision looks the key up before anything else).   *)
THEOREM RetryIsSafe == Spec => RetryNeverRejected
<1> DEFINE B(c) == /\ pc[c] \notin {"idle", "answered"} /\ pc'[c] = "answered"
                   /\ want[c].op = "decide" /\ want[c].key # NoKey
                   /\ \E s \in StepsUnderKey(c) : Equivalent(c, s)
                   => answer'[c] \in {"OK", "INTERNAL_ERROR"}
<1>1. IInv /\ [Next]_vars => \A c \in Clients : B(c)
  <2> SUFFICES ASSUME IInv, [Next]_vars, NEW c \in Clients,
                      pc[c] \notin {"idle", "answered"}, pc'[c] = "answered",
                      want[c].op = "decide", want[c].key # NoKey,
                      NEW s \in StepsUnderKey(c), Equivalent(c, s)
               PROVE  answer'[c] \in {"OK", "INTERNAL_ERROR"}
    OBVIOUS
  <2>1. TypeOK /\ TransactionOK(c) /\ TablesOK
    BY DEF IInv
  <2>2. Inv(c) \in Investigations /\ s \in steps[Inv(c)] /\ s.key = want[c].key /\ KeyTaken(c)
    BY <2>1, RequestFields DEF TransactionOK, Inv, StepsUnderKey, KeyTaken
  <2>3. investigations[Inv(c)] # NoRow
    BY <2>1, <2>2 DEF TablesOK, TrailMatchesPointer
  <2>4. ~LockNotFound(c)
    BY <2>3 DEF LockNotFound
  <2>5. ~FindKeyReused(c)
    BY <2>1, <2>2 DEF FindKeyReused, StepsUnderKey, TablesOK, OneStepPerKey
  <2>6. pc[c] \notin {"decide", "insert", "commit"}
    BY <2>1, <2>2 DEF TransactionOK
  <2>7. ~RejectCompleted(c) /\ ~RejectTransition(c) /\ ~Decide(c) /\ ~InsertStep(c)
        /\ ~Commit(c) /\ ~CommitUnacknowledged(c)
    BY <2>6 DEF RejectCompleted, RejectTransition, Decide, InsertStep, Commit,
       CommitUnacknowledged, CommitWrites
  <2>8. ~FindReplay(c) /\ ~FindNothing(c)
    BY <2>1 DEF FindReplay, FindNothing, Goto, TypeOK
  <2>9. ASSUME ReadInvestigation(c) PROVE FALSE
    BY <2>1, <2>3, <2>9 DEF ReadInvestigation, Goto, TypeOK
  <2>10. LoadSteps(c) \/ AbortTransaction(c) \/ FailRead(c)
    BY <2>4, <2>5, <2>7, <2>8, <2>9, AnswerIsOwn DEF Proceed, Fail
  <2> QED
    BY <2>1, <2>10 DEF LoadSteps, AbortTransaction, FailRead, Rollback, Answer, TypeOK
<1> QED
  BY <1>1, Inductive, PTL DEF Spec, RetryNeverRejected

----------------------------------------------------------------------------
(* The engine implements the audit trail.                                  *)

(* The length of the walk, read off the sequence numbers.                  *)
Length(i) == NextSequenceNumber(steps[i]) - 1

(* An investigation that has a row has a numbered trail.                   *)
LEMMA TrailFacts ==
  ASSUME IInv, NEW i \in Investigations, investigations[i] # NoRow
  PROVE  LET r == investigations[i]
             n == NextSequenceNumber(steps[i])
         IN  /\ r \in InvestigationRow /\ steps[i] \in SUBSET StepRow
             /\ Numbered(steps[i]) /\ n \in Nat /\ n >= 1
             /\ \A s \in steps[i] : s.seq \in 1..(n - 1)
             /\ \A k \in 1..(n - 1) : \E s \in steps[i] : s.seq = k
             /\ n = 1 => r.current = Graph[r.version].root
             /\ n > 1 => \E s \in steps[i] : s.seq = n - 1 /\ r.current = EdgeOf(r, s.edge).to
<1> DEFINE r == investigations[i]
           n == NextSequenceNumber(steps[i])
<1>1. /\ r \in InvestigationRow /\ steps[i] \in SUBSET StepRow
      /\ Numbered(steps[i]) /\ EndsAt(r, steps[i])
  BY DEF IInv, TypeOK, TablesOK, TrailMatchesPointer, OneStory
<1>2. /\ n \in Nat /\ n >= 1
      /\ \A s \in steps[i] : s.seq < n
      /\ n = 1 <=> steps[i] = {}
      /\ n > 1 => \E s \in steps[i] : s.seq = n - 1 /\ r.current = EdgeOf(r, s.edge).to
      /\ steps[i] = {} => r.current = Graph[r.version].root
  BY <1>1, NextNumber
<1> HIDE DEF n
<1>3. \A s \in steps[i] : s.seq \in 1..(n - 1)
  BY <1>1, <1>2 DEF Numbered, StepRow
<1>4. ASSUME NEW k \in 1..(n - 1)
      PROVE  \E s \in steps[i] : s.seq = k
  <2>1. PICK s \in steps[i] : s.seq = n - 1
    BY <1>2
  <2> QED
    BY <2>1, <1>1 DEF Numbered
<1> QED
  BY <1>1, <1>2, <1>3, <1>4 DEF n

(* DecisionAt is the step with that number, and there is only one.         *)
LEMMA DecisionAtIs ==
  ASSUME NEW i \in Investigations, Numbered(steps[i]), NEW s \in steps[i]
  PROVE  DecisionAt(i, s.seq) = [edge |-> s.edge, key |-> s.key, body |-> s.body]
<1>1. (CHOOSE t \in steps[i] : t.seq = s.seq) = s
  BY DEF Numbered
<1> QED
  BY <1>1 DEF DecisionAt

(* The path is a sequence of decisions, one for each step row.             *)
LEMMA PathFacts ==
  ASSUME IInv, NEW i \in Investigations, investigations[i] # NoRow
  PROVE  /\ PathOf(i) \in Seq(Abstract!Decisions)
         /\ Len(PathOf(i)) = Length(i) /\ Length(i) \in Nat
         /\ \A s \in steps[i] : /\ s.seq \in 1..Length(i)
                                /\ PathOf(i)[s.seq] = [edge |-> s.edge, key |-> s.key,
                                                       body |-> s.body]
<1>1. /\ steps[i] \in SUBSET StepRow /\ Numbered(steps[i]) /\ Length(i) \in Nat
      /\ \A s \in steps[i] : s.seq \in 1..Length(i)
      /\ \A k \in 1..Length(i) : \E s \in steps[i] : s.seq = k
  <2> DEFINE n == NextSequenceNumber(steps[i])
  <2>1. /\ steps[i] \in SUBSET StepRow /\ Numbered(steps[i]) /\ n \in Nat /\ n >= 1
        /\ \A s \in steps[i] : s.seq \in 1..(n - 1)
        /\ \A k \in 1..(n - 1) : \E s \in steps[i] : s.seq = k
    BY TrailFacts
  <2>2. Length(i) = n - 1
    BY DEF Length
  <2> HIDE DEF n
  <2> QED
    BY <2>1, <2>2
<1>2. PathOf(i) = [k \in 1..Length(i) |-> DecisionAt(i, k)]
  BY DEF PathOf, Length
<1>3. ASSUME NEW k \in 1..Length(i)
      PROVE  DecisionAt(i, k) \in Abstract!Decisions
  <2>1. PICK s \in steps[i] : s.seq = k
    BY <1>1
  <2>2. DecisionAt(i, k) = [edge |-> s.edge, key |-> s.key, body |-> s.body]
    BY <1>1, <2>1, DecisionAtIs
  <2> QED
    BY <1>1, <2>2 DEF StepRow, Abstract!Decisions
<1>4. PathOf(i) \in Seq(Abstract!Decisions) /\ Len(PathOf(i)) = Length(i)
  BY <1>1, <1>2, <1>3
<1>5. ASSUME NEW s \in steps[i]
      PROVE  PathOf(i)[s.seq] = [edge |-> s.edge, key |-> s.key, body |-> s.body]
  <2>1. PathOf(i)[s.seq] = DecisionAt(i, s.seq)
    BY <1>1, <1>2
  <2>2. DecisionAt(i, s.seq) = [edge |-> s.edge, key |-> s.key, body |-> s.body]
    BY <1>1, DecisionAtIs
  <2> QED
    BY <2>1, <2>2
<1> QED
  BY <1>1, <1>4, <1>5

(* The walk ends where the row stands.                                     *)
LEMMA EndIsCurrent ==
  ASSUME IInv, NEW i \in Investigations, investigations[i] # NoRow
  PROVE  Abstract!EndOf(TrailOf(i)) = investigations[i].current
<1> DEFINE r == investigations[i]
<1>1. /\ TrailOf(i).version = r.version /\ TrailOf(i).path = PathOf(i)
  BY DEF TrailOf
<1>2. /\ PathOf(i) \in Seq(Abstract!Decisions)
      /\ Len(PathOf(i)) = Length(i) /\ Length(i) \in Nat
      /\ \A s \in steps[i] : s.seq \in 1..Length(i)
  BY PathFacts
<1>6. ASSUME NEW s \in steps[i]
      PROVE  PathOf(i)[s.seq].edge = s.edge
  <2>1. PathOf(i)[s.seq] = [edge |-> s.edge, key |-> s.key, body |-> s.body]
    BY PathFacts
  <2> QED
    BY <2>1
<1>3. /\ Length(i) = 0 => r.current = Graph[r.version].root
      /\ Length(i) > 0 => \E s \in steps[i] : s.seq = Length(i) /\ r.current = EdgeOf(r, s.edge).to
  BY TrailFacts DEF Length
<1>4. CASE Length(i) = 0
  <2>1. PathOf(i) = <<>>
    BY <1>2, <1>4
  <2> QED
    BY <1>1, <1>3, <1>4, <2>1 DEF Abstract!EndOf
<1>5. CASE Length(i) > 0
  <2>1. PathOf(i) # <<>>
    BY <1>2, <1>5
  <2> QED
    BY <1>1, <1>2, <1>3, <1>5, <1>6, <2>1 DEF Abstract!EndOf, EdgeOf
<1> QED
  BY <1>2, <1>4, <1>5

----------------------------------------------------------------------------
(* The path of a set of steps, to speak of it before and after a commit.   *)
DecisionIn(T, k) ==
  LET s == CHOOSE t \in T : t.seq = k
  IN  [edge |-> s.edge, key |-> s.key, body |-> s.body]

PathIn(T) == [k \in 1..(NextSequenceNumber(T) - 1) |-> DecisionIn(T, k)]

(* Appending a step row appends a decision to the path.                    *)
LEMMA PathGrows ==
  ASSUME NEW r \in InvestigationRow, Settled(r), ~IsCompleted(r),
         NEW T \in SUBSET StepRow, OneStory(r, T),
         NEW e \in EdgeRefs, Legal(r, e),
         NEW b \in Bodies, NEW k \in Keys \cup {NoKey},
         PathIn(T) \in Seq(Abstract!Decisions)
  PROVE  PathIn(T \cup {NewStep(r, T, e, b, k)})
           = Append(PathIn(T), [edge |-> e, key |-> k, body |-> b])
<1> DEFINE new == NewStep(r, T, e, b, k)
           U == T \cup {new}
           q == DecideRow(r, e)
           n == NextSequenceNumber(T)
           d == [edge |-> e, key |-> k, body |-> b]
<1>1. new \in StepRow /\ OneStory(q, U)
  BY StoryGrows
<1>2. n \in Nat /\ n >= 1 /\ \A s \in T : s.seq < n
  BY NextNumber DEF OneStory
<1>3. new.seq = n /\ new.edge = e /\ new.key = k /\ new.body = b
  BY DEF NewStep
<1>4. Numbered(T) /\ Numbered(U)
  BY <1>1 DEF OneStory
<1>5. NextSequenceNumber(U) = n + 1
  <2> DEFINE m == NextSequenceNumber(U)
  <2>1. /\ m \in Nat /\ m >= 1 /\ \A s \in U : s.seq < m
        /\ m > 1 => \E s \in U : s.seq = m - 1
    <3>1. U \in SUBSET StepRow /\ EndsAt(q, U) /\ Numbered(U)
      BY <1>1 DEF OneStory
    <3> HIDE DEF U, q
    <3> QED
      BY <3>1, NextNumber
  <2> HIDE DEF m, n, new
  <2>2. n < m
    BY <2>1, <1>3
  <2>3. PICK s \in U : s.seq = m - 1
    BY <2>1, <2>2, <1>2
  <2>4. s.seq <= n
    BY <2>3, <1>2, <1>3 DEF StepRow
  <2> QED
    BY <2>1, <2>2, <2>3, <2>4, <1>2 DEF m
<1>6. PathIn(T) = [j \in 1..(n - 1) |-> DecisionIn(T, j)]
  BY DEF PathIn
<1>7. PathIn(U) = [j \in 1..n |-> DecisionIn(U, j)]
  <2>1. (n + 1) - 1 = n
    BY <1>2
  <2> QED
    BY <1>5, <2>1 DEF PathIn
<1>8. DecisionIn(U, n) = d
  <2>1. (CHOOSE t \in U : t.seq = n) = new
    BY <1>3, <1>4 DEF Numbered
  <2> QED
    BY <2>1, <1>3 DEF DecisionIn
<1>9. ASSUME NEW j \in 1..(n - 1)
      PROVE  DecisionIn(U, j) = DecisionIn(T, j)
  <2>1. PICK s \in T : s.seq = j
    <3>1. n > 1
      BY <1>2
    <3>2. PICK u \in T : u.seq = n - 1
      BY <3>1, NextNumber DEF OneStory
    <3> QED
      BY <3>2, <1>4 DEF Numbered
  <2>2. (CHOOSE t \in T : t.seq = j) = s
    BY <2>1, <1>4 DEF Numbered
  <2>3. (CHOOSE t \in U : t.seq = j) = s
    BY <2>1, <1>4 DEF Numbered
  <2> QED
    BY <2>2, <2>3 DEF DecisionIn
<1>10. Len(PathIn(T)) = n - 1
  BY <1>2, <1>6
<1> HIDE DEF n, U, d
<1>11. Append(PathIn(T), d) = [j \in 1..n |-> IF j = n THEN d ELSE PathIn(T)[j]]
  <2> DEFINE A == Append(PathIn(T), d)
  <2>1. d \in Abstract!Decisions
    BY DEF d, Abstract!Decisions
  <2>2. /\ A \in Seq(Abstract!Decisions) /\ Len(A) = n
        /\ \A j \in 1..(n - 1) : A[j] = PathIn(T)[j]
        /\ A[n] = d
    <3>1. (n - 1) + 1 = n
      BY <1>2
    <3>2. /\ A \in Seq(Abstract!Decisions) /\ Len(A) = Len(PathIn(T)) + 1
          /\ \A j \in 1..Len(PathIn(T)) : A[j] = PathIn(T)[j]
          /\ A[Len(PathIn(T)) + 1] = d
      BY <2>1, AppendProperties
    <3> QED
      BY <3>1, <3>2, <1>10
  <2>3. A = [j \in 1..n |-> A[j]]
    BY <2>2, LenProperties
  <2>4. ASSUME NEW j \in 1..n
        PROVE  A[j] = IF j = n THEN d ELSE PathIn(T)[j]
    <3>1. j = n \/ j \in 1..(n - 1)
      BY <1>2
    <3> QED
      BY <3>1, <2>2
  <2> HIDE DEF A
  <2> QED
    BY <2>3, <2>4 DEF A
<1>12. ASSUME NEW j \in 1..n
       PROVE  DecisionIn(U, j) = IF j = n THEN d ELSE PathIn(T)[j]
  BY <1>2, <1>6, <1>8, <1>9
<1> QED
  BY <1>7, <1>11, <1>12 DEF U, d

(* The path of an investigation depends on its step rows alone.            *)
LEMMA PathByRows ==
  \A i \in Investigations : PathOf(i) = PathIn(steps[i]) /\ PathOf(i)' = PathIn(steps'[i])
  BY DEF PathOf, PathIn, DecisionAt, DecisionIn

----------------------------------------------------------------------------
(* The simulation: what changes the tables is a step of the walk.          *)

LEMMA SameRowsSameTrail ==
  ASSUME NEW i \in Investigations,
         investigations'[i] = investigations[i], steps'[i] = steps[i]
  PROVE  TrailOf(i)' = TrailOf(i)
  BY PathByRows DEF TrailOf

LEMMA StartIsBegin ==
  ASSUME IInv, NEW i \in Investigations, NEW v \in Versions, StartInvestigation(i, v)
  PROVE  Abstract!Begin(i, v)
<1>1. /\ investigations[i] = NoRow /\ steps[i] = {} /\ steps' = steps
      /\ investigations'[i] = StartRow(v)
      /\ \A j \in Investigations \ {i} : investigations'[j] = investigations[j]
  BY DEF StartInvestigation, IInv, TypeOK, TablesOK, TrailMatchesPointer
<1>2. StartRow(v).version = v /\ StartRow(v) # NoRow
  BY StartSettles, NothingIsDistinct
<1>3. PathIn({}) = <<>>
  <2>1. {s.seq : s \in {}} \cup {0} = {0}
    OBVIOUS
  <2>2. Max({0}) = 0
    BY DEF Max
  <2>3. NextSequenceNumber({}) = 1
    BY <2>1, <2>2 DEF NextSequenceNumber
  <2>4. 1..(NextSequenceNumber({}) - 1) = {}
    BY <2>3
  <2> QED
    BY <2>4 DEF PathIn
<1>4. TrailOf(i)' = [version |-> v, path |-> <<>>]
  BY <1>1, <1>2, <1>3, PathByRows DEF TrailOf
<1>5. \A j \in Investigations \ {i} : TrailOf(j)' = TrailOf(j)
  BY <1>1, SameRowsSameTrail
<1>6. i \notin Started /\ Started' = Started \cup {i}
  BY <1>1, <1>2 DEF Started
<1> QED
  BY <1>4, <1>5, <1>6 DEF Abstract!Begin, Started

LEMMA CommitIsAdvance ==
  ASSUME IInv, NEW c \in Clients, CommitWrites(c)
  PROVE  \E i \in Investigations, d \in Abstract!Decisions : Abstract!Advance(i, d)
<1>1. PICK i \in Investigations : i = Inv(c)
  BY CommitAppends
<1>2. PICK d \in Abstract!Decisions :
        d.edge = want[c].edge /\ d.key = want[c].key /\ d.body = want[c].body
  <2>1. TransactionOK(c) /\ pc[c] = "commit"
    BY DEF IInv, CommitWrites
  <2>2. want[c].edge \in EdgeRefs /\ want[c].body \in Bodies /\ want[c].key \in Keys \cup {NoKey}
    BY <2>1, RequestFields DEF TransactionOK, Locked
  <2>3. [edge |-> want[c].edge, key |-> want[c].key, body |-> want[c].body] \in Abstract!Decisions
    BY <2>2 DEF Abstract!Decisions
  <2> QED
    BY <2>3
<1> DEFINE r == investigations[i]
           T == steps[i]
<1>3. /\ r \in InvestigationRow /\ ~IsCompleted(r) /\ Legal(r, d.edge) /\ ~KeyTaken(c)
      /\ investigations'[i] = next[c] /\ next[c] \in InvestigationRow
      /\ next[c].version = r.version
      /\ steps'[i] = T \cup {NewStep(r, T, d.edge, d.body, d.key)}
      /\ \A j \in Investigations \ {i} : investigations'[j] = investigations[j]
                                         /\ steps'[j] = steps[j]
  BY <1>1, <1>2, CommitAppends
<1>4. r # NoRow /\ next[c] # NoRow
  BY <1>3, NothingIsDistinct
<1>5. Settled(r) /\ OneStory(r, T) /\ T \in SUBSET StepRow
  BY <1>4, StartedFacts DEF IInv
<1>6. d = [edge |-> d.edge, key |-> d.key, body |-> d.body]
      /\ d.edge \in EdgeRefs /\ d.key \in Keys \cup {NoKey} /\ d.body \in Bodies
  BY DEF Abstract!Decisions
<1>7. PathIn(T) = PathOf(i) /\ PathOf(i)' = PathIn(steps'[i])
  BY PathByRows
<1>8. PathIn(T) \in Seq(Abstract!Decisions)
  BY <1>4, <1>7, PathFacts
<1>9. PathIn(steps'[i]) = Append(PathIn(T), d)
  BY <1>3, <1>5, <1>6, <1>8, PathGrows
<1>10. TrailOf(i) = [version |-> r.version, path |-> PathIn(T)]
  BY <1>4, <1>7 DEF TrailOf
<1>11. TrailOf(i)' = [version |-> r.version, path |-> Append(PathIn(T), d)]
  BY <1>3, <1>4, <1>7, <1>9 DEF TrailOf
<1>12. \A j \in Investigations \ {i} : TrailOf(j)' = TrailOf(j)
  BY <1>3, SameRowsSameTrail
<1>13. i \in Started /\ Started' = Started
  BY <1>3, <1>4 DEF Started
<1>14. d.edge \in Abstract!OutgoingEdges(Graph[r.version], Abstract!EndOf(TrailOf(i)))
  BY <1>3, <1>4, EndIsCurrent DEF Legal, EdgeOf, Abstract!OutgoingEdges, Abstract!EdgeIDs, EdgeIDs
<1>15. \A k \in DOMAIN PathIn(T) : d.key = NoKey \/ PathIn(T)[k].key # d.key
  <2> SUFFICES ASSUME NEW k \in DOMAIN PathIn(T), d.key # NoKey
               PROVE  PathIn(T)[k].key # d.key
    OBVIOUS
  <2>1. k \in 1..(NextSequenceNumber(T) - 1)
    BY DEF PathIn
  <2>2. PICK s \in T : s.seq = k
    BY <1>4, <2>1, TrailFacts
  <2>3. PathIn(T)[k] = [edge |-> s.edge, key |-> s.key, body |-> s.body]
    <3>1. PathOf(i)[s.seq] = [edge |-> s.edge, key |-> s.key, body |-> s.body]
      BY <1>4, <2>2, PathFacts
    <3> QED
      BY <3>1, <1>7, <2>2
  <2>4. s.key # d.key
    <3>1. StepsUnderKey(c) = {}
      BY <1>2, <1>3 DEF KeyTaken
    <3>2. s \notin StepsUnderKey(c) /\ s \in steps[Inv(c)]
      BY <3>1, <1>1, <2>2
    <3> QED
      BY <3>2, <1>2 DEF StepsUnderKey
  <2> QED
    BY <2>3, <2>4
<1> HIDE DEF r, T
<1>16. Abstract!Advance(i, d)
  <2> DEFINE W == [j \in Started |-> TrailOf(j)]
  <2>1. DOMAIN W = Started /\ W[i] = TrailOf(i)
    BY <1>13
  <2>2. W[i].version = r.version /\ W[i].path = PathIn(T)
    BY <1>10, <2>1
  <2>3. W' = [j \in Started |-> TrailOf(j)']
    BY <1>13
  <2>4. \A j \in Started : TrailOf(j)' = IF j = i THEN [TrailOf(i) EXCEPT !.path = Append(@, d)]
                                          ELSE TrailOf(j)
    <3>0. \A v, p, q : [[version |-> v, path |-> p] EXCEPT !.path = q] = [version |-> v, path |-> q]
      OBVIOUS
    <3>1. [TrailOf(i) EXCEPT !.path = Append(@, d)] = TrailOf(i)'
      <4>1. [TrailOf(i) EXCEPT !.path = Append(@, d)]
              = [TrailOf(i) EXCEPT !.path = Append(PathIn(T), d)]
        BY <2>1, <2>2
      <4>2. [TrailOf(i) EXCEPT !.path = Append(PathIn(T), d)]
              = [[version |-> r.version, path |-> PathIn(T)] EXCEPT !.path = Append(PathIn(T), d)]
        BY <1>10
      <4>3. [[version |-> r.version, path |-> PathIn(T)] EXCEPT !.path = Append(PathIn(T), d)]
              = [version |-> r.version, path |-> Append(PathIn(T), d)]
        BY <3>0
      <4> QED
        BY <4>1, <4>2, <4>3, <1>11
    <3> QED
      BY <3>1, <1>12 DEF Started
  <2>5. W' = [W EXCEPT ![i].path = Append(@, d)]
    BY <1>13, <2>3, <2>4
  <2>6. d.edge \in Abstract!OutgoingEdges(Graph[W[i].version], Abstract!EndOf(W[i]))
    BY <1>14, <2>1, <2>2
  <2>7. \A k \in DOMAIN W[i].path : d.key = NoKey \/ W[i].path[k].key # d.key
    BY <1>15, <2>2
  <2>8. i \in DOMAIN W
    BY <1>13
  <2> QED
    BY <2>5, <2>6, <2>7, <2>8 DEF Abstract!Advance
<1> QED
  BY <1>16

(* Every run of the engine is, seen through its step rows, a run of        *)
(* AuditTrail (ApplyDecision appends to the walk and nothing else does).   *)
THEOREM Implements == Spec => ImplementsAuditTrail
<1>1. Init => Abstract!Init
  BY DEF Init, Abstract!Init, Started
<1>2. IInv /\ [Next]_vars => [Abstract!Next]_([i \in Started |-> TrailOf(i)])
  <2> SUFFICES ASSUME IInv, [Next]_vars
               PROVE  Abstract!Next \/ UNCHANGED [i \in Started |-> TrailOf(i)]
    OBVIOUS
  <2>1. CASE UNCHANGED <<investigations, steps>>
    <3>1. Started' = Started /\ \A i \in Started : TrailOf(i)' = TrailOf(i)
      BY <2>1, SameRowsSameTrail DEF Started
    <3> QED
      BY <3>1
  <2>2. ASSUME NEW i \in Investigations, NEW v \in Versions, StartInvestigation(i, v)
        PROVE  Abstract!Next
    BY <2>2, StartIsBegin DEF Abstract!Next
  <2>3. ASSUME NEW c \in Clients, CommitWrites(c)
        PROVE  Abstract!Next
    BY <2>3, CommitIsAdvance DEF Abstract!Next
  <2> QED
    BY <2>1, <2>2, <2>3, TablesChange
<1> QED
  BY <1>1, <1>2, Inductive, PTL DEF Spec, ImplementsAuditTrail, Abstract!Spec

----------------------------------------------------------------------------
(* The drawing of a response.                                              *)

(* A response: a row and steps that tell one story.                        *)
Told(r, T) == r \in InvestigationRow /\ T \in SUBSET StepRow /\ OneStory(r, T) /\ Settled(r)

(* What the drawing needs of it: n numbered steps from the root to the     *)
(* row's node, no node or edge of which occurs twice.                      *)
Walk(r, T, n) ==
  LET g == Graph[r.version]
  IN  /\ r.version \in Versions /\ r.current \in NodeIDs(g)
      /\ n \in Nat /\ IsFiniteSet(T) /\ Cardinality(T) = n
      /\ \A s \in T : /\ s.seq \in 1..n /\ s.node \in NodeIDs(g) /\ s.node # r.current
                      /\ s.edge \in EdgeIDs(g) /\ g.edges[s.edge].from = s.node
                      /\ s.seq = 1 => s.node = g.root
                      /\ s.seq = n => g.edges[s.edge].to = r.current
      /\ \A k \in 1..n : \E s \in T : s.seq = k
      /\ \A s, t \in T : /\ s.seq = t.seq \/ s.node = t.node \/ s.edge = t.edge => s = t
                         /\ t.seq = s.seq + 1 => t.node = g.edges[s.edge].to
      /\ T = {} => r.current = g.root

(* The walk does not come back to where it stands now.                     *)
LEMMA EndIsNew ==
  ASSUME NEW r, NEW T, Told(r, T), NEW a \in T
  PROVE  a.node # r.current
<1> SUFFICES ASSUME a.node = r.current PROVE FALSE
  OBVIOUS
<1> DEFINE g == Graph[r.version]
           S == {u.node : u \in {w \in T : a.seq <= w.seq}}
<1>1. r.version \in Versions /\ Numbered(T) /\ Connected(r, T) /\ EndsAt(r, T)
  BY DEF Told, InvestigationRow, OneStory
<1>2. \A u \in T : u.seq \in Nat /\ u.seq >= 1
  BY <1>1 DEF Told, Numbered, StepRow
<1>3. \A u \in T : /\ u.edge \in EdgeIDs(g) /\ g.edges[u.edge].from = u.node
                   /\ g.edges[u.edge].to \in NodeIDs(g) /\ u.node \in NodeIDs(g)
  BY <1>1, GraphFacts DEF Connected, EdgeOf
<1>4. S \in SUBSET NodeIDs(g) /\ a.node \in S
  BY <1>2, <1>3
<1>5. PICK n \in S : Successors(g, n) \cap S = {}
  BY <1>1, <1>4, SetHasExit
<1>6. PICK u \in T : a.seq <= u.seq /\ n = u.node
  BY <1>5
<1>7. g.edges[u.edge].to \in Successors(g, n)
  BY <1>3, <1>6 DEF Successors, Adjacency, OutgoingEdges, Dangling
<1>8. PICK last \in T : /\ \A t \in T : t.seq <= last.seq
                        /\ r.current = g.edges[last.edge].to
  BY <1>1 DEF EndsAt, EdgeOf
<1>9. CASE u.seq = last.seq
  <2>1. u = last
    BY <1>1, <1>9 DEF Numbered
  <2> QED
    BY <1>4, <1>5, <1>7, <1>8, <2>1
<1>10. CASE u.seq # last.seq
  <2>1. u.seq + 1 \in 1..last.seq
    BY <1>2, <1>8, <1>10
  <2>2. PICK w \in T : w.seq = u.seq + 1
    BY <1>1, <2>1 DEF Numbered
  <2>3. w.node = g.edges[u.edge].to
    BY <1>1, <2>2 DEF Connected, EdgeOf
  <2>4. w.node \in S
    BY <1>2, <1>6, <2>2
  <2> QED
    BY <1>5, <1>7, <2>3, <2>4
<1> QED
  BY <1>9, <1>10

LEMMA ToldIsWalk ==
  ASSUME NEW r, NEW T, Told(r, T)
  PROVE  \E n \in Nat : Walk(r, T, n)
<1> DEFINE g == Graph[r.version]
<1>1. /\ r \in InvestigationRow /\ r.version \in Versions /\ T \in SUBSET StepRow
      /\ Numbered(T) /\ Connected(r, T) /\ EndsAt(r, T) /\ OneStory(r, T)
  BY DEF Told, InvestigationRow, OneStory
<1>2. PICK m : m = NextSequenceNumber(T)
  OBVIOUS
<1>3. /\ m \in Nat /\ m >= 1
      /\ \A s \in T : s.seq < m
      /\ m = 1 <=> T = {}
      /\ m > 1 => \E s \in T : s.seq = m - 1 /\ r.current = EdgeOf(r, s.edge).to
      /\ T = {} => r.current = g.root
  BY <1>1, <1>2, NextNumber
<1>4. PICK n \in Nat : n = m - 1
  BY <1>3
<1>5. \A s \in T : s.seq \in Nat /\ s.seq >= 1
  BY <1>1 DEF Numbered, StepRow
<1>6. \A s \in T : s.seq \in 1..n
  BY <1>3, <1>4, <1>5
<1>7. \A k \in 1..n : \E s \in T : s.seq = k
  <2> SUFFICES ASSUME NEW k \in 1..n PROVE \E s \in T : s.seq = k
    OBVIOUS
  <2>1. PICK s \in T : s.seq = n
    BY <1>3, <1>4
  <2>2. k \in 1..s.seq
    BY <2>1
  <2> QED
    BY <1>1, <2>2 DEF Numbered
<1>8. \A s, t \in T : s.seq = t.seq => s = t
  BY <1>1 DEF Numbered
<1>9. IsFiniteSet(T) /\ Cardinality(T) = n
  <2> DEFINE f == [k \in 1..n |-> CHOOSE s \in T : s.seq = k]
  <2>1. \A k \in 1..n : f[k] \in T /\ f[k].seq = k
    BY <1>7
  <2>2. \A s \in T : f[s.seq] = s
    BY <1>6, <1>8, <2>1
  <2>3. f \in Bijection(1..n, T)
    <3>1. f \in [1..n -> T]
      BY <2>1
    <3>2. \A a, b \in DOMAIN f : f[a] = f[b] => a = b
      BY <2>1
    <3>3. \A t \in T : \E k \in 1..n : f[k] = t
      BY <1>6, <2>2
    <3> HIDE DEF f
    <3> QED
      BY <3>1, <3>2, <3>3 DEF Bijection, Injection, Surjection, IsInjective
  <2>4. ExistsBijection(1..n, T)
    BY <2>3 DEF ExistsBijection
  <2>5. IsFiniteSet(1..n) /\ Cardinality(1..n) = n
    BY <1>4, FS_Interval
  <2> QED
    BY <2>4, <2>5, FS_Bijection
<1>10. \A s \in T : /\ s.edge \in EdgeIDs(g) /\ g.edges[s.edge].from = s.node
                    /\ s.node \in NodeIDs(g) /\ (s.seq = 1 => s.node = g.root)
  BY <1>1, GraphFacts DEF Connected, EdgeOf
<1>11. \A s \in T : s.seq = n => g.edges[s.edge].to = r.current
  <2> SUFFICES ASSUME NEW s \in T, s.seq = n PROVE g.edges[s.edge].to = r.current
    OBVIOUS
  <2>1. m > 1
    BY <1>3, <1>4, <1>5
  <2>2. PICK t \in T : t.seq = m - 1 /\ r.current = EdgeOf(r, t.edge).to
    BY <1>3, <2>1
  <2>3. s = t
    BY <1>4, <1>8, <2>2
  <2> QED
    BY <2>2, <2>3 DEF EdgeOf
<1>12. \A s, t \in T : s.node = t.node => s = t
  BY <1>1, StoryNeverRevisits
<1>13. \A s, t \in T : s.edge = t.edge => s = t
  BY <1>10, <1>12
<1>14. \A s, t \in T : t.seq = s.seq + 1 => t.node = g.edges[s.edge].to
  BY <1>1 DEF Connected, EdgeOf
<1>15. r.current \in NodeIDs(g)
  BY DEF Told, Settled
<1>16. \A s \in T : s.node # r.current
  BY EndIsNew
<1>17. Walk(r, T, n)
  BY <1>1, <1>3, <1>4, <1>6, <1>7, <1>8, <1>9, <1>10, <1>11, <1>12, <1>13, <1>14, <1>15, <1>16 DEF Walk
<1> QED
  BY <1>17

----------------------------------------------------------------------------
(* What a drawing of the walk shows.                                       *)
Draws(o, r, T) ==
  /\ o.visited = {s.node : s \in T} \cup {r.current}
  /\ o.selected = {s.edge : s \in T} /\ o.final = r.current
  /\ \A s \in T : StampOf(o.stepAtNode, s.node) = s.seq /\ StampOf(o.stepAtEdge, s.edge) = s.seq
  /\ \A x : (\A s \in T : x # s.node) => StampOf(o.stepAtNode, x) = NoNumber
  /\ \A x : (\A s \in T : x # s.edge) => StampOf(o.stepAtEdge, x) = NoNumber

(* The smallest and the largest number of a step's node and edge.          *)
LEMMA OneNumber ==
  ASSUME NEW k \in Nat
  PROVE  Min({k}) = k /\ Max({k}) = k
  BY DEF Min, Max

LEMMA StampsAre ==
  ASSUME NEW r, NEW T, NEW n, Walk(r, T, n), NEW s \in T
  PROVE  Min(NumbersAt(T, s.node)) = s.seq /\ Max(NumbersOver(T, s.edge)) = s.seq
<1>1. s.seq \in Nat
  BY DEF Walk
<1>2. {t \in T : t.node = s.node} = {s} /\ {t \in T : t.edge = s.edge} = {s}
  BY DEF Walk
<1>3. NumbersAt(T, s.node) = {s.seq} /\ NumbersOver(T, s.edge) = {s.seq}
  BY <1>2 DEF NumbersAt, NumbersOver
<1> QED
  BY <1>1, <1>3, OneNumber

LEMMA LandedIs ==
  ASSUME NEW r, NEW T, NEW n, Walk(r, T, n), T # {}
  PROVE  Landed(T, Graph[r.version].edges) = {r.current}
<1> DEFINE g == Graph[r.version]
<1>1. PICK a : a \in T
  OBVIOUS
<1>2. n \in 1..n
  BY DEF Walk
<1>3. PICK s \in T : s.seq = n
  BY <1>2 DEF Walk
<1>4. \A t \in T : t.seq <= s.seq
  BY <1>3 DEF Walk
<1>5. \A u \in T : (\A t \in T : t.seq <= u.seq) => u = s
  <2> SUFFICES ASSUME NEW u \in T, \A t \in T : t.seq <= u.seq PROVE u = s
    OBVIOUS
  <2>1. u.seq <= s.seq /\ s.seq <= u.seq /\ u.seq \in Nat /\ s.seq \in Nat
    BY <1>4 DEF Walk
  <2>2. u.seq = s.seq
    BY <2>1
  <2> QED
    BY <2>2 DEF Walk
<1>6. LastStep(T) = s
  BY <1>4, <1>5 DEF LastStep
<1>7. s.edge \in DOMAIN g.edges /\ g.edges[s.edge].to = r.current
  BY <1>3 DEF Walk, EdgeIDs
<1>8. {s.edge} \cap DOMAIN g.edges = {s.edge}
  BY <1>7
<1> QED
  BY <1>6, <1>7, <1>8 DEF Landed

(* The overlay of a walk with steps, and of one without.                   *)
SteppedOverlay(r, T) ==
  [visited    |-> {s.node : s \in T} \cup {r.current},
   stepAtNode |-> [x \in {s.node : s \in T} |-> Min(NumbersAt(T, x))],
   selected   |-> {s.edge : s \in T},
   stepAtEdge |-> [x \in {s.edge : s \in T} |-> Max(NumbersOver(T, x))],
   final      |-> r.current]

RootOverlay(x) ==
  [visited |-> {x}, stepAtNode |-> <<>>, selected |-> {}, stepAtEdge |-> <<>>, final |-> x]

(* Lighting the end of a walk.                                             *)
LEMMA WithEnd ==
  ASSUME NEW o, NEW v, NEW w,
         o = [visited |-> o.visited, stepAtNode |-> o.stepAtNode, selected |-> o.selected,
              stepAtEdge |-> o.stepAtEdge, final |-> o.final]
  PROVE  [o EXCEPT !.visited = v, !.final = w]
           = [visited |-> v, stepAtNode |-> o.stepAtNode, selected |-> o.selected,
              stepAtEdge |-> o.stepAtEdge, final |-> w]
<1>1. PICK p : p = [o EXCEPT !.visited = v]
  OBVIOUS
<1>2. p = [visited |-> v, stepAtNode |-> o.stepAtNode, selected |-> o.selected,
           stepAtEdge |-> o.stepAtEdge, final |-> o.final]
  BY <1>1
<1>3. [p EXCEPT !.final = w]
        = [visited |-> v, stepAtNode |-> o.stepAtNode, selected |-> o.selected,
           stepAtEdge |-> o.stepAtEdge, final |-> w]
  BY <1>2
<1>4. [o EXCEPT !.visited = v, !.final = w] = [p EXCEPT !.final = w]
  BY <1>1
<1> QED
  BY <1>3, <1>4

LEMMA PathOverlayIs ==
  ASSUME NEW r, NEW T, NEW n, Walk(r, T, n), NEW x
  PROVE  LET o == PathOverlay(T, Graph[r.version].edges, x)
         IN  /\ T # {} => o = SteppedOverlay(r, T)
             /\ T = {} /\ x # NoNode => o = RootOverlay(x)
             /\ T = {} /\ x = NoNode => o = EmptyOverlay
<1>1. CASE T = {}
  <2>1. PathOverlay(T, Graph[r.version].edges, x)
          = [EmptyOverlay EXCEPT !.visited = {x} \ {NoNode}, !.final = x]
    BY <1>1 DEF PathOverlay
  <2>2. [EmptyOverlay EXCEPT !.visited = {x} \ {NoNode}, !.final = x]
          = [visited |-> {x} \ {NoNode}, stepAtNode |-> <<>>, selected |-> {},
             stepAtEdge |-> <<>>, final |-> x]
    <3>1. PICK o : o = EmptyOverlay
      OBVIOUS
    <3>2. /\ o = [visited |-> o.visited, stepAtNode |-> o.stepAtNode, selected |-> o.selected,
                  stepAtEdge |-> o.stepAtEdge, final |-> o.final]
          /\ o.stepAtNode = <<>> /\ o.selected = {} /\ o.stepAtEdge = <<>>
      BY <3>1 DEF EmptyOverlay
    <3>3. [o EXCEPT !.visited = {x} \ {NoNode}, !.final = x]
            = [visited |-> {x} \ {NoNode}, stepAtNode |-> o.stepAtNode, selected |-> o.selected,
               stepAtEdge |-> o.stepAtEdge, final |-> x]
      BY <3>2, WithEnd
    <3> QED
      BY <3>1, <3>2, <3>3
  <2>3. x # NoNode => {x} \ {NoNode} = {x}
    OBVIOUS
  <2>4. x = NoNode => {x} \ {NoNode} = {}
    OBVIOUS
  <2> QED
    BY <1>1, <2>1, <2>2, <2>3, <2>4 DEF RootOverlay, EmptyOverlay
<1>2. CASE T # {}
  <2>1. Landed(T, Graph[r.version].edges) = {r.current}
    BY <1>2, LandedIs
  <2>2. (CHOOSE y \in {r.current} : TRUE) = r.current /\ {r.current} # {}
    OBVIOUS
  <2> QED
    BY <1>2, <2>1, <2>2 DEF PathOverlay, SteppedOverlay
<1> QED
  BY <1>1, <1>2

LEMMA RunnerIs ==
  ASSUME NEW r, NEW T, NEW n, Walk(r, T, n)
  PROVE  OverlayFromSteps(T, Graph[r.version].edges, r.current)
           = IF T = {} THEN RootOverlay(r.current) ELSE SteppedOverlay(r, T)
<1>1. PICK o : o = PathOverlay(T, Graph[r.version].edges, NoNode)
  OBVIOUS
<1>2. OverlayFromSteps(T, Graph[r.version].edges, r.current)
        = [o EXCEPT !.visited = o.visited \cup {r.current}, !.final = r.current]
  BY <1>1 DEF OverlayFromSteps
<1>3. CASE T = {}
  <2>1. o = EmptyOverlay
    BY <1>1, <1>3, PathOverlayIs
  <2> QED
    BY <1>2, <1>3, <2>1 DEF EmptyOverlay, RootOverlay
<1>4. CASE T # {}
  <2>1. o = SteppedOverlay(r, T)
    BY <1>1, <1>4, PathOverlayIs
  <2>2. o.visited \cup {r.current} = o.visited
    BY <2>1 DEF SteppedOverlay
  <2>3. [o EXCEPT !.visited = o.visited, !.final = r.current] = o
    <3>1. /\ o = [visited |-> o.visited, stepAtNode |-> o.stepAtNode, selected |-> o.selected,
                  stepAtEdge |-> o.stepAtEdge, final |-> o.final]
          /\ o.final = r.current
      BY <2>1 DEF SteppedOverlay
    <3> QED
      BY <3>1, WithEnd
  <2> QED
    BY <1>2, <1>4, <2>1, <2>2, <2>3
<1> QED
  BY <1>3, <1>4

LEMMA RunnerDraws ==
  ASSUME NEW r, NEW T, NEW n, Walk(r, T, n)
  PROVE  Draws(OverlayFromSteps(T, Graph[r.version].edges, r.current), r, T)
<1>1. PICK o : o = OverlayFromSteps(T, Graph[r.version].edges, r.current)
  OBVIOUS
<1>2. CASE T = {}
  <2>1. o = RootOverlay(r.current)
    BY <1>1, <1>2, RunnerIs
  <2>2. DOMAIN << >> = {}
    OBVIOUS
  <2>3. Draws(o, r, T)
    BY <1>2, <2>1, <2>2 DEF Draws, RootOverlay, StampOf
  <2> QED
    BY <1>1, <2>3
<1>3. CASE T # {}
  <2>1. o = SteppedOverlay(r, T)
    BY <1>1, <1>3, RunnerIs
  <2>2. /\ o.visited = {s.node : s \in T} \cup {r.current}
        /\ o.selected = {s.edge : s \in T} /\ o.final = r.current
    BY <2>1 DEF SteppedOverlay
  <2>3. \A s \in T : StampOf(o.stepAtNode, s.node) = s.seq /\ StampOf(o.stepAtEdge, s.edge) = s.seq
    <3> SUFFICES ASSUME NEW s \in T
                 PROVE  StampOf(o.stepAtNode, s.node) = s.seq /\ StampOf(o.stepAtEdge, s.edge) = s.seq
      OBVIOUS
    <3>1. Min(NumbersAt(T, s.node)) = s.seq /\ Max(NumbersOver(T, s.edge)) = s.seq
      BY StampsAre
    <3> QED
      BY <2>1, <3>1 DEF SteppedOverlay, StampOf
  <2>4. \A x : (\A s \in T : x # s.node) => StampOf(o.stepAtNode, x) = NoNumber
    BY <2>1 DEF SteppedOverlay, StampOf
  <2>5. \A x : (\A s \in T : x # s.edge) => StampOf(o.stepAtEdge, x) = NoNumber
    BY <2>1 DEF SteppedOverlay, StampOf
  <2> QED
    BY <1>1, <2>2, <2>3, <2>4, <2>5 DEF Draws
<1> QED
  BY <1>2, <1>3

----------------------------------------------------------------------------
(* The lit route.                                                          *)
LEMMA RouteIsLit ==
  ASSUME NEW state, NEW n, Walk(state.inv, state.steps, n),
         NEW o, Draws(o, state.inv, state.steps)
  PROVE  LitRoute(state, o)
<1> DEFINE r == state.inv
           T == state.steps
           g == Graph[r.version]
           at(k) == {x \in NodeIDs(g) : FlowNode(g, o, x).stepNumber = k}
           over(k) == {e \in EdgeIDs(g) : FlowEdge(o, e).stepNumber = k}
           worded == {x \in NodeIDs(g) : Word(g, o, x) # "none"}
<1>1. GraphOf(state) = g /\ Cardinality(T) = n /\ n \in Nat /\ r.current \in NodeIDs(g)
  BY DEF GraphOf, Walk
<1>2. \A x : /\ FlowNode(g, o, x).stepNumber = StampOf(o.stepAtNode, x)
             /\ FlowNode(g, o, x).isFinal = (x = r.current)
             /\ FlowNode(g, o, x).isRoot = (x = g.root)
  BY DEF FlowNode, Draws
<1>3. \A e : FlowEdge(o, e).stepNumber = StampOf(o.stepAtEdge, e)
  BY DEF FlowEdge
<1>4. Overlaid(o)
  BY DEF Draws, Overlaid
<1>5. \A x : /\ FlowNode(g, o, x).isGhost = (x \notin o.visited)
             /\ FlowEdge(o, x).isGhost = (x \notin o.selected)
  BY <1>4 DEF FlowNode, FlowEdge
<1>6. \A s \in T : /\ s.seq \in 1..n /\ s.seq # NoNumber /\ s.node \in NodeIDs(g) /\ s.node # r.current
                   /\ s.edge \in EdgeIDs(g) /\ g.edges[s.edge].from = s.node
                   /\ s.seq = 1 => s.node = g.root
                   /\ s.seq = n => g.edges[s.edge].to = r.current
  BY DEF Walk, NoNumber
<1>7. \A s \in T : at(s.seq) = {s.node}
  <2> SUFFICES ASSUME NEW s \in T PROVE at(s.seq) = {s.node}
    OBVIOUS
  <2>1. s.node \in at(s.seq)
    BY <1>2, <1>6 DEF Draws
  <2>2. ASSUME NEW x \in at(s.seq) PROVE x = s.node
    <3>1. StampOf(o.stepAtNode, x) = s.seq
      BY <1>2, <2>2
    <3>2. PICK t \in T : x = t.node
      BY <1>6, <3>1 DEF Draws
    <3>3. s.seq = t.seq
      BY <3>1, <3>2 DEF Draws
    <3> QED
      BY <3>2, <3>3 DEF Walk
  <2> QED
    BY <2>1, <2>2
<1>8. \A s \in T : over(s.seq) = {s.edge}
  <2> SUFFICES ASSUME NEW s \in T PROVE over(s.seq) = {s.edge}
    OBVIOUS
  <2>1. s.edge \in over(s.seq)
    BY <1>3, <1>6 DEF Draws
  <2>2. ASSUME NEW x \in over(s.seq) PROVE x = s.edge
    <3>1. StampOf(o.stepAtEdge, x) = s.seq
      BY <1>3, <2>2
    <3>2. PICK t \in T : x = t.edge
      BY <1>6, <3>1 DEF Draws
    <3>3. s.seq = t.seq
      BY <3>1, <3>2 DEF Draws
    <3> QED
      BY <3>2, <3>3 DEF Walk
  <2> QED
    BY <2>1, <2>2
<1>9. worded = {r.current}
  <2>1. ASSUME NEW x \in NodeIDs(g) PROVE Word(g, o, x) # "none" <=> x = r.current
    <3>1. CASE x = r.current
      <4>1. StampOf(o.stepAtNode, x) = NoNumber
        BY <1>6, <3>1 DEF Draws
      <4> QED
        BY <1>2, <3>1, <4>1 DEF Word
    <3>2. CASE x # r.current
      BY <1>2, <3>2 DEF Word
    <3> QED
      BY <3>1, <3>2
  <2> QED
    BY <1>1, <2>1
<1> HIDE DEF at, over, worded
<1>10. ASSUME NEW k \in 1..n
       PROVE  \E x \in NodeIDs(g), e \in EdgeIDs(g) :
                /\ at(k) = {x} /\ over(k) = {e} /\ g.edges[e].from = x
                /\ {g.edges[e].to} = IF k = n THEN worded ELSE at(k + 1)
                /\ k = 1 => FlowNode(g, o, x).isRoot
  <2>1. PICK s \in T : s.seq = k
    BY DEF Walk
  <2>2. /\ at(k) = {s.node} /\ over(k) = {s.edge} /\ g.edges[s.edge].from = s.node
        /\ k = 1 => FlowNode(g, o, s.node).isRoot
    BY <1>2, <1>6, <1>7, <1>8, <2>1
  <2>3. {g.edges[s.edge].to} = IF k = n THEN worded ELSE at(k + 1)
    <3>1. CASE k = n
      BY <1>6, <1>9, <2>1, <3>1
    <3>2. CASE k # n
      <4>1. k + 1 \in 1..n
        BY <1>1, <3>2
      <4>2. PICK t \in T : t.seq = k + 1
        BY <4>1 DEF Walk
      <4>3. t.node = g.edges[s.edge].to
        BY <2>1, <4>2 DEF Walk
      <4> QED
        BY <1>7, <3>2, <4>2, <4>3
    <3> QED
      BY <3>1, <3>2
  <2> QED
    BY <1>6, <2>2, <2>3
<1>11. UNION {over(k) : k \in 1..n} = {s.edge : s \in T}
  <2>1. \A k \in 1..n : \E s \in T : s.seq = k
    BY DEF Walk
  <2>2. \A k \in 1..n : \A e : e \in over(k) => \E s \in T : e = s.edge
    BY <1>8, <2>1
  <2>3. \A s \in T : s.seq \in 1..n /\ s.edge \in over(s.seq)
    BY <1>6, <1>8
  <2> QED
    BY <2>2, <2>3
<1>12. UNION {at(k) : k \in 1..n} = {s.node : s \in T}
  <2>1. \A k \in 1..n : \E s \in T : s.seq = k
    BY DEF Walk
  <2>2. \A k \in 1..n : \A x : x \in at(k) => \E s \in T : x = s.node
    BY <1>7, <2>1
  <2>3. \A s \in T : s.seq \in 1..n /\ s.node \in at(s.seq)
    BY <1>6, <1>7
  <2> QED
    BY <2>2, <2>3
<1>13. {e \in EdgeIDs(g) : ~FlowEdge(o, e).isGhost} = {s.edge : s \in T}
  <2>1. \A e : ~FlowEdge(o, e).isGhost <=> e \in o.selected
    BY <1>5
  <2>2. o.selected = {s.edge : s \in T}
    BY DEF Draws
  <2>3. o.selected \subseteq EdgeIDs(g)
    BY <1>6, <2>2
  <2> QED
    BY <2>1, <2>2, <2>3
<1>14. {x \in NodeIDs(g) : ~FlowNode(g, o, x).isGhost} = {r.current} \cup {s.node : s \in T}
  <2>1. \A x : ~FlowNode(g, o, x).isGhost <=> x \in o.visited
    BY <1>5
  <2>2. o.visited = {r.current} \cup {s.node : s \in T}
    BY DEF Draws
  <2>3. o.visited \subseteq NodeIDs(g)
    BY <1>1, <1>6, <2>2
  <2> QED
    BY <2>1, <2>2, <2>3
<1> QED
  BY <1>1, <1>9, <1>10, <1>11, <1>12, <1>13, <1>14 DEF LitRoute, at, over, worded

(* The report draws what the investigation page draws, or nothing.         *)
LEMMA ReportIs ==
  ASSUME NEW state, NEW n, Walk(state.inv, state.steps, n)
  PROVE  ReportOverlay(state) =
           IF state.steps = {} /\ ~IsCompleted(state.inv) THEN EmptyOverlay ELSE RunnerOverlay(state)
<1> DEFINE r == state.inv
           g == Graph[r.version]
           x == IF IsCompleted(r) THEN g.root ELSE NoNode
<1>1. g.root # NoNode /\ GraphOf(state) = g
  BY GraphFacts, GraphsFinite DEF Walk, GraphOf
<1>2. RunnerOverlay(state) = IF state.steps = {} THEN RootOverlay(r.current) ELSE SteppedOverlay(r, state.steps)
  BY <1>1, RunnerIs DEF RunnerOverlay
<1>3. /\ state.steps # {} => PathOverlay(state.steps, g.edges, x) = SteppedOverlay(r, state.steps)
      /\ state.steps = {} /\ x # NoNode => PathOverlay(state.steps, g.edges, x) = RootOverlay(x)
      /\ state.steps = {} /\ x = NoNode => PathOverlay(state.steps, g.edges, x) = EmptyOverlay
  <2> HIDE DEF x
  <2> QED
    BY PathOverlayIs
<1>4. ReportOverlay(state) = PathOverlay(state.steps, g.edges, x)
  BY <1>1 DEF ReportOverlay
<1>5. state.steps = {} => r.current = g.root
  BY DEF Walk
<1> QED
  BY <1>1, <1>2, <1>3, <1>4, <1>5

(* The legend counts what is drawn.                                        *)
LEMMA LegendCounts ==
  ASSUME NEW state, NEW n, Walk(state.inv, state.steps, n)
  PROVE  LET l == Legend(state)
             ghosts == {e \in EdgeIDs(GraphOf(state)) : FlowEdge(ReportOverlay(state), e).isGhost}
         IN  l.onPath # 0 => l.onPath = l.taken + 1 /\ l.notTaken = Cardinality(ghosts)
<1> DEFINE r == state.inv
           T == state.steps
           g == Graph[r.version]
           nodes == {s.node : s \in T}
           edges == {s.edge : s \in T}
<1>1. PICK o : o = ReportOverlay(state)
  OBVIOUS
<1>2. /\ Legend(state).taken = Cardinality(o.selected) /\ Legend(state).onPath = Cardinality(o.visited)
      /\ Legend(state).notTaken = Cardinality(EdgeIDs(g)) - Cardinality(o.selected)
      /\ GraphOf(state) = g
  BY <1>1 DEF Legend, GraphOf
<1>3. CASE T = {} /\ ~IsCompleted(r)
  <2>1. o = EmptyOverlay
    BY <1>1, <1>3, ReportIs
  <2>2. o.visited = {}
    BY <2>1 DEF EmptyOverlay
  <2> QED
    BY <1>2, <2>2, FS_EmptySet
<1>4. CASE ~(T = {} /\ ~IsCompleted(r))
  <2>1. o = RunnerOverlay(state)
    BY <1>1, <1>4, ReportIs
  <2>2. Draws(o, r, T)
    BY <1>2, <2>1, RunnerDraws DEF RunnerOverlay
  <2>3. o.visited = nodes \cup {r.current} /\ o.selected = edges
    BY <2>2 DEF Draws
  <2>4. IsFiniteSet(T) /\ Cardinality(T) = n /\ n \in Nat
    BY DEF Walk
  <2>5. IsFiniteSet(nodes) /\ Cardinality(nodes) = n
    <3> DEFINE f == [s \in T |-> s.node]
    <3>1. /\ f \in [T -> nodes] /\ (\A a, b \in DOMAIN f : f[a] = f[b] => a = b)
          /\ \A x \in nodes : \E s \in T : f[s] = x
      BY DEF Walk
    <3> HIDE DEF f
    <3>2. ExistsBijection(T, nodes)
      BY <3>1 DEF ExistsBijection, Bijection, Injection, Surjection, IsInjective
    <3> HIDE DEF nodes
    <3> QED
      BY <2>4, <3>2, FS_Bijection
  <2>6. IsFiniteSet(edges) /\ Cardinality(edges) = n
    <3> DEFINE f == [s \in T |-> s.edge]
    <3>1. /\ f \in [T -> edges] /\ (\A a, b \in DOMAIN f : f[a] = f[b] => a = b)
          /\ \A x \in edges : \E s \in T : f[s] = x
      BY DEF Walk
    <3> HIDE DEF f
    <3>2. ExistsBijection(T, edges)
      BY <3>1 DEF ExistsBijection, Bijection, Injection, Surjection, IsInjective
    <3> HIDE DEF edges
    <3> QED
      BY <2>4, <3>2, FS_Bijection
  <2>7. Cardinality(o.visited) = n + 1
    <3>1. r.current \notin nodes
      BY DEF Walk
    <3> HIDE DEF nodes
    <3>2. Cardinality(nodes \cup {r.current}) = Cardinality(nodes) + 1
      BY <2>5, <3>1, FS_AddElement
    <3> QED
      BY <2>3, <2>5, <3>2
  <2>8. Cardinality(EdgeIDs(g)) - n = Cardinality({e \in EdgeIDs(g) : FlowEdge(o, e).isGhost})
    <3>1. IsFiniteSet(EdgeIDs(g)) /\ edges \subseteq EdgeIDs(g)
      BY GraphsFinite DEF Walk
    <3>2. Overlaid(o)
      BY <2>3 DEF Overlaid
    <3>3. {e \in EdgeIDs(g) : FlowEdge(o, e).isGhost} = EdgeIDs(g) \ edges
      BY <2>3, <3>2 DEF FlowEdge
    <3>4. EdgeIDs(g) \cap edges = edges
      BY <3>1
    <3> HIDE DEF edges
    <3>5. Cardinality(EdgeIDs(g) \ edges) = Cardinality(EdgeIDs(g)) - Cardinality(EdgeIDs(g) \cap edges)
      BY <3>1, FS_Difference
    <3> QED
      BY <2>6, <3>3, <3>4, <3>5
  <2> HIDE DEF nodes, edges
  <2> QED
    BY <1>1, <1>2, <2>3, <2>4, <2>6, <2>7, <2>8
<1> QED
  BY <1>3, <1>4

LEMMA DrawingTellsWalk ==
  ASSUME NEW state, Told(state.inv, state.steps)
  PROVE  LET g == GraphOf(state)
         IN  /\ LitRoute(state, RunnerOverlay(state))
             /\ ReportOverlay(state) =
                  IF state.steps = {} /\ ~IsCompleted(state.inv) THEN EmptyOverlay
                  ELSE RunnerOverlay(state)
             /\ IsCompleted(state.inv) <=> Word(g, RunnerOverlay(state), state.inv.current) = "reached"
             /\ FinalPanel(state) = state.inv.resolution
             /\ \A k \in DOMAIN Timeline(state) :
                  /\ k # Cardinality(state.steps) =>
                       Timeline(state)[k + 1].node = Timeline(state)[k].destination
                  /\ k = Cardinality(state.steps) =>
                       Timeline(state)[k].destination = ReportOverlay(state).final
             /\ LET l == Legend(state)
                    ghosts == {e \in EdgeIDs(g) : FlowEdge(ReportOverlay(state), e).isGhost}
                IN  l.onPath # 0 => l.onPath = l.taken + 1 /\ l.notTaken = Cardinality(ghosts)
<1> DEFINE r == state.inv
           T == state.steps
           g == Graph[r.version]
           o == RunnerOverlay(state)
<1>1. PICK n \in Nat : Walk(r, T, n)
  BY ToldIsWalk
<1>2. GraphOf(state) = g
  BY DEF GraphOf
<1>3. Draws(o, r, T)
  BY <1>1, <1>2, RunnerDraws DEF RunnerOverlay
<1>4. LitRoute(state, o)
  BY <1>1, <1>3, RouteIsLit
<1>5. ReportOverlay(state) = IF T = {} /\ ~IsCompleted(r) THEN EmptyOverlay ELSE o
  BY <1>1, ReportIs
<1> HIDE DEF o
<1>6. /\ r.current \in NodeIDs(g) /\ r.version \in Versions /\ NoNode \notin NodeIDs(g)
      /\ IF IsCompleted(r)
         THEN g.nodes[r.current].kind = KindTerminal /\ r.resolution = g.nodes[r.current].resolution
         ELSE g.nodes[r.current].kind = KindDecision /\ r.resolution = NoResolution
  BY <1>1, GraphsFinite DEF Told, Settled, Walk
<1>7. IsCompleted(r) <=> Word(g, o, r.current) = "reached"
  <2>1. StampOf(o.stepAtNode, r.current) = NoNumber /\ o.final = r.current
    BY <1>1, <1>3 DEF Draws, Walk
  <2>2. Word(g, o, r.current) = IF g.nodes[r.current].kind = KindTerminal THEN "reached" ELSE "current"
    BY <2>1 DEF Word, FlowNode
  <2> QED
    BY <1>6, <2>2 DEF KindTerminal, KindDecision
<1>8. FinalPanel(state) = r.resolution
  <2>1. CASE T = {} /\ ~IsCompleted(r)
    <3>1. ReportOverlay(state).final = NoNode
      BY <1>5, <2>1 DEF EmptyOverlay
    <3> QED
      BY <1>2, <1>6, <2>1, <3>1 DEF FinalPanel
  <2>2. CASE ~(T = {} /\ ~IsCompleted(r))
    <3>1. ReportOverlay(state).final = r.current
      BY <1>3, <1>5, <2>2 DEF Draws
    <3>2. ~IsCompleted(r) => g.nodes[r.current].resolution = NoResolution
      BY <1>6, GraphFacts DEF WellFormedNode, KindTerminal, KindDecision
    <3> QED
      BY <1>2, <1>6, <3>1, <3>2 DEF FinalPanel
  <2> QED
    BY <2>1, <2>2
<1>9. ASSUME NEW k \in DOMAIN Timeline(state)
      PROVE  /\ k # Cardinality(T) => Timeline(state)[k + 1].node = Timeline(state)[k].destination
             /\ k = Cardinality(T) => Timeline(state)[k].destination = ReportOverlay(state).final
  <2>1. Cardinality(T) = n /\ \A s \in T : s.seq \in 1..n
    BY <1>1 DEF Walk
  <2>2. \A s \in T : /\ s.seq \in DOMAIN Timeline(state)
                     /\ Timeline(state)[s.seq].node = s.node
                     /\ Timeline(state)[s.seq].destination = g.edges[s.edge].to
    <3> SUFFICES ASSUME NEW s \in T
                 PROVE  /\ s.seq \in DOMAIN Timeline(state)
                        /\ Timeline(state)[s.seq].node = s.node
                        /\ Timeline(state)[s.seq].destination = g.edges[s.edge].to
      OBVIOUS
    <3>1. (CHOOSE t \in T : t.seq = s.seq) = s
      BY <1>1 DEF Walk
    <3> QED
      BY <1>2, <3>1 DEF Timeline
  <2>3. PICK s \in T : s.seq = k
    BY DEF Timeline
  <2>4. CASE k = n
    <3>1. T # {} /\ g.edges[s.edge].to = r.current
      BY <1>1, <2>3, <2>4 DEF Walk
    <3>2. ReportOverlay(state).final = r.current
      BY <1>3, <1>5, <3>1 DEF Draws
    <3> QED
      BY <2>1, <2>2, <2>3, <2>4, <3>1, <3>2
  <2>5. CASE k # n
    <3>1. k + 1 \in 1..n
      BY <2>1, <2>3, <2>5
    <3>2. PICK t \in T : t.seq = k + 1
      BY <1>1, <3>1 DEF Walk
    <3>3. t.node = g.edges[s.edge].to
      BY <1>1, <2>3, <3>2 DEF Walk
    <3> QED
      BY <2>1, <2>2, <2>3, <2>5, <3>2, <3>3
  <2> QED
    BY <2>4, <2>5
<1>10. LET l == Legend(state)
           ghosts == {e \in EdgeIDs(GraphOf(state)) : FlowEdge(ReportOverlay(state), e).isGhost}
       IN  l.onPath # 0 => l.onPath = l.taken + 1 /\ l.notTaken = Cardinality(ghosts)
  BY <1>1, LegendCounts
<1> QED
  BY <1>2, <1>4, <1>5, <1>7, <1>8, <1>9, <1>10 DEF o

(* Both pages draw the walk that the response tells, for every response of *)
(* the engine and any published graphs: pathOverlay, overlayFromSteps, the *)
(* flags of PlaybookGraph and the panels of the report.                    *)
THEOREM DrawingIsTrue == Spec => []OverlayTellsWalk
<1>1. IInv => OverlayTellsWalk
  <2> SUFFICES ASSUME IInv, NEW c \in Clients, answer[c] = "OK"
               PROVE  LET state == view[c]
                          g == GraphOf(state)
                      IN  /\ LitRoute(state, RunnerOverlay(state))
                          /\ ReportOverlay(state) =
                               IF state.steps = {} /\ ~IsCompleted(state.inv) THEN EmptyOverlay
                               ELSE RunnerOverlay(state)
                          /\ IsCompleted(state.inv) <=> Word(g, RunnerOverlay(state), state.inv.current) = "reached"
                          /\ FinalPanel(state) = state.inv.resolution
                          /\ \A k \in DOMAIN Timeline(state) :
                               /\ k # Cardinality(state.steps) =>
                                    Timeline(state)[k + 1].node = Timeline(state)[k].destination
                               /\ k = Cardinality(state.steps) =>
                                    Timeline(state)[k].destination = ReportOverlay(state).final
                          /\ LET l == Legend(state)
                                 ghosts == {e \in EdgeIDs(g) : FlowEdge(ReportOverlay(state), e).isGhost}
                             IN  l.onPath # 0 => l.onPath = l.taken + 1 /\ l.notTaken = Cardinality(ghosts)
    BY DEF OverlayTellsWalk
  <2>1. Told(view[c].inv, view[c].steps)
    BY DEF IInv, ResponseOK, Told
  <2> QED
    BY <2>1, DrawingTellsWalk
<1> QED
  BY <1>1, Inductive, PTL

=============================================================================
