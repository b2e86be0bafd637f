----------------------- MODULE DecisionConsoleProofs -----------------------
(***************************************************************************)
(* Proofs about the console's investigation page, for every publishable    *)
(* playbook and any number of keys, calls and rows of evidence.            *)
(*                                                                         *)
(* A form holds one key at a time, for one content.  A decision is refused *)
(* only once the walk has left the node of the edge it takes, and in an    *)
(* acyclic graph the walk never comes back: so what is told to the form    *)
(* stays true.                                                             *)
(***************************************************************************)
EXTENDS DecisionConsole, SequenceTheorems, WellFoundedInduction, TLAPS

----------------------------------------------------------------------------
(* The inductive invariant.                                                *)

Items == {Item(row) : row \in Rows}

Bodies == [actor : Actors, rationale : Rationales, evidence : Seq(Items)]

Drafts == [actor : Actors, rationale : Rationales, evidence : Seq(Rows)]

Decisions == [edge : EdgeIDs(Playbook), body : Bodies, key : Keys \cup {NoKey}]

Walks == Seq(Decisions)

Codes == {"none", "OK", "INVALID_TRANSITION", "INVESTIGATION_ALREADY_COMPLETED"}

Calls == [op : {"get", "post"}, edge : EdgeIDs(Playbook) \cup {NoEdge}, body : Bodies,
          key : Keys \cup {NoKey}, stage : {"sent", "applied", "answered"}, code : Codes,
          state : Walks]

Typed ==
  /\ DOMAIN calls = Slots /\ \A s \in Slots : calls[s] = NoCall \/ calls[s] \in Calls
  /\ data # NoState => data \in Walks
  /\ body \in Drafts
  /\ minted \subseteq Keys /\ key \in minted \cup {NoKey}
  /\ getting \in Slots \cup {NoSlot} /\ posting \in Slots \cup {NoSlot}
  /\ error \in Codes \cup {"NETWORK_ERROR"}

(* The steps of the walk p follow one another, from the root.              *)
Source(d) == Playbook.edges[d.edge].from

Joined(p) ==
  /\ p # <<>> => Source(p[1]) = Playbook.root
  /\ \A i \in 1..Len(p) : i # Len(p) => Source(p[i + 1]) = Playbook.edges[p[i].edge].to

(* The nodes the walk p has left, and those it has come to.                *)
Left(p) == {Source(p[i]) : i \in 1..Len(p)}

Visited(p) == Left(p) \cup {EndOf(p)}

(* The walk p is behind the walk q.                                        *)
Behind(p, q) == PrefixOf(p, q) /\ EndOf(p) \in Visited(q)

(* The walk p has left the node of the edge e.                             *)
Passed(e, p) == Playbook.edges[e].from \in Left(p)

Content(c) == [edge |-> c.edge, body |-> c.body]

(* Under the key k nothing but the content x is recorded.                  *)
RecordedAs(k, x, p) == \A i \in 1..Len(p) : p[i].key = k => Content(p[i]) = x

Unrecorded(k, p) == \A i \in 1..Len(p) : p[i].key # k

(* A submission c, with the walk at p: it takes an edge the walk was at,   *)
(* and is refused only once the walk is past it.                           *)
PostOK(c, p) ==
  /\ c.edge \in EdgeIDs(Playbook) /\ ValidEvidence(c.body.evidence)
  /\ Playbook.edges[c.edge].from \in Visited(p)
  /\ RecordedAs(c.key, Content(c), p)
  /\ c.stage = "answered" /\ c.code # "OK" => Unrecorded(c.key, p) /\ Passed(c.edge, p)

Posts == {s \in Slots : calls[s].op = "post"}

(* What the walk p means to everyone who waits for it or shows it.         *)
PathOK(p) ==
  /\ p \in Walks /\ Joined(p)
  /\ \A i \in 1..Len(p) : p[i].key \in minted \cup {NoKey}
  /\ \A s \in Slots : calls[s] # NoCall => Behind(calls[s].state, p)
  /\ \A s \in Posts : PostOK(calls[s], p)
  /\ key # NoKey => RecordedAs(key, keyFor, p)
  /\ key # NoKey /\ error \in Refusals => Unrecorded(key, p) /\ Passed(keyFor.edge, p)
  /\ data # NoState => Behind(data, p)

(* A key is for one content, and the form's the only one sent for it.      *)
KeysOK ==
  /\ \A s \in Posts : calls[s].key \in minted
  /\ \A s, t \in Posts : calls[s].key = calls[t].key => Content(calls[s]) = Content(calls[t])
  /\ \A s \in Posts : calls[s].key = key => Content(calls[s]) = keyFor
  /\ sent = IF key = NoKey THEN NothingSent ELSE [content |-> keyFor, keys |-> {key}]

(* A load is in flight only on a page that shows nothing, and a submission *)
(* only on one that does: what it answers is later than what is shown.     *)
PageOK ==
  /\ getting # NoSlot => data = NoState
  /\ data = NoState => edge = NoEdge /\ posting = NoSlot
  /\ posting # NoSlot =>
       /\ posting \in Posts /\ calls[posting].key = key
       /\ calls[posting].stage = "answered" /\ calls[posting].code = "OK"
            => PrefixOf(data, calls[posting].state)

IInv == Typed /\ PathOK(path) /\ KeysOK /\ PageOK /\ SelectionIsOffered

----------------------------------------------------------------------------
(* What serializeEvidence makes of the rows, by induction on their number. *)

LEMMA LeastNumber ==
  ASSUME NEW T \in SUBSET Nat, T # {}
  PROVE  \E x \in T : \A y \in T : ~(y < x)
<1> DEFINE Less == {p \in Nat \X Nat : p[1] < p[2]}
<1>1. IsWellFoundedOn(Less, Nat)
  BY NatLessThanWellFounded DEF OpToRel
<1>2. PICK x \in T : \A y \in T : ~(<<y, x>> \in Less)
  BY <1>1, WFMin
<1>3. \A y \in T : ~(y < x)
  BY <1>2
<1> QED
  BY <1>3

LEMMA UpTo ==
  ASSUME NEW k \in Nat, NEW T, 0 \in T, \A n \in Nat : n < k /\ n \in T => n + 1 \in T
  PROVE  k \in T
<1> SUFFICES ASSUME k \notin T PROVE FALSE
  OBVIOUS
<1> DEFINE Out == {n \in Nat : n <= k /\ n \notin T}
<1>1. PICK x \in Out : \A y \in Out : ~(y < x)
  <2>1. Out \in SUBSET Nat /\ Out # {}
    OBVIOUS
  <2> HIDE DEF Out
  <2> QED
    BY <2>1, LeastNumber
<1>2. x # 0 /\ x \in Nat /\ x <= k /\ x \notin T
  OBVIOUS
<1>3. x - 1 \in Nat /\ x - 1 < k /\ x - 1 < x /\ x - 1 <= k
  BY <1>2
<1>4. x - 1 \in T
  BY <1>1, <1>3
<1> QED
  BY <1>2, <1>3, <1>4

(* One round of the loop, after the rounds f.                              *)
Push(rows, f, n) ==
  IF n = 0 THEN <<>>
  ELSE IF BlankRow(rows[n]) THEN f[n - 1]
  ELSE Append(f[n - 1], Item(rows[n]))

LEMMA PushedUnfolds ==
  ASSUME NEW rows, Len(rows) \in Nat
  PROVE  Pushed(rows) = [n \in 0..Len(rows) |-> Push(rows, Pushed(rows), n)]
<1> DEFINE T == {m \in Nat : \E f : f = [n \in 0..m |-> Push(rows, f, n)]}
<1>1. 0 \in T
  <2> DEFINE f == [n \in 0..0 |-> <<>>]
  <2>1. f = [n \in 0..0 |-> Push(rows, f, n)]
    BY DEF Push
  <2> QED
    BY <2>1
<1>2. ASSUME NEW m \in Nat, m \in T PROVE m + 1 \in T
  <2>1. PICK f : f = [n \in 0..m |-> Push(rows, f, n)]
    BY <1>2
  <2> DEFINE h == [n \in 0..(m + 1) |-> IF n = m + 1 THEN Push(rows, f, n) ELSE f[n]]
  <2>2. \A n \in 0..m : h[n] = f[n] /\ f[n] = Push(rows, f, n)
    BY <2>1
  <2>3. ASSUME NEW n \in 0..(m + 1) PROVE h[n] = Push(rows, f, n)
    <3>1. CASE n = m + 1
      BY <3>1
    <3>2. CASE n # m + 1
      <4>1. n \in 0..m
        BY <3>2
      <4> QED
        BY <2>2, <4>1
    <3> QED
      BY <3>1, <3>2
  <2>4. \A n \in 0..(m + 1) : n # 0 => n - 1 \in 0..m
    OBVIOUS
  <2>5. \A n \in 0..(m + 1) : Push(rows, f, n) = Push(rows, h, n)
    <3> HIDE DEF h
    <3> QED
      BY <2>2, <2>4 DEF Push
  <2>6. h = [n \in 0..(m + 1) |-> Push(rows, h, n)]
    BY <2>3, <2>5
  <2>7. \E w : w = [n \in 0..(m + 1) |-> Push(rows, w, n)]
    <3> HIDE DEF h
    <3> QED
      BY <2>6
  <2> QED
    BY <2>7
<1>3. Len(rows) \in T
  <2> HIDE DEF T
  <2> QED
    BY <1>1, <1>2, UpTo
<1>4. PICK f : f = [n \in 0..Len(rows) |-> Push(rows, f, n)]
  BY <1>3
<1>5. Pushed(rows) = CHOOSE w : w = [n \in 0..Len(rows) |-> Push(rows, w, n)]
  BY DEF Pushed, Push
<1> QED
  BY <1>4, <1>5

(* Every item is that of a row that is not blank.                          *)
LEMMA SerializedRows ==
  ASSUME NEW S, NEW rows \in Seq(S)
  PROVE  Serialized(rows) \in Seq({Item(rows[i]) : i \in {j \in DOMAIN rows : ~BlankRow(rows[j])}})
<1> DEFINE V == {Item(rows[i]) : i \in {j \in DOMAIN rows : ~BlankRow(rows[j])}}
           T == {n \in Nat : Pushed(rows)[n] \in Seq(V)}
<1>1. Len(rows) \in Nat /\ DOMAIN rows = 1..Len(rows)
  OBVIOUS
<1>2. \A n \in 0..Len(rows) : Pushed(rows)[n] = Push(rows, Pushed(rows), n)
  BY <1>1, PushedUnfolds
<1>3. 0 \in T
  <2>1. 0 \in 0..Len(rows)
    BY <1>1
  <2>2. Pushed(rows)[0] = <<>>
    BY <1>2, <2>1 DEF Push
  <2>3. Pushed(rows)[0] \in Seq(V)
    <3> HIDE DEF V
    <3> QED
      BY <2>2
  <2> QED
    BY <2>3
<1>4. ASSUME NEW n \in Nat, n < Len(rows), n \in T PROVE n + 1 \in T
  <2>1. n + 1 \in 0..Len(rows) /\ n + 1 # 0 /\ (n + 1) - 1 = n /\ n + 1 \in DOMAIN rows
    BY <1>1, <1>4
  <2>2. Pushed(rows)[n + 1] = IF BlankRow(rows[n + 1]) THEN Pushed(rows)[n]
                              ELSE Append(Pushed(rows)[n], Item(rows[n + 1]))
    BY <1>2, <2>1 DEF Push
  <2>3. Pushed(rows)[n] \in Seq(V)
    BY <1>4
  <2>4. ~BlankRow(rows[n + 1]) => Item(rows[n + 1]) \in V
    BY <2>1
  <2>5. Pushed(rows)[n + 1] \in Seq(V)
    <3> HIDE DEF V
    <3> QED
      BY <2>2, <2>3, <2>4, AppendProperties
  <2> QED
    BY <2>5
<1>5. Len(rows) \in T
  <2> HIDE DEF T
  <2> QED
    BY <1>1, <1>3, <1>4, UpTo
<1> QED
  BY <1>5 DEF Serialized

(* The form's rules are the server's: what serializes is valid evidence.   *)
LEMMA SerializedValid ==
  ASSUME NEW rows \in Seq(Rows)
  PROVE  /\ Serialized(rows) \in Seq(Items)
         /\ Serializes(rows) => ValidEvidence(Serialized(rows))
<1> DEFINE V == {Item(rows[i]) : i \in {j \in DOMAIN rows : ~BlankRow(rows[j])}}
<1>1. Serialized(rows) \in Seq(V)
  BY SerializedRows
<1>2. \A i \in DOMAIN rows : rows[i] \in Rows
  OBVIOUS
<1>3. V \subseteq Items
  BY <1>2 DEF Items
<1>4. ASSUME Serializes(rows), NEW i \in DOMAIN rows, ~BlankRow(rows[i])
      PROVE  ValidItem(Item(rows[i]))
  <2>1. \A f \in {"type", "summary", "data"} : f \notin RowErrors(rows[i])
    <3> SUFFICES ASSUME NEW f \in {"type", "summary", "data"}, f \in RowErrors(rows[i]) PROVE FALSE
      OBVIOUS
    <3> DEFINE e == <<i, f>>
    <3>1. e \in (DOMAIN rows) \X {"type", "summary", "data"} /\ e[1] = i /\ e[2] = f
      OBVIOUS
    <3> HIDE DEF e
    <3>2. e \in SerializationErrors(rows)
      BY <1>4, <3>1 DEF SerializationErrors
    <3> QED
      BY <1>4, <3>2 DEF Serializes
  <2>2. rows[i].type # NoField /\ rows[i].summary # NoField /\ rows[i].data \in {NoField, "object"}
    BY <2>1 DEF RowErrors
  <2> QED
    BY <2>2 DEF ValidItem, Item
<1>5. Serializes(rows) => \A v \in V : ValidItem(v)
  BY <1>4
<1> HIDE DEF V
<1>6. \A j \in DOMAIN Serialized(rows) : Serialized(rows)[j] \in V
  BY <1>1
<1>7. Serialized(rows) \in Seq(Items)
  BY <1>1, <1>3
<1> QED
  BY <1>5, <1>6, <1>7 DEF ValidEvidence

----------------------------------------------------------------------------
(* Walks of the playbook.                                                  *)

LEMMA PlaybookFacts ==
  /\ Playbook.root \in NodeIDs(Playbook) /\ Acyclic(Playbook)
  /\ \A e \in EdgeIDs(Playbook) : /\ Playbook.edges[e].from \in NodeIDs(Playbook)
                                  /\ Playbook.edges[e].to \in NodeIDs(Playbook)
  /\ \A n \in NodeIDs(Playbook) : Playbook.nodes[n].kind = KindTerminal
                                    => OutgoingEdges(Playbook, n) = {}
<1>1. /\ Playbook.root \in NodeIDs(Playbook) /\ Acyclic(Playbook)
      /\ \A e \in EdgeIDs(Playbook) : ~Dangling(Playbook, e)
      /\ \A n \in NodeIDs(Playbook) : WellFormedNode(Playbook, n)
  BY PlaybookPublishable DEF Publishable, RootUsable
<1>2. \A e \in EdgeIDs(Playbook) : /\ Playbook.edges[e].from \in NodeIDs(Playbook)
                                   /\ Playbook.edges[e].to \in NodeIDs(Playbook)
  BY <1>1 DEF Dangling
<1>3. \A n \in NodeIDs(Playbook) : Playbook.nodes[n].kind = KindTerminal
                                     => OutgoingEdges(Playbook, n) = {}
  BY <1>1 DEF WellFormedNode, Adjacency, OutgoingEdges, KindTerminal, KindDecision
<1> QED
  BY <1>1, <1>2, <1>3

LEMMA EndIsNode ==
  ASSUME NEW p \in Walks
  PROVE  EndOf(p) \in NodeIDs(Playbook)
<1>1. CASE p = <<>>
  BY <1>1, PlaybookFacts DEF EndOf
<1>2. CASE p # <<>>
  <2>1. p \in Seq(Decisions) /\ Len(p) \in 1..Len(p)
    BY <1>2, EmptySeq DEF Walks
  <2>2. p[Len(p)] \in Decisions
    BY <2>1, ElementOfSeq
  <2> QED
    BY <1>2, <2>2, PlaybookFacts DEF EndOf, Decisions
<1> QED
  BY <1>1, <1>2

(* A walk does not come back to a node it has left: the nodes in between   *)
(* would each have a successor among them.                                 *)
LEMMA NeverReturns ==
  ASSUME NEW p \in Walks, Joined(p)
  PROVE  EndOf(p) \notin Left(p)
<1> SUFFICES ASSUME NEW a \in 1..Len(p), EndOf(p) = Source(p[a]) PROVE FALSE
  BY DEF Left
<1> DEFINE S == {Source(p[k]) : k \in a..Len(p)}
<1>1. Len(p) \in Nat /\ p # <<>> /\ \A k \in 1..Len(p) : p[k] \in Decisions
  BY DEF Walks
<1>2. \A k \in 1..Len(p) : /\ p[k].edge \in EdgeIDs(Playbook) /\ Source(p[k]) \in NodeIDs(Playbook)
                           /\ Playbook.edges[p[k].edge].to \in Successors(Playbook, Source(p[k]))
  BY <1>1, PlaybookFacts DEF Decisions, Source, Successors, Adjacency, OutgoingEdges, Dangling
<1>3. S \in SUBSET NodeIDs(Playbook) /\ S # {}
  BY <1>1, <1>2
<1>4. PICK n \in S : Successors(Playbook, n) \cap S = {}
  <2> HIDE DEF S
  <2> QED
    BY <1>3, PlaybookFacts DEF Acyclic
<1>5. PICK k \in a..Len(p) : n = Source(p[k])
  BY <1>4
<1>6. k \in 1..Len(p)
  BY <1>1, <1>5
<1>7. Playbook.edges[p[k].edge].to \in S
  <2>1. CASE k = Len(p)
    BY <1>1, <2>1 DEF EndOf
  <2>2. CASE k # Len(p)
    <3>1. Source(p[k + 1]) = Playbook.edges[p[k].edge].to
      BY <1>6, <2>2 DEF Joined
    <3>2. k + 1 \in a..Len(p)
      BY <1>1, <1>5, <2>2
    <3> QED
      BY <3>1, <3>2
  <2> QED
    BY <2>1, <2>2
<1> QED
  BY <1>2, <1>4, <1>5, <1>6, <1>7

LEMMA BehindItself ==
  ASSUME NEW p \in Walks
  PROVE  Behind(p, p)
<1>1. Len(p) \in Nat
  BY DEF Walks
<1> QED
  BY <1>1 DEF Behind, PrefixOf, Visited

(* Every walk began at the root.                                           *)
LEMMA BeginsBehind ==
  ASSUME NEW p \in Walks, Joined(p)
  PROVE  Behind(<<>>, p)
<1>1. Len(p) \in Nat /\ (p # <<>> => 1 \in 1..Len(p))
  BY DEF Walks
<1>2. EndOf(<<>>) = Playbook.root
  BY DEF EndOf
<1>3. CASE p = <<>>
  BY <1>3, BehindItself
<1>4. CASE p # <<>>
  <2>1. Source(p[1]) \in Left(p) /\ Source(p[1]) = Playbook.root
    BY <1>1, <1>4 DEF Left, Joined
  <2> QED
    BY <1>1, <1>2, <2>1 DEF Behind, PrefixOf, Visited
<1> QED
  BY <1>3, <1>4

(* The walk p goes on with the decision d.                                 *)
GoesOn(p, d, q) ==
  /\ p \in Walks /\ Joined(p) /\ d \in Decisions /\ d.edge \in AvailableChoices(p)
  /\ q = Append(p, d)

LEMMA GoesOnFacts ==
  ASSUME NEW p, NEW d, NEW q, GoesOn(p, d, q)
  PROVE  /\ q \in Walks /\ Len(p) \in Nat /\ Len(q) = Len(p) + 1
         /\ \A i \in 1..Len(p) : q[i] = p[i]
         /\ q[Len(q)] = d
         /\ \A i \in 1..Len(q) : i \in 1..Len(p) \/ i = Len(q)
         /\ Joined(q) /\ Left(q) = Visited(p)
<1>1. p \in Seq(Decisions) /\ d \in Decisions /\ q = Append(p, d) /\ Source(d) = EndOf(p)
  BY DEF GoesOn, Walks, AvailableChoices, OutgoingEdges, Source
<1>2. /\ q \in Seq(Decisions) /\ Len(p) \in Nat /\ Len(q) = Len(p) + 1
      /\ \A i \in 1..Len(p) : q[i] = p[i]
      /\ q[Len(q)] = d
  BY <1>1, AppendProperties
<1>3. \A i \in 1..Len(q) : i \in 1..Len(p) \/ i = Len(q)
  BY <1>2
<1>4. Left(q) = Visited(p)
  BY <1>1, <1>2, <1>3 DEF Left, Visited
<1>5. p = <<>> <=> Len(p) = 0
  BY <1>1, EmptySeq
<1>6. Source(q[1]) = Playbook.root
  <2>1. CASE p = <<>>
    BY <1>1, <1>2, <1>5, <2>1 DEF EndOf
  <2>2. CASE p # <<>>
    BY <1>2, <1>5, <2>2 DEF GoesOn, Joined
  <2> QED
    BY <2>1, <2>2
<1>7. ASSUME NEW i \in 1..Len(q), i # Len(q) PROVE Source(q[i + 1]) = Playbook.edges[q[i].edge].to
  <2>1. i \in 1..Len(p) /\ q[i] = p[i] /\ p # <<>>
    BY <1>2, <1>3, <1>5, <1>7
  <2>2. CASE i = Len(p)
    BY <1>1, <1>2, <2>1, <2>2 DEF EndOf
  <2>3. CASE i # Len(p)
    <3>1. i + 1 \in 1..Len(p)
      BY <1>2, <2>1, <2>3
    <3> QED
      BY <1>2, <2>1, <2>3, <3>1 DEF GoesOn, Joined
  <2> QED
    BY <2>2, <2>3
<1>8. Joined(q)
  BY <1>6, <1>7 DEF Joined
<1> QED
  BY <1>2, <1>3, <1>4, <1>8 DEF Walks

LEMMA StaysBehind ==
  ASSUME NEW p, NEW d, NEW q, GoesOn(p, d, q), NEW r \in Walks, Behind(r, p)
  PROVE  Behind(r, q)
<1>1. EndOf(r) \in Visited(q)
  BY GoesOnFacts DEF Behind, Visited
<1>2. Len(r) \in Nat /\ Len(r) <= Len(p) /\ \A i \in 1..Len(r) : r[i] = p[i]
  BY DEF Behind, PrefixOf, Walks
<1>3. Len(p) \in Nat /\ Len(q) = Len(p) + 1 /\ \A i \in 1..Len(p) : q[i] = p[i]
  BY GoesOnFacts
<1>4. PrefixOf(r, q)
  BY <1>2, <1>3 DEF PrefixOf
<1> QED
  BY <1>1, <1>4 DEF Behind

LEMMA StaysPassed ==
  ASSUME NEW p, NEW d, NEW q, GoesOn(p, d, q), NEW e, Passed(e, p)
  PROVE  Passed(e, q) /\ d.edge # e
<1>1. Passed(e, q)
  BY GoesOnFacts DEF Passed, Visited
<1>2. EndOf(p) \notin Left(p)
  BY NeverReturns DEF GoesOn
<1>3. d.edge # e
  BY <1>2 DEF Passed, GoesOn, AvailableChoices, OutgoingEdges
<1> QED
  BY <1>1, <1>3

(* A walk that was at an edge and does not offer it has left it.           *)
LEMMA NotOfferedIsPassed ==
  ASSUME NEW p \in Walks, NEW e \in EdgeIDs(Playbook),
         Playbook.edges[e].from \in Visited(p), e \notin AvailableChoices(p)
  PROVE  Passed(e, p)
BY DEF AvailableChoices, OutgoingEdges, Passed, Visited

(* What one more decision d does to a key k and its content x.             *)
LEMMA StaysRecordedAs ==
  ASSUME NEW p, NEW d, NEW q, GoesOn(p, d, q), NEW k, NEW x,
         RecordedAs(k, x, p), d.key = k => Content(d) = x
  PROVE  RecordedAs(k, x, q)
BY GoesOnFacts DEF RecordedAs

LEMMA StaysUnrecorded ==
  ASSUME NEW p, NEW d, NEW q, GoesOn(p, d, q), NEW k, Unrecorded(k, p), d.key # k
  PROVE  Unrecorded(k, q)
BY GoesOnFacts DEF Unrecorded

LEMMA StaysPosted ==
  ASSUME NEW p, NEW d, NEW q, GoesOn(p, d, q), NEW c, PostOK(c, p),
         d.key = c.key => Content(d) = Content(c)
  PROVE  PostOK(c, q)
<1>1. Playbook.edges[c.edge].from \in Visited(q)
  BY GoesOnFacts DEF PostOK, Visited
<1>2. RecordedAs(c.key, Content(c), q)
  BY StaysRecordedAs DEF PostOK
<1>3. ASSUME c.stage = "answered", c.code # "OK" PROVE Unrecorded(c.key, q) /\ Passed(c.edge, q)
  <2>1. Unrecorded(c.key, p) /\ Passed(c.edge, p)
    BY <1>3 DEF PostOK
  <2>2. Passed(c.edge, q) /\ d.edge # c.edge
    BY <2>1, StaysPassed
  <2>3. d.key # c.key
    BY <2>2 DEF Content
  <2> QED
    BY <2>1, <2>2, <2>3, StaysUnrecorded
<1> QED
  BY <1>1, <1>2, <1>3 DEF PostOK

----------------------------------------------------------------------------
LEMMA InitInv == Init => IInv
<1> SUFFICES ASSUME Init PROVE IInv
  OBVIOUS
<1>1. \A s \in Slots : calls[s] = NoCall /\ calls[s].op = "none"
  BY DEF Init, NoCall
<1>2. Posts = {} /\ DOMAIN calls = Slots
  BY <1>1 DEF Posts, Init
<1>3. BlankBody \in Drafts
  BY BlankFormTyped DEF BlankBody, Drafts
<1>4. Typed
  BY <1>1, <1>2, <1>3 DEF Init, Typed, Codes
<1>5. path \in Walks /\ Joined(path) /\ Len(path) = 0 /\ 1..Len(path) = {}
  BY DEF Init, Walks, Joined
<1>6. PathOK(path)
  BY <1>1, <1>2, <1>5 DEF Init, PathOK
<1>7. KeysOK /\ PageOK /\ SelectionIsOffered
  BY <1>2 DEF Init, KeysOK, PageOK, SelectionIsOffered
<1> QED
  BY <1>4, <1>6, <1>7 DEF IInv

(* A decision d is recorded that nobody's key contradicts.                 *)
LEMMA PathGoesOn ==
  ASSUME IInv, NEW d, NEW q, GoesOn(path, d, q), d.key \in minted \cup {NoKey},
         \A s \in Posts : d.key = calls[s].key => Content(d) = Content(calls[s]),
         key # NoKey /\ d.key = key => Content(d) = keyFor
  PROVE  PathOK(q)
<1>1. PathOK(path) /\ Typed
  BY DEF IInv
<1>2. q \in Walks /\ Joined(q)
  BY GoesOnFacts
<1>3. \A i \in 1..Len(q) : q[i].key \in minted \cup {NoKey}
  BY <1>1, GoesOnFacts DEF PathOK
<1>4. ASSUME NEW s \in Slots, calls[s] # NoCall PROVE Behind(calls[s].state, q)
  <2>1. calls[s].state \in Walks
    BY <1>1, <1>4 DEF Typed, Calls
  <2> QED
    BY <1>1, <1>4, <2>1, StaysBehind DEF PathOK
<1>5. \A s \in Posts : PostOK(calls[s], q)
  BY <1>1, StaysPosted DEF PathOK
<1>6. key # NoKey => RecordedAs(key, keyFor, q)
  BY <1>1, StaysRecordedAs DEF PathOK
<1>7. ASSUME key # NoKey, error \in Refusals PROVE Unrecorded(key, q) /\ Passed(keyFor.edge, q)
  <2>1. Unrecorded(key, path) /\ Passed(keyFor.edge, path)
    BY <1>1, <1>7 DEF PathOK
  <2>2. Passed(keyFor.edge, q) /\ d.edge # keyFor.edge
    BY <2>1, StaysPassed
  <2>3. d.key # key
    BY <1>7, <2>2 DEF Content
  <2> QED
    BY <2>1, <2>2, <2>3, StaysUnrecorded
<1>8. data # NoState => Behind(data, q)
  BY <1>1, StaysBehind DEF PathOK, Typed
<1> QED
  BY <1>2, <1>3, <1>4, <1>5, <1>6, <1>7, <1>8 DEF PathOK

LEMMA OtherDecidesInv ==
  ASSUME IInv, NEW e \in EdgeIDs(Playbook), OtherDecides(e)
  PROVE  IInv'
<1> DEFINE d == [edge |-> e, body |-> BlankBody, key |-> NoKey]
<1>1. /\ e \in AvailableChoices(path) /\ path' = Append(path, d)
      /\ UNCHANGED <<calls, data, failed, getting, edge, body, key, keyFor, posting, error, minted, sent>>
  BY DEF OtherDecides, page, form, history
<1>2. d \in Decisions
  BY BlankFormTyped DEF Decisions, Bodies, BlankBody
<1>3. PICK q : q = path'
  OBVIOUS
<1>4. GoesOn(path, d, q)
  BY <1>1, <1>2, <1>3 DEF GoesOn, IInv, PathOK
<1>5. \A s \in Posts : d.key # calls[s].key
  BY NothingApart DEF IInv, KeysOK, Typed
<1>6. PathOK(q)
  <2>1. d.key = NoKey
    OBVIOUS
  <2> HIDE DEF d
  <2> QED
    BY <1>4, <1>5, <2>1, PathGoesOn
<1>7. PathOK(path)'
  BY <1>1, <1>3, <1>6 DEF PathOK, Posts
<1>8. Typed' /\ KeysOK' /\ PageOK' /\ SelectionIsOffered'
  BY <1>1 DEF IInv, Typed, KeysOK, PageOK, Posts, SelectionIsOffered, FormShown
<1> QED
  BY <1>7, <1>8 DEF IInv

(* The server moves the call in slot s on.                                 *)
LEMMA CallMoves ==
  ASSUME IInv, NEW s \in Slots, calls[s] # NoCall, NEW c \in Calls,
         c.op = calls[s].op, Content(c) = Content(calls[s]), c.key = calls[s].key,
         calls' = [calls EXCEPT ![s] = c],
         NEW q, q = path', PathOK(q), Behind(c.state, q), c.op = "post" => PostOK(c, q),
         c.stage = "answered" /\ c.code = "OK" /\ posting = s => PrefixOf(data, c.state),
         UNCHANGED <<page, form, history>>
  PROVE  IInv'
<1>1. UNCHANGED <<data, failed, getting, edge, body, key, keyFor, posting, error, minted, sent>>
  BY DEF page, form, history
<1>2. /\ DOMAIN calls' = Slots /\ calls'[s] = c
      /\ \A t \in Slots : t # s => calls'[t] = calls[t]
  BY DEF IInv, Typed
<1>3. /\ Posts' = Posts
      /\ \A t \in Slots : /\ calls'[t].op = calls[t].op /\ calls'[t].key = calls[t].key
                          /\ Content(calls'[t]) = Content(calls[t])
  BY <1>2 DEF Posts
<1>4. c # NoCall
  BY DEF Calls, NoCall
<1>5. Typed'
  BY <1>1, <1>2 DEF IInv, Typed
<1>6. PathOK(path)'
  <2>1. \A t \in Slots : calls'[t] # NoCall => Behind(calls'[t].state, q)
    BY <1>2 DEF PathOK
  <2>2. \A t \in Posts : PostOK(calls'[t], q)
    BY <1>2 DEF PathOK, Posts
  <2> QED
    BY <1>1, <1>3, <2>1, <2>2 DEF PathOK
<1>7. KeysOK'
  BY <1>1, <1>3 DEF IInv, KeysOK, Posts
<1>8. PageOK'
  <2>1. ASSUME posting # NoSlot
        PROVE  calls'[posting].stage = "answered" /\ calls'[posting].code = "OK"
                 => PrefixOf(data, calls'[posting].state)
    <3>1. posting \in Slots
      BY <2>1 DEF IInv, Typed
    <3>2. CASE posting = s
      BY <1>2, <3>2
    <3>3. CASE posting # s
      BY <1>2, <2>1, <3>1, <3>3 DEF IInv, PageOK
    <3> QED
      BY <3>2, <3>3
  <2>2. posting # NoSlot => posting \in Posts' /\ calls'[posting].key = key
    BY <1>3 DEF IInv, PageOK, Posts
  <2> QED
    BY <1>1, <2>1, <2>2 DEF IInv, PageOK
<1>9. SelectionIsOffered'
  BY <1>1 DEF IInv, SelectionIsOffered, FormShown
<1> QED
  BY <1>5, <1>6, <1>7, <1>8, <1>9 DEF IInv

LEMMA ReadStateInv ==
  ASSUME IInv, NEW s \in Slots, ReadState(s)
  PROVE  IInv'
<1>1. /\ calls[s] # NoCall
      /\ calls' = [calls EXCEPT ![s].stage = "answered", ![s].code = "OK", ![s].state = path]
      /\ UNCHANGED <<path, page, form, history>>
  BY DEF ReadState
<1>2. PICK c : c = [calls[s] EXCEPT !.stage = "answered", !.code = "OK", !.state = path]
  OBVIOUS
<1>3. PathOK(path) /\ path \in Walks
  BY DEF IInv, PathOK
<1>4. /\ c \in Calls /\ c.op = calls[s].op /\ Content(c) = Content(calls[s])
      /\ c.edge = calls[s].edge /\ c.body = calls[s].body /\ c.key = calls[s].key
      /\ c.stage = "answered" /\ c.code = "OK" /\ c.state = path
  <2>1. calls[s] \in Calls
    BY <1>1 DEF IInv, Typed
  <2> QED
    BY <1>2, <1>3, <2>1 DEF Calls, Codes, Content
<1>5. calls' = [calls EXCEPT ![s] = c]
  BY <1>1, <1>2
<1>6. Behind(c.state, path)
  BY <1>3, <1>4, BehindItself
<1>7. c.op = "post" => PostOK(c, path)
  BY <1>3, <1>4 DEF PathOK, PostOK, Posts
<1>8. posting = s => PrefixOf(data, c.state)
  BY <1>3, <1>4, NothingApart DEF IInv, PageOK, PathOK, Behind
<1> QED
  BY <1>1, <1>3, <1>4, <1>5, <1>6, <1>7, <1>8, CallMoves

(* The first four outcomes of ApplyDecision leave the walk as it is.       *)
LEMMA ReachInv ==
  ASSUME IInv, NEW s \in Slots, calls[s] # NoCall, calls[s].op = "post",
         NEW stage \in {"applied", "answered"}, NEW code \in Codes \ {"OK"}, Reach(s, stage, code),
         NEW q, q = path', PathOK(q),
         stage = "answered" => Unrecorded(calls[s].key, q) /\ Passed(calls[s].edge, q),
         UNCHANGED <<page, form, history>>
  PROVE  IInv'
<1>1. calls' = [calls EXCEPT ![s].stage = stage, ![s].code = code]
  BY DEF Reach
<1>2. PICK c : c = [calls[s] EXCEPT !.stage = stage, !.code = code]
  OBVIOUS
<1>3. calls[s] \in Calls
  BY DEF IInv, Typed
<1>4. /\ c \in Calls /\ c.op = calls[s].op /\ Content(c) = Content(calls[s])
      /\ c.edge = calls[s].edge /\ c.body = calls[s].body /\ c.key = calls[s].key
      /\ c.stage = stage /\ c.code = code /\ c.state = calls[s].state
  BY <1>2, <1>3 DEF Calls, Content
<1>5. calls' = [calls EXCEPT ![s] = c]
  BY <1>1, <1>2
<1>6. Behind(c.state, q)
  BY <1>4 DEF PathOK
<1>7. PostOK(c, q)
  <2>1. PostOK(calls[s], q)
    BY DEF PathOK, Posts
  <2> QED
    BY <1>4, <2>1 DEF PostOK
<1> QED
  BY <1>4, <1>5, <1>6, <1>7, CallMoves

LEMMA ApplyInv ==
  ASSUME IInv, NEW s \in Slots, Apply(s)
  PROVE  IInv'
<1> DEFINE c == calls[s]
<1>1. c # NoCall /\ c.op = "post" /\ s \in Posts /\ UNCHANGED <<page, form, history>>
  BY DEF Apply, Posts
<1>2. PathOK(path) /\ PostOK(c, path) /\ path \in Walks /\ c \in Calls
  BY <1>1 DEF IInv, Typed, PathOK
<1>3. ValidEvidence(c.body.evidence)
  BY <1>2 DEF PostOK
<1>4. CASE Recorded(c.key) # {}
  <2>1. \E i \in Recorded(c.key) : path[i].edge = c.edge /\ path[i].body = c.body
    BY <1>2, <1>4 DEF Recorded, PostOK, RecordedAs, Content
  <2>2. Reach(s, "applied", "none") /\ UNCHANGED path
    BY <1>3, <1>4, <2>1 DEF Apply
  <2>3. "none" \in Codes \ {"OK"}
    BY DEF Codes
  <2> QED
    BY <1>1, <1>2, <2>2, <2>3, ReachInv
<1>5. CASE Recorded(c.key) = {} /\ c.edge \notin AvailableChoices(path)
  <2>1. PICK code \in Codes \ {"OK"} : Reach(s, "answered", code) /\ UNCHANGED path
    BY <1>3, <1>5 DEF Apply, Codes
  <2>2. Unrecorded(c.key, path)
    BY <1>5 DEF Recorded, Unrecorded
  <2>3. Passed(c.edge, path)
    BY <1>2, <1>5, NotOfferedIsPassed DEF PostOK
  <2> QED
    BY <1>1, <1>2, <2>1, <2>2, <2>3, ReachInv
<1>6. CASE Recorded(c.key) = {} /\ c.edge \in AvailableChoices(path)
  <2>1. ~AtTerminal(path)
    BY <1>2, <1>6, EndIsNode, PlaybookFacts DEF AtTerminal, AvailableChoices
  <2> DEFINE d == [edge |-> c.edge, body |-> c.body, key |-> c.key]
  <2>2. path' = Append(path, d) /\ Reach(s, "applied", "none")
    BY <1>3, <1>6, <2>1 DEF Apply
  <2>3. d \in Decisions /\ d.key = c.key /\ d.edge = c.edge /\ Content(d) = Content(c)
    BY <1>2 DEF Decisions, Calls, PostOK, Content
  <2>4. PICK q : q = path'
    OBVIOUS
  <2> HIDE DEF d
  <2>5. GoesOn(path, d, q)
    BY <1>2, <1>6, <2>2, <2>3, <2>4 DEF GoesOn, PathOK
  <2>6. PathOK(q)
    <3>1. d.key \in minted
      BY <1>1, <2>3 DEF IInv, KeysOK
    <3>2. \A t \in Posts : d.key = calls[t].key => Content(d) = Content(calls[t])
      BY <1>1, <2>3 DEF IInv, KeysOK
    <3>3. d.key = key => Content(d) = keyFor
      BY <1>1, <2>3 DEF IInv, KeysOK
    <3> QED
      BY <2>5, <3>1, <3>2, <3>3, PathGoesOn
  <2>7. "none" \in Codes \ {"OK"}
    BY DEF Codes
  <2> QED
    BY <1>1, <2>2, <2>4, <2>6, <2>7, ReachInv
<1> QED
  BY <1>4, <1>5, <1>6

----------------------------------------------------------------------------
(* The page.  Its steps record nothing, and only Submit adds a submission. *)

Get == Call("get", NoEdge, BlankBody, NoKey)

LEMMA NoMorePosts ==
  ASSUME IInv, UNCHANGED path, NEW s \in Slots,
         calls' \in {[calls EXCEPT ![s] = NoCall], [calls EXCEPT ![s] = Get]}
  PROVE  /\ DOMAIN calls' = Slots /\ \A t \in Slots : calls'[t] = NoCall \/ calls'[t] \in Calls
         /\ \A t \in Slots : t # s => calls'[t] = calls[t]
         /\ Posts' = Posts \ {s}
         /\ \A t \in Slots : calls'[t] # NoCall => Behind(calls'[t].state, path')
         /\ \A t \in Posts' : calls'[t] = calls[t] /\ PostOK(calls'[t], path')
<1>1. PathOK(path) /\ path \in Walks
  BY DEF IInv, PathOK
<1>2. Get \in Calls /\ Get.op = "get" /\ NoCall.op = "none" /\ Get.state = <<>>
  BY BlankFormTyped DEF Get, Call, Calls, Bodies, BlankBody, Codes, Walks, NoCall
<1>3. Behind(<<>>, path)
  BY <1>1, BeginsBehind DEF PathOK
<1>4. /\ DOMAIN calls' = Slots /\ calls'[s] \in {NoCall, Get}
      /\ \A t \in Slots : t # s => calls'[t] = calls[t]
  BY DEF IInv, Typed
<1>5. \A t \in Slots : calls'[t] = NoCall \/ calls'[t] \in Calls
  BY <1>2, <1>4 DEF IInv, Typed
<1>6. Posts' = Posts \ {s}
  BY <1>2, <1>4 DEF Posts
<1>7. \A t \in Slots : calls'[t] # NoCall => Behind(calls'[t].state, path')
  BY <1>1, <1>2, <1>3, <1>4 DEF PathOK
<1>8. \A t \in Posts' : calls'[t] = calls[t] /\ PostOK(calls'[t], path')
  BY <1>1, <1>4, <1>6 DEF PathOK, Posts
<1> QED
  BY <1>4, <1>5, <1>6, <1>7, <1>8

LEMMA VanishInv ==
  ASSUME IInv, NEW s \in Slots, Vanish(s)
  PROVE  IInv'
<1>1. /\ s \notin {getting, posting} /\ calls' = [calls EXCEPT ![s] = NoCall]
      /\ UNCHANGED <<path, data, failed, getting, edge, body, key, keyFor, posting, error, minted, sent>>
  BY DEF Vanish, page, form, history
<1>2. /\ DOMAIN calls' = Slots /\ \A t \in Slots : calls'[t] = NoCall \/ calls'[t] \in Calls
      /\ \A t \in Slots : t # s => calls'[t] = calls[t]
      /\ Posts' = Posts \ {s}
      /\ \A t \in Slots : calls'[t] # NoCall => Behind(calls'[t].state, path')
      /\ \A t \in Posts' : calls'[t] = calls[t] /\ PostOK(calls'[t], path')
  BY <1>1, NoMorePosts
<1>3. Typed'
  BY <1>1, <1>2 DEF IInv, Typed
<1>4. PathOK(path)'
  BY <1>1, <1>2 DEF IInv, PathOK
<1>5. KeysOK'
  BY <1>1, <1>2 DEF IInv, KeysOK
<1>6. PageOK'
  <2>1. posting # NoSlot => posting \in Posts' /\ calls'[posting] = calls[posting]
    BY <1>1, <1>2 DEF IInv, PageOK, Posts
  <2> QED
    BY <1>1, <2>1 DEF IInv, PageOK
<1>7. SelectionIsOffered'
  BY <1>1 DEF IInv, SelectionIsOffered, FormShown
<1> QED
  BY <1>3, <1>4, <1>5, <1>6, <1>7 DEF IInv

(* The form has no key: it has sent nothing.                               *)
LEMMA NoKeyNothingSent ==
  ASSUME IInv, NEW s \in Slots, NEW t, t \in Posts \ {s}
  PROVE  calls[t].key # NoKey
BY NothingApart DEF IInv, KeysOK, Typed

LEMMA OpenInv ==
  ASSUME IInv, Open
  PROVE  IInv'
<1>1. PICK s \in FreeSlots : Load(s)
  BY DEF Open
<1>2. /\ s \in Slots /\ calls' = [calls EXCEPT ![s] = Get] /\ getting' = s /\ data' = NoState
      /\ edge' = NoEdge /\ body' = BlankBody /\ key' = NoKey /\ sent' = NothingSent
      /\ posting' = NoSlot /\ error' = "none" /\ UNCHANGED <<path, minted>>
  BY <1>1 DEF Open, Load, FreeSlots, ForgetDecision, Get
<1>3. /\ DOMAIN calls' = Slots /\ \A t \in Slots : calls'[t] = NoCall \/ calls'[t] \in Calls
      /\ Posts' = Posts \ {s}
      /\ \A t \in Slots : calls'[t] # NoCall => Behind(calls'[t].state, path')
      /\ \A t \in Posts' : calls'[t] = calls[t] /\ PostOK(calls'[t], path')
  BY <1>2, NoMorePosts
<1>4. Typed'
  <2>1. BlankBody \in Drafts
    BY BlankFormTyped DEF BlankBody, Drafts
  <2> QED
    BY <1>2, <1>3, <2>1 DEF IInv, Typed, Codes
<1>5. PathOK(path)'
  BY <1>2, <1>3 DEF IInv, PathOK
<1>6. KeysOK'
  BY <1>2, <1>3, NoKeyNothingSent DEF IInv, KeysOK
<1>7. PageOK' /\ SelectionIsOffered'
  BY <1>2 DEF PageOK, SelectionIsOffered
<1> QED
  BY <1>4, <1>5, <1>6, <1>7 DEF IInv

LEMMA ReloadInv ==
  ASSUME IInv, Reload
  PROVE  IInv'
<1>1. PICK s \in FreeSlots : Load(s)
  BY DEF Reload
<1>2. /\ s \in Slots /\ calls[s] = NoCall /\ calls' = [calls EXCEPT ![s] = Get] /\ getting' = s
      /\ data = NoState
      /\ UNCHANGED <<path, data, edge, body, key, keyFor, posting, error, minted, sent>>
  BY <1>1 DEF Reload, Load, FreeSlots, Get, form, history
<1>3. /\ DOMAIN calls' = Slots /\ \A t \in Slots : calls'[t] = NoCall \/ calls'[t] \in Calls
      /\ Posts' = Posts \ {s}
      /\ \A t \in Slots : calls'[t] # NoCall => Behind(calls'[t].state, path')
      /\ \A t \in Posts' : calls'[t] = calls[t] /\ PostOK(calls'[t], path')
  BY <1>2, NoMorePosts
<1>4. edge = NoEdge /\ posting = NoSlot
  BY <1>2 DEF IInv, PageOK
<1>5. Typed'
  BY <1>2, <1>3 DEF IInv, Typed
<1>6. PathOK(path)'
  BY <1>2, <1>3 DEF IInv, PathOK
<1>7. KeysOK'
  BY <1>2, <1>3 DEF IInv, KeysOK
<1>8. PageOK' /\ SelectionIsOffered'
  BY <1>2, <1>4 DEF PageOK, SelectionIsOffered
<1> QED
  BY <1>5, <1>6, <1>7, <1>8 DEF IInv

LEMMA LoadFailedInv ==
  ASSUME IInv, LoadFailed
  PROVE  IInv'
BY DEF LoadFailed, form, history, IInv, Typed, PathOK, KeysOK, PageOK, Posts, SelectionIsOffered,
       FormShown

(* What a call answers is behind the walk.                                 *)
LEMMA AnswerIsBehind ==
  ASSUME IInv, NEW s, Answered(s), s \in Slots
  PROVE  calls[s] \in Calls /\ calls[s].state \in Walks /\ Behind(calls[s].state, path)
<1>1. calls[s] \in Calls
  BY DEF IInv, Typed, Answered
<1> QED
  BY <1>1 DEF IInv, PathOK, Answered, Calls

LEMMA LoadedInv ==
  ASSUME IInv, NEW s \in Slots, Loaded(s)
  PROVE  IInv'
<1>1. /\ Answered(s) /\ s # NoSlot /\ s = getting /\ data' = calls[s].state /\ getting' = NoSlot
      /\ calls' = [calls EXCEPT ![s] = NoCall]
      /\ UNCHANGED <<path, edge, body, key, keyFor, posting, error, minted, sent>>
  BY DEF Loaded, Answered, form, history
<1>2. /\ DOMAIN calls' = Slots /\ \A t \in Slots : calls'[t] = NoCall \/ calls'[t] \in Calls
      /\ Posts' = Posts \ {s}
      /\ \A t \in Slots : calls'[t] # NoCall => Behind(calls'[t].state, path')
      /\ \A t \in Posts' : calls'[t] = calls[t] /\ PostOK(calls'[t], path')
  BY <1>1, NoMorePosts
<1>3. edge = NoEdge /\ posting = NoSlot
  BY <1>1 DEF IInv, PageOK
<1>4. data' \in Walks /\ Behind(data', path)
  BY <1>1, AnswerIsBehind
<1>5. Typed'
  BY <1>1, <1>2, <1>4 DEF IInv, Typed
<1>6. PathOK(path)'
  BY <1>1, <1>2, <1>4 DEF IInv, PathOK
<1>7. KeysOK'
  BY <1>1, <1>2 DEF IInv, KeysOK
<1>8. PageOK' /\ SelectionIsOffered'
  BY <1>1, <1>3 DEF PageOK, SelectionIsOffered
<1> QED
  BY <1>5, <1>6, <1>7, <1>8 DEF IInv

LEMMA LandedInv ==
  ASSUME IInv, NEW s \in Slots, Landed(s)
  PROVE  IInv'
<1>1. /\ Answered(s) /\ s # NoSlot /\ s = posting /\ data' = calls[s].state
      /\ edge' = NoEdge /\ key' = NoKey /\ sent' = NothingSent /\ body' = Cleared(body)
      /\ posting' = NoSlot /\ calls' = [calls EXCEPT ![s] = NoCall]
      /\ UNCHANGED <<path, getting, error, minted>>
  BY DEF Landed, Answered, ForgetDecision
<1>2. /\ DOMAIN calls' = Slots /\ \A t \in Slots : calls'[t] = NoCall \/ calls'[t] \in Calls
      /\ Posts' = Posts \ {s}
      /\ \A t \in Slots : calls'[t] # NoCall => Behind(calls'[t].state, path')
      /\ \A t \in Posts' : calls'[t] = calls[t] /\ PostOK(calls'[t], path')
  BY <1>1, NoMorePosts
<1>3. data # NoState /\ getting = NoSlot
  BY <1>1 DEF IInv, PageOK
<1>4. data' \in Walks /\ Behind(data', path)
  BY <1>1, AnswerIsBehind
<1>5. Typed'
  <2>1. Cleared(body) \in Drafts
    <3>1. body \in Drafts
      BY DEF IInv, Typed
    <3>2. <<>> \in Seq(Rows)
      OBVIOUS
    <3> QED
      BY <3>1, <3>2, BlankFormTyped DEF Cleared, Drafts
  <2> QED
    BY <1>1, <1>2, <1>4, <2>1 DEF IInv, Typed
<1>6. PathOK(path)'
  BY <1>1, <1>2, <1>4 DEF IInv, PathOK
<1>7. KeysOK'
  BY <1>1, <1>2, NoKeyNothingSent DEF IInv, KeysOK
<1>8. PageOK' /\ SelectionIsOffered'
  BY <1>1, <1>3 DEF PageOK, SelectionIsOffered
<1> QED
  BY <1>5, <1>6, <1>7, <1>8 DEF IInv

(* A refusal is of the form's own key, which nobody can record any more.   *)
LEMMA RefusedInv ==
  ASSUME IInv, NEW s \in Slots, Refused(s)
  PROVE  IInv'
<1>1. /\ Answered(s) /\ s # NoSlot /\ s = posting /\ calls[s].stage = "answered"
      /\ calls[s].code # "OK" /\ error' = calls[s].code
      /\ posting' = NoSlot /\ calls' = [calls EXCEPT ![s] = NoCall]
      /\ UNCHANGED <<path, data, getting, edge, body, key, keyFor, minted, sent>>
  BY DEF Refused, Answered, page, history
<1>2. /\ DOMAIN calls' = Slots /\ \A t \in Slots : calls'[t] = NoCall \/ calls'[t] \in Calls
      /\ Posts' = Posts \ {s}
      /\ \A t \in Slots : calls'[t] # NoCall => Behind(calls'[t].state, path')
      /\ \A t \in Posts' : calls'[t] = calls[t] /\ PostOK(calls'[t], path')
  BY <1>1, NoMorePosts
<1>3. s \in Posts /\ calls[s].key = key /\ Content(calls[s]) = keyFor
  BY <1>1 DEF IInv, PageOK, KeysOK
<1>4. Unrecorded(key, path) /\ Passed(keyFor.edge, path)
  <2>1. PostOK(calls[s], path)
    BY <1>3 DEF IInv, PathOK
  <2>2. keyFor.edge = calls[s].edge
    BY <1>3 DEF Content
  <2> QED
    BY <1>1, <1>3, <2>1, <2>2 DEF PostOK
<1>5. error' \in Codes
  BY <1>1, AnswerIsBehind DEF Calls
<1>6. Typed'
  BY <1>1, <1>2, <1>5 DEF IInv, Typed
<1>7. PathOK(path)'
  BY <1>1, <1>2, <1>4 DEF IInv, PathOK
<1>8. KeysOK'
  BY <1>1, <1>2 DEF IInv, KeysOK
<1>9. PageOK' /\ SelectionIsOffered'
  BY <1>1 DEF IInv, PageOK, SelectionIsOffered, FormShown
<1> QED
  BY <1>6, <1>7, <1>8, <1>9 DEF IInv

LEMMA SendFailedInv ==
  ASSUME IInv, SendFailed
  PROVE  IInv'
<1>1. /\ error' = "NETWORK_ERROR" /\ posting' = NoSlot
      /\ UNCHANGED <<path, calls, data, getting, edge, body, key, keyFor, minted, sent>>
  BY DEF SendFailed, page, history
<1>2. Typed' /\ KeysOK' /\ PageOK' /\ SelectionIsOffered'
  BY <1>1 DEF IInv, Typed, KeysOK, PageOK, Posts, SelectionIsOffered, FormShown
<1>3. PathOK(path)'
  BY <1>1 DEF IInv, PathOK, Posts, Refusals
<1> QED
  BY <1>2, <1>3 DEF IInv

----------------------------------------------------------------------------
(* The form.                                                               *)

(* The fields of the form change, and an error goes at most.               *)
LEMMA FieldsInv ==
  ASSUME IInv, body' \in Drafts, error' \in {error, "none"}, SelectionIsOffered',
         data # NoState,
         UNCHANGED <<path, calls, data, getting, key, keyFor, posting, minted, sent>>
  PROVE  IInv'
<1>1. Typed' /\ KeysOK' /\ PageOK'
  BY DEF IInv, Typed, Codes, KeysOK, PageOK, Posts
<1>2. PathOK(path)'
  BY DEF IInv, PathOK, Posts, Refusals
<1> QED
  BY <1>1, <1>2 DEF IInv

LEMMA ChooseEdgeInv ==
  ASSUME IInv, NEW e \in EdgeIDs(Playbook), ChooseEdge(e)
  PROVE  IInv'
<1>1. /\ FormShown /\ data # NoState /\ e \in AvailableChoices(data) /\ edge' = e /\ error' = "none"
      /\ UNCHANGED <<path, calls, data, getting, key, keyFor, posting, minted, sent>>
  BY DEF ChooseEdge, Editable, FormShown, page, history
<1>2. body \in Drafts
  BY DEF IInv, Typed
<1>3. body' \in Drafts
  <2>1. CASE UNCHANGED body
    BY <1>2, <2>1
  <2>2. ASSUME NEW r \in Rationales, NEW row \in Rows,
               body' = [body EXCEPT !.rationale = r, !.evidence = <<row>>]
        PROVE  body' \in Drafts
    <3>1. <<row>> \in Seq(Rows)
      OBVIOUS
    <3> QED
      BY <1>2, <2>2, <3>1 DEF Drafts
  <2> QED
    BY <2>1, <2>2 DEF ChooseEdge
<1>4. SelectionIsOffered'
  BY <1>1 DEF SelectionIsOffered, FormShown
<1> QED
  BY <1>1, <1>3, <1>4, FieldsInv

LEMMA EditInv ==
  ASSUME IInv, NEW b \in Drafts, Edit(b)
  PROVE  IInv'
<1>1. /\ data # NoState /\ body' = b
      /\ UNCHANGED <<path, calls, data, getting, edge, key, keyFor, posting, error, minted, sent>>
  BY DEF Edit, Editable, FormShown, page, history
<1>2. SelectionIsOffered'
  BY <1>1 DEF IInv, SelectionIsOffered, FormShown
<1> QED
  BY <1>1, <1>2, FieldsInv

LEMMA EditsInv ==
  ASSUME IInv,
         \/ \E a \in Actors : EditActor(a)
         \/ \E r \in Rationales : EditRationale(r)
         \/ AddEvidence
         \/ \E i \in 1..MaxRows : RemoveEvidence(i) \/ \E row \in Rows : UpdateEvidence(i, row)
  PROVE  IInv'
<1>1. body \in Drafts /\ body.evidence \in Seq(Rows)
  BY DEF IInv, Typed, Drafts
<1>2. ASSUME NEW a \in Actors, EditActor(a) PROVE IInv'
  <2>1. [body EXCEPT !.actor = a] \in Drafts
    BY <1>1 DEF Drafts
  <2> QED
    BY <1>2, <2>1, EditInv DEF EditActor
<1>3. ASSUME NEW r \in Rationales, EditRationale(r) PROVE IInv'
  <2>1. [body EXCEPT !.rationale = r] \in Drafts
    BY <1>1 DEF Drafts
  <2> QED
    BY <1>3, <2>1, EditInv DEF EditRationale
<1>4. ASSUME NEW rows \in Seq(Rows) PROVE [body EXCEPT !.evidence = rows] \in Drafts
  BY <1>1 DEF Drafts
<1>5. ASSUME AddEvidence PROVE IInv'
  <2>1. Append(body.evidence, NewEvidenceDraft) \in Seq(Rows)
    BY <1>1, BlankFormTyped, AppendProperties
  <2> QED
    BY <1>4, <1>5, <2>1, EditInv DEF AddEvidence
<1>6. ASSUME NEW i \in DOMAIN body.evidence, RemoveEvidence(i) PROVE IInv'
  <2>1. i \in 1..Len(body.evidence) /\ Len(body.evidence) \in Nat
    BY <1>1
  <2>2. /\ SubSeq(body.evidence, 1, i - 1) \in Seq(Rows)
        /\ SubSeq(body.evidence, i + 1, Len(body.evidence)) \in Seq(Rows)
    BY <1>1, <2>1
  <2>3. SubSeq(body.evidence, 1, i - 1) \o SubSeq(body.evidence, i + 1, Len(body.evidence)) \in Seq(Rows)
    BY <2>2, ConcatProperties
  <2> QED
    BY <1>4, <1>6, <2>3, EditInv DEF RemoveEvidence
<1>7. ASSUME NEW i \in DOMAIN body.evidence, NEW row \in Rows, UpdateEvidence(i, row) PROVE IInv'
  <2>1. [body.evidence EXCEPT ![i] = row] \in Seq(Rows)
    BY <1>1, ExceptSeq
  <2> QED
    BY <1>4, <1>7, <2>1, EditInv DEF UpdateEvidence
<1> QED
  BY <1>2, <1>3, <1>5, <1>6, <1>7 DEF RemoveEvidence, UpdateEvidence

(* A fresh key is nobody's; a key used again is for the same content.      *)
LEMMA KeyIsForContent ==
  ASSUME IInv, NEW k \in Keys, NEW content, IdempotencyKeyFor(content, k)
  PROVE  /\ RecordedAs(k, content, path)
         /\ \A t \in Posts : calls[t].key = k => Content(calls[t]) = content
         /\ [content |-> content, keys |-> {k} \cup (IF sent.content = content THEN sent.keys ELSE {})]
              = [content |-> content, keys |-> {k}]
<1>1. CASE key = NoKey \/ keyFor # content
  <2>1. k \notin minted /\ k # NoKey
    BY <1>1, NothingApart DEF IdempotencyKeyFor
  <2>2. RecordedAs(k, content, path)
    BY <2>1 DEF IInv, PathOK, RecordedAs
  <2>3. \A t \in Posts : calls[t].key # k
    BY <2>1 DEF IInv, KeysOK
  <2>4. (IF sent.content = content THEN sent.keys ELSE {}) = {}
    BY <1>1 DEF IInv, KeysOK, NothingSent
  <2> QED
    BY <2>2, <2>3, <2>4
<1>2. CASE ~(key = NoKey \/ keyFor # content)
  <2>1. k = key /\ key # NoKey /\ keyFor = content
    BY <1>2 DEF IdempotencyKeyFor
  <2>2. RecordedAs(k, content, path)
    BY <2>1 DEF IInv, PathOK
  <2>3. \A t \in Posts : calls[t].key = k => Content(calls[t]) = content
    BY <2>1 DEF IInv, KeysOK
  <2>4. sent.keys = {k}
    BY <2>1 DEF IInv, KeysOK
  <2> QED
    BY <2>2, <2>3, <2>4
<1> QED
  BY <1>1, <1>2

LEMMA SubmitInv ==
  ASSUME IInv, NEW k \in Keys, Submit(k)
  PROVE  IInv'
<1>1. PICK content : content = [edge |-> edge, body |-> [body EXCEPT !.evidence = Serialized(@)]]
  OBVIOUS
<1>2. /\ FormShown /\ data # NoState /\ posting = NoSlot /\ edge # NoEdge /\ Serializes(body.evidence)
      /\ IdempotencyKeyFor(content, k) /\ key' = k /\ keyFor' = content /\ error' = "none"
      /\ minted' = minted \cup {k}
      /\ UNCHANGED <<path, data, getting, edge, body>>
  BY <1>1 DEF Submit, Editable, FormShown, Send
<1>3. /\ RecordedAs(k, content, path) /\ k # NoKey
      /\ \A t \in Posts : calls[t].key = k => Content(calls[t]) = content
      /\ sent' = [content |-> content, keys |-> {k}]
  BY <1>1, <1>2, KeyIsForContent, NothingApart DEF Submit, Send
<1>4. PICK s \in FreeSlots : /\ calls' = [calls EXCEPT ![s] = Call("post", content.edge, content.body, k)]
                             /\ posting' = s
  BY <1>1 DEF Submit, Send
<1>5. PICK c : c = Call("post", content.edge, content.body, k)
  OBVIOUS
<1>6. edge \in AvailableChoices(data) /\ edge \in EdgeIDs(Playbook)
  BY <1>2 DEF IInv, SelectionIsOffered, AvailableChoices, OutgoingEdges
<1>7. content.edge = edge /\ content.body \in Bodies /\ ValidEvidence(content.body.evidence)
  <2>1. body \in Drafts /\ body.evidence \in Seq(Rows)
    BY DEF IInv, Typed, Drafts
  <2>2. Serialized(body.evidence) \in Seq(Items) /\ ValidEvidence(Serialized(body.evidence))
    BY <1>2, <2>1, SerializedValid
  <2>3. content.edge = edge /\ content.body = [body EXCEPT !.evidence = Serialized(body.evidence)]
    BY <1>1
  <2>4. content.body \in Bodies /\ content.body.evidence = Serialized(body.evidence)
    BY <2>1, <2>2, <2>3 DEF Bodies, Drafts
  <2> QED
    BY <2>2, <2>3, <2>4
<1>8. /\ c \in Calls /\ c.op = "post" /\ c.edge = edge /\ c.body = content.body /\ c.key = k
      /\ c.stage = "sent" /\ c.state = <<>> /\ Content(c) = content
  BY <1>1, <1>5, <1>6, <1>7 DEF Call, Calls, Codes, Walks, Content
<1>9. /\ s \in Slots /\ calls[s] = NoCall /\ DOMAIN calls' = Slots /\ calls'[s] = c
      /\ \A t \in Slots : t # s => calls'[t] = calls[t]
  BY <1>4, <1>5 DEF FreeSlots, IInv, Typed
<1>10. Posts' = Posts \cup {s} /\ s \notin Posts
  BY <1>8, <1>9 DEF Posts, NoCall
<1>11. PostOK(c, path)
  <2>1. EndOf(data) \in Visited(path)
    BY <1>2 DEF IInv, PathOK, Behind
  <2>2. Playbook.edges[edge].from = EndOf(data)
    BY <1>6 DEF AvailableChoices, OutgoingEdges
  <2> QED
    BY <1>3, <1>6, <1>7, <1>8, <2>1, <2>2 DEF PostOK
<1>12. Behind(<<>>, path)
  BY BeginsBehind DEF IInv, PathOK
<1>13. Typed'
  BY <1>2, <1>4, <1>8, <1>9 DEF IInv, Typed, Codes
<1>14. PathOK(path)'
  <2>1. \A t \in Slots : calls'[t] # NoCall => Behind(calls'[t].state, path)
    BY <1>8, <1>9, <1>12 DEF IInv, PathOK
  <2>2. \A t \in Posts' : PostOK(calls'[t], path)
    BY <1>9, <1>10, <1>11 DEF IInv, PathOK, Posts
  <2>3. error' \notin Refusals
    BY <1>2 DEF Refusals
  <2>4. path \in Walks /\ Joined(path) /\ \A i \in 1..Len(path) : path[i].key \in minted' \cup {NoKey}
    BY <1>2 DEF IInv, PathOK
  <2>5. data # NoState => Behind(data, path)
    BY DEF IInv, PathOK
  <2> QED
    BY <1>2, <1>3, <2>1, <2>2, <2>3, <2>4, <2>5 DEF PathOK
<1>15. KeysOK'
  <2>1. \A t \in Posts' : (t \in Posts /\ calls'[t] = calls[t]) \/ calls'[t] = c
    BY <1>9, <1>10 DEF Posts
  <2>2. \A t \in Posts' : calls'[t].key \in minted'
    BY <1>2, <1>8, <2>1 DEF IInv, KeysOK
  <2>3. \A t, u \in Posts' : calls'[t].key = calls'[u].key => Content(calls'[t]) = Content(calls'[u])
    BY <1>3, <1>8, <2>1 DEF IInv, KeysOK
  <2>4. \A t \in Posts' : calls'[t].key = key' => Content(calls'[t]) = keyFor'
    BY <1>2, <1>3, <1>8, <2>1
  <2> QED
    BY <1>2, <1>3, <2>2, <2>3, <2>4 DEF KeysOK
<1>16. PageOK'
  <2>1. getting = NoSlot
    BY <1>2 DEF IInv, PageOK
  <2> QED
    BY <1>2, <1>4, <1>8, <1>9, <1>10, <2>1 DEF PageOK
<1>17. SelectionIsOffered'
  BY <1>2 DEF IInv, SelectionIsOffered, FormShown
<1> QED
  BY <1>13, <1>14, <1>15, <1>16, <1>17 DEF IInv

----------------------------------------------------------------------------
LEMMA NextInv ==
  ASSUME IInv, [Next]_vars
  PROVE  IInv'
<1>1. ASSUME NEW e \in EdgeIDs(Playbook), OtherDecides(e) \/ ChooseEdge(e) PROVE IInv'
  BY <1>1, OtherDecidesInv, ChooseEdgeInv
<1>2. ASSUME NEW s \in Slots, Apply(s) \/ ReadState(s) \/ Vanish(s) PROVE IInv'
  BY <1>2, ApplyInv, ReadStateInv, VanishInv
<1>3. CASE Open \/ Reload \/ LoadFailed \/ SendFailed
  BY <1>3, OpenInv, ReloadInv, LoadFailedInv, SendFailedInv
<1>4. ASSUME NEW s \in Slots, Loaded(s) \/ Landed(s) \/ Refused(s) PROVE IInv'
  BY <1>4, LoadedInv, LandedInv, RefusedInv
<1>5. CASE \/ \E a \in Actors : EditActor(a)
           \/ \E r \in Rationales : EditRationale(r)
           \/ AddEvidence
           \/ \E i \in 1..MaxRows : RemoveEvidence(i) \/ \E row \in Rows : UpdateEvidence(i, row)
  BY <1>5, EditsInv
<1>6. ASSUME NEW k \in Keys, Submit(k) PROVE IInv'
  BY <1>6, SubmitInv
<1>7. CASE UNCHANGED vars
  BY <1>7 DEF vars, page, form, history, IInv, Typed, PathOK, KeysOK, PageOK, Posts,
              SelectionIsOffered, FormShown
<1> QED
  BY <1>1, <1>2, <1>3, <1>4, <1>5, <1>6, <1>7 DEF Next

LEMMA SpecInv == Spec => []IInv
<1>1. Init => IInv
  BY InitInv
<1>2. IInv /\ [Next]_vars => IInv'
  BY NextInv
<1> QED
  BY <1>1, <1>2, PTL DEF Spec

(* The chosen edge is always one the page offers, on every playbook and    *)
(* whichever way loads, submissions and refreshes overtake one another.    *)
THEOREM SelectionHolds == Spec => []SelectionIsOffered
<1>1. IInv => SelectionIsOffered
  BY DEF IInv
<1> QED
  BY <1>1, SpecInv, PTL

(* When the form is told that its decision is refused, no attempt at it is *)
(* recorded: in an acyclic playbook the walk does not come back to an edge *)
(* it has passed, so a delayed attempt cannot land either.                 *)
THEOREM RefusalIsFinal == Spec => []RefusedMeansNotRecorded
<1>1. IInv => RefusedMeansNotRecorded
  <2> SUFFICES ASSUME IInv, error \in Refusals, NEW k \in sent.keys PROVE Recorded(k) = {}
    BY DEF RefusedMeansNotRecorded
  <2>1. key # NoKey /\ k = key
    BY DEF IInv, KeysOK, NothingSent
  <2>2. Unrecorded(k, path)
    BY <2>1 DEF IInv, PathOK
  <2> QED
    BY <2>2 DEF Unrecorded, Recorded
<1> QED
  BY <1>1, SpecInv, PTL

(* Evidence that serializeEvidence lets pass is never refused, for any     *)
(* number of rows with any content.                                        *)
THEOREM EvidenceIsAccepted == Spec => []EvidenceNeverRefused
<1>1. IInv => EvidenceNeverRefused
  BY DEF IInv, Typed, Codes, EvidenceNeverRefused
<1> QED
  BY <1>1, SpecInv, PTL

(* Within one page view the walk on display only ever grows.               *)
THEOREM DisplayMovesOn == Spec => ShownNeverGoesBack
<1>1. ASSUME IInv, [Next]_vars, data # NoState, data' # NoState PROVE PrefixOf(data, data')
  <2>1. CASE UNCHANGED data
    <3>1. Len(data) \in Nat
      BY <1>1 DEF IInv, Typed, Walks
    <3> QED
      BY <2>1, <3>1 DEF PrefixOf
  <2>2. ASSUME NEW s \in Slots, Loaded(s) PROVE FALSE
    BY <1>1, <2>2 DEF Loaded, Answered, IInv, PageOK
  <2>3. ASSUME NEW s \in Slots, Landed(s) PROVE PrefixOf(data, data')
    BY <2>3, <1>1 DEF Landed, Answered, IInv, PageOK
  <2>4. \/ UNCHANGED data \/ \E s \in Slots : Loaded(s) \/ Landed(s)
    BY <1>1 DEF Next, vars, page, OtherDecides, Apply, ReadState, Vanish, Open, Reload, LoadFailed, Refused,
                ChooseEdge, EditActor, EditRationale, AddEvidence, RemoveEvidence, UpdateEvidence,
                Edit, Submit, SendFailed
  <2> QED
    BY <2>1, <2>2, <2>3, <2>4
<1> QED
  BY <1>1, SpecInv, PTL DEF Spec, ShownNeverGoesBack

----------------------------------------------------------------------------
(* The server the page talks to is the one the engine is shown to be: one  *)
(* walk of AuditTrail, begun before the page is opened.                    *)

Trail == INSTANCE AuditTrail WITH
           trail <- [i \in {"shown"} |-> [version |-> "shown", path |-> path]],
           Investigations <- {"shown"}, Versions <- {"shown"},
           Graph <- [v \in {"shown"} |-> Playbook], EdgeRefs <- EdgeIDs(Playbook)

LEMMA GoesOnIsAdvance ==
  ASSUME NEW d \in Decisions, d.edge \in AvailableChoices(path), path' = Append(path, d),
         d.key = NoKey \/ Recorded(d.key) = {}, path \in Walks
  PROVE  Trail!Next
<1> DEFINE t == [i \in {"shown"} |-> [version |-> "shown", path |-> path]]
<1>1. t["shown"] = [version |-> "shown", path |-> path] /\ DOMAIN t = {"shown"}
  OBVIOUS
<1>2. d \in Trail!Decisions
  BY DEF Decisions, Trail!Decisions
<1>3. d.edge \in Trail!OutgoingEdges(Playbook, Trail!EndOf([version |-> "shown", path |-> path]))
  BY DEF AvailableChoices, EndOf, OutgoingEdges, EdgeIDs,
         Trail!EndOf, Trail!OutgoingEdges, Trail!EdgeIDs
<1>4. \A k \in DOMAIN path : d.key = NoKey \/ path[k].key # d.key
  BY DEF Recorded, Walks
<1>5. [i \in {"shown"} |-> [version |-> "shown", path |-> path']]
        = [t EXCEPT !["shown"].path = Append(t["shown"].path, d)]
  BY <1>1
<1>6. Trail!Advance("shown", d)
  <2>1. t["shown"].path = path /\ t["shown"].version = "shown"
    BY <1>1
  <2>2. d.edge \in Trail!OutgoingEdges([v \in {"shown"} |-> Playbook][t["shown"].version],
                                       Trail!EndOf(t["shown"]))
    BY <1>1, <1>3, <2>1
  <2>3. \A k \in DOMAIN t["shown"].path : d.key = NoKey \/ t["shown"].path[k].key # d.key
    BY <1>4, <2>1
  <2> QED
    BY <1>1, <1>5, <2>2, <2>3, Zenon DEF Trail!Advance
<1> QED
  BY <1>2, <1>6 DEF Trail!Next

(* Whatever the page, its network and the other clients do, the recorded   *)
(* walk changes by a step of AuditTrail only: by one decision, on an edge  *)
(* that leaves its end, under a key it does not bear.  So the page is      *)
(* judged against a server that promises no more than the engine keeps     *)
(* (ApplyDecision).                                                        *)
THEOREM ServerIsAuditTrail == Spec => [][Trail!Next]_path
<1>1. ASSUME IInv, [Next]_vars PROVE [Trail!Next]_path
  <2>1. path \in Walks
    BY <1>1 DEF IInv, PathOK
  <2>2. ASSUME NEW e \in EdgeIDs(Playbook), OtherDecides(e) PROVE Trail!Next
    <3>1. PICK d : d = [edge |-> e, body |-> BlankBody, key |-> NoKey]
      OBVIOUS
    <3>2. d \in Decisions /\ d.edge = e /\ d.key = NoKey
      BY <3>1, BlankFormTyped DEF Decisions, Bodies, BlankBody
    <3>3. d.edge \in AvailableChoices(path) /\ path' = Append(path, d)
      BY <2>2, <3>1, <3>2 DEF OtherDecides
    <3> QED
      BY <2>1, <3>2, <3>3, GoesOnIsAdvance
  <2>3. ASSUME NEW s \in Slots, Apply(s), path' # path PROVE Trail!Next
    <3>1. PICK c : c = calls[s]
      OBVIOUS
    <3>2. PICK d : d = [edge |-> c.edge, body |-> c.body, key |-> c.key]
      OBVIOUS
    <3>3. /\ c # NoCall /\ c.op = "post" /\ Recorded(c.key) = {}
          /\ c.edge \in AvailableChoices(path) /\ path' = Append(path, d)
      BY <2>3, <3>1, <3>2 DEF Apply
    <3>4. c \in Calls /\ c.edge \in EdgeIDs(Playbook)
      BY <1>1, <3>1, <3>3 DEF IInv, Typed, AvailableChoices, OutgoingEdges
    <3>5. d \in Decisions /\ d.edge = c.edge /\ d.key = c.key
      BY <3>2, <3>4 DEF Decisions, Calls
    <3> QED
      BY <2>1, <3>3, <3>5, GoesOnIsAdvance
  <2>4. \/ UNCHANGED path
        \/ \E e \in EdgeIDs(Playbook) : OtherDecides(e)
        \/ \E s \in Slots : Apply(s)
    BY <1>1 DEF Next, vars, ReadState, Vanish, Open, Reload, LoadFailed, Loaded, Landed, Refused,
                ChooseEdge, EditActor, EditRationale, AddEvidence, RemoveEvidence, UpdateEvidence,
                Edit, Submit, Send, SendFailed
  <2> QED
    BY <2>2, <2>3, <2>4
<1> QED
  BY <1>1, SpecInv, PTL DEF Spec

=============================================================================
