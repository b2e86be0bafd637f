------------------------ MODULE PlaybookDraftProofs ------------------------
(***************************************************************************)
(* Proofs about the authoring form, for drafts of any size.                *)
(*                                                                         *)
(* What the form sends is the draft itself, free of errors, and the draft  *)
(* does not change while it is in flight: so what lands are the rows that  *)
(* were on the screen, and what the errors mark is what is there.          *)
(***************************************************************************)
EXTENDS PlaybookDraft, SequenceTheorems, FiniteSetTheorems, TLAPS

----------------------------------------------------------------------------
(* Lists: what an order of a set, a filter and a removal hold.             *)

LEMMA RowsFinite ==
  ASSUME NEW S, NEW s \in Seq(S)
  PROVE  IsFiniteSet(Range(s))
<1>1. s \in Surjection(1..Len(s), Range(s))
  BY DEF Surjection, Range
<1>2. IsFiniteSet(1..Len(s))
  BY FS_Interval
<1> QED
  BY <1>1, <1>2, FS_Surjection

LEMMA OrderHoldsAll ==
  ASSUME NEW S, IsFiniteSet(S), NEW f \in SetToSeqs(S)
  PROVE  /\ f \in Seq(S) /\ Range(f) = S
         /\ \A i, j \in DOMAIN f : f[i] = f[j] => i = j
<1> DEFINE D == 1..Cardinality(S)
<1>1. Cardinality(S) \in Nat
  BY FS_CardinalityType
<1>2. f \in [D -> S] /\ \A i, j \in D : i # j => f[i] # f[j]
  BY DEF SetToSeqs
<1>3. f \in Injection(D, S)
  BY <1>2 DEF Injection, IsInjective
<1>4. Cardinality(D) = Cardinality(S)
  BY <1>1, FS_Interval
<1>5. f \in Surjection(D, S)
  BY <1>3, <1>4, FS_Injection
<1>6. \A x \in S : \E i \in D : f[i] = x
  BY <1>5 DEF Surjection
<1>7. f \in Seq(S)
  BY <1>1, <1>2
<1> QED
  BY <1>2, <1>6, <1>7 DEF Range

LEMMA FilterHoldsWhatStays ==
  ASSUME NEW S, NEW s \in Seq(S), NEW stay \in SUBSET DOMAIN s, NEW r \in InOrder(s, stay)
  PROVE  r \in Seq(S) /\ Range(r) = {s[k] : k \in stay}
<1>1. PICK f \in SetToSeqs(stay) : r = [k \in DOMAIN f |-> s[f[k]]]
  BY DEF InOrder
<1>2. IsFiniteSet(DOMAIN s)
  BY FS_Interval
<1>3. IsFiniteSet(stay)
  BY <1>2, FS_Subset
<1>4. f \in Seq(stay) /\ Range(f) = stay
  BY <1>3, OrderHoldsAll
<1>5. DOMAIN f = 1..Len(f) /\ Len(f) \in Nat /\ \A k \in DOMAIN f : f[k] \in stay
  BY <1>4
<1>6. r \in Seq(S)
  BY <1>1, <1>5
<1>7. Range(r) = {s[k] : k \in Range(f)}
  BY <1>1 DEF Range
<1> QED
  BY <1>4, <1>6, <1>7

LEMMA RemovalKeepsRest ==
  ASSUME NEW S, NEW s \in Seq(S), NEW i \in DOMAIN s
  PROVE  /\ RemoveAt(s, i) \in Seq(S)
         /\ Range(RemoveAt(s, i)) = {s[k] : k \in DOMAIN s \ {i}}
<1> DEFINE a == SubSeq(s, 1, i - 1)
           b == SubSeq(s, i + 1, Len(s))
           r == a \o b
<1>1. i \in 1..Len(s) /\ Len(s) \in Nat /\ \A k \in 1..Len(s) : s[k] \in S
  OBVIOUS
<1>2. /\ a \in Seq(S) /\ Len(a) = i - 1
      /\ \A k \in 1..(i - 1) : a[k] = s[k]
  BY <1>1, SubSeqProperties
<1>3. /\ b \in Seq(S) /\ Len(b) = Len(s) - i
      /\ \A k \in 1..(Len(s) - i) : b[k] = s[i + k]
  <2>1. \A k \in (i + 1)..Len(s) : s[k] \in S
    BY <1>1
  <2>2. /\ b \in Seq(S)
        /\ Len(b) = IF i + 1 <= Len(s) THEN Len(s) - (i + 1) + 1 ELSE 0
        /\ \A k \in 1..(Len(s) - (i + 1) + 1) : b[k] = s[i + 1 + k - 1]
    BY <1>1, <2>1, SubSeqProperties
  <2> QED
    BY <1>1, <2>2
<1> HIDE DEF a, b
<1>4. /\ r \in Seq(S) /\ Len(r) = Len(a) + Len(b)
      /\ \A k \in 1..(Len(a) + Len(b)) : r[k] = IF k <= Len(a) THEN a[k] ELSE b[k - Len(a)]
  BY <1>2, <1>3, ConcatProperties
<1>5. RemoveAt(s, i) = r
  BY DEF RemoveAt, a, b
<1> HIDE DEF r
<1>6. \A k \in 1..(Len(s) - 1) : r[k] = IF k < i THEN s[k] ELSE s[k + 1]
  <2> SUFFICES ASSUME NEW k \in 1..(Len(s) - 1) PROVE r[k] = IF k < i THEN s[k] ELSE s[k + 1]
    OBVIOUS
  <2>1. Len(a) + Len(b) = Len(s) - 1
    BY <1>1, <1>2, <1>3
  <2>2. CASE k < i
    BY <1>1, <1>2, <1>4, <2>1, <2>2
  <2>3. CASE k >= i
    <3>1. r[k] = b[k - (i - 1)]
      BY <1>1, <1>2, <1>4, <2>1, <2>3
    <3>2. k - (i - 1) \in 1..(Len(s) - i) /\ i + (k - (i - 1)) = k + 1
      BY <1>1, <2>3
    <3> QED
      BY <1>1, <1>3, <2>3, <3>1, <3>2
  <2> QED
    BY <1>1, <2>2, <2>3
<1>7. DOMAIN r = 1..(Len(s) - 1) /\ DOMAIN s = 1..Len(s)
  BY <1>1, <1>2, <1>3, <1>4
<1>8. ASSUME NEW k \in DOMAIN r PROVE \E l \in DOMAIN s \ {i} : r[k] = s[l]
  BY <1>1, <1>6, <1>7
<1>9. ASSUME NEW l \in DOMAIN s \ {i} PROVE \E k \in DOMAIN r : r[k] = s[l]
  <2>1. CASE l < i
    BY <1>1, <1>6, <1>7, <2>1
  <2>2. CASE l > i
    <3>1. l - 1 \in DOMAIN r /\ r[l - 1] = s[l]
      BY <1>1, <1>6, <1>7, <2>2
    <3> QED
      BY <3>1
  <2> QED
    BY <1>1, <1>7, <2>1, <2>2
<1> QED
  BY <1>4, <1>5, <1>8, <1>9 DEF Range

----------------------------------------------------------------------------
(* The form's data.                                                        *)

Drafts == [root : NodeUUIDs \cup {NoNode}, nodes : Seq(NodeDraft), edges : Seq(EdgeDraft)]

(* No reference of the draft leads out of it.                              *)
Attached(d) ==
  /\ d.root \in IDs(d.nodes) \cup {NoNode}
  /\ \A e \in Range(d.edges) : {e.from, e.to} \subseteq IDs(d.nodes) \cup {NoNode}

(* What the absence of errors means, order apart.                          *)
Clean(d) ==
  /\ \A i, j \in DOMAIN d.nodes : d.nodes[i].id = d.nodes[j].id => i = j
  /\ \A n \in Range(d.nodes) :
       /\ n.title # Blank /\ n.metadata # "unparsable"
       /\ n.kind = KindTerminal => n.resolution # Blank
  /\ \A i, j \in DOMAIN d.edges :
       \/ d.edges[i].id = d.edges[j].id
       \/ d.edges[i].from = d.edges[j].from /\ d.edges[i].label = d.edges[j].label
       => i = j
  /\ \A e \in Range(d.edges) : e.label # Blank /\ {e.from, e.to} \subseteq IDs(d.nodes)
  /\ d.root \in IDs(d.nodes) \cup {NoNode}

LEMMA DraftParts ==
  ASSUME NEW d \in Drafts
  PROVE  /\ d = [root |-> d.root, nodes |-> d.nodes, edges |-> d.edges]
         /\ d.root \in NodeUUIDs \cup {NoNode}
         /\ d.nodes \in Seq(NodeDraft) /\ d.edges \in Seq(EdgeDraft)
BY DEF Drafts

LEMMA NodeParts ==
  ASSUME NEW n \in NodeDraft
  PROVE  /\ n.id \in NodeUUIDs /\ n.kind \in {KindDecision, KindTerminal}
         /\ n.title \in Texts \cup {Blank} /\ n.resolution \in Texts \cup {Blank}
         /\ n.metadata \in MetadataTexts
         /\ n = [id |-> n.id, kind |-> n.kind, title |-> n.title,
                 resolution |-> n.resolution, metadata |-> n.metadata]
BY DEF NodeDraft

LEMMA EdgeParts ==
  ASSUME NEW e \in EdgeDraft
  PROVE  /\ e.id \in EdgeUUIDs /\ e.label \in Texts \cup {Blank}
         /\ e.from \in NodeUUIDs \cup {NoNode} /\ e.to \in NodeUUIDs \cup {NoNode}
         /\ e.order \in OrderTexts
         /\ e = [id |-> e.id, from |-> e.from, to |-> e.to, label |-> e.label, order |-> e.order]
BY DEF EdgeDraft

LEMMA IDsAreUUIDs ==
  ASSUME NEW s \in Seq(NodeDraft)
  PROVE  IDs(s) \subseteq NodeUUIDs
<1>1. \A i \in DOMAIN s : s[i] \in NodeDraft
  OBVIOUS
<1> QED
  BY <1>1, NodeParts DEF IDs

LEMMA NoErrorsIsClean ==
  ASSUME NEW d \in Drafts
  PROVE  SerializationErrors(d) = {} <=> Clean(d)
<1>1. /\ d.nodes \in Seq(NodeDraft) /\ d.edges \in Seq(EdgeDraft)
      /\ DOMAIN d.nodes = 1..Len(d.nodes) /\ DOMAIN d.edges = 1..Len(d.edges)
      /\ Len(d.nodes) \in Nat /\ Len(d.edges) \in Nat
  BY DraftParts
<1>2. SerializationErrors(d) = {}
        <=> /\ \A i \in DOMAIN d.nodes : NodeErrors(d, i) = {}
            /\ \A i \in DOMAIN d.edges : EdgeErrors(d, i) = {}
            /\ RootErrors(d) = {}
  BY DEF SerializationErrors
<1>3. ASSUME NEW i \in DOMAIN d.nodes
      PROVE  NodeErrors(d, i) = {}
               <=> /\ \A j \in 1..(i - 1) : d.nodes[j].id # d.nodes[i].id
                   /\ d.nodes[i].title # Blank
                   /\ ~(d.nodes[i].kind = KindTerminal /\ d.nodes[i].resolution = Blank)
                   /\ d.nodes[i].metadata # "unparsable"
  BY DEF NodeErrors
<1>4. ASSUME NEW i \in DOMAIN d.edges
      PROVE  EdgeErrors(d, i) = {}
               <=> /\ \A j \in 1..(i - 1) : d.edges[j].id # d.edges[i].id
                   /\ d.edges[i].label # Blank
                   /\ \/ d.edges[i].from = NoNode
                      \/ \A j \in 1..(i - 1) : ~(/\ d.edges[j].from = d.edges[i].from
                                                 /\ d.edges[j].label = d.edges[i].label)
                   /\ d.edges[i].from \in IDs(d.nodes) /\ d.edges[i].to \in IDs(d.nodes)
  BY DEF EdgeErrors, WrongEndpoint
<1>5. RootErrors(d) = {} <=> d.root \in IDs(d.nodes) \cup {NoNode}
  BY DEF RootErrors
<1>6. NoNode \notin IDs(d.nodes)
  BY <1>1, IDsAreUUIDs, NullApart
<1>7. ASSUME SerializationErrors(d) = {} PROVE Clean(d)
  <2>1. \A i, j \in DOMAIN d.nodes : d.nodes[i].id = d.nodes[j].id => i = j
    BY <1>1, <1>2, <1>3, <1>7
  <2>2. ASSUME NEW i \in DOMAIN d.edges, NEW j \in DOMAIN d.edges,
               \/ d.edges[i].id = d.edges[j].id
               \/ d.edges[i].from = d.edges[j].from /\ d.edges[i].label = d.edges[j].label
        PROVE  i = j
    <3>1. \A k \in DOMAIN d.edges :
            \A l \in 1..(k - 1) : /\ d.edges[l].id # d.edges[k].id
                                  /\ ~(/\ d.edges[l].from = d.edges[k].from
                                       /\ d.edges[l].label = d.edges[k].label)
      BY <1>2, <1>4, <1>6, <1>7
    <3>2. ~(j \in 1..(i - 1)) /\ ~(i \in 1..(j - 1))
      BY <2>2, <3>1
    <3> QED
      BY <1>1, <3>2
  <2>3. \A n \in Range(d.nodes) :
          /\ n.title # Blank /\ n.metadata # "unparsable"
          /\ n.kind = KindTerminal => n.resolution # Blank
    BY <1>2, <1>3, <1>7 DEF Range
  <2>4. \A e \in Range(d.edges) : e.label # Blank /\ {e.from, e.to} \subseteq IDs(d.nodes)
    BY <1>2, <1>4, <1>7 DEF Range
  <2> QED
    BY <1>2, <1>5, <1>7, <2>1, <2>2, <2>3, <2>4 DEF Clean
<1>8. ASSUME Clean(d) PROVE SerializationErrors(d) = {}
  <2>1. \A i \in DOMAIN d.nodes : NodeErrors(d, i) = {}
    BY <1>1, <1>3, <1>8 DEF Clean, Range
  <2>2. \A i \in DOMAIN d.edges : EdgeErrors(d, i) = {}
    <3> SUFFICES ASSUME NEW i \in DOMAIN d.edges PROVE EdgeErrors(d, i) = {}
      OBVIOUS
    <3>1. \A j \in 1..(i - 1) : j \in DOMAIN d.edges /\ j # i
      BY <1>1
    <3>2. d.edges[i] \in Range(d.edges)
      BY DEF Range
    <3>3. \A j \in 1..(i - 1) : /\ d.edges[j].id # d.edges[i].id
                                /\ ~(/\ d.edges[j].from = d.edges[i].from
                                     /\ d.edges[j].label = d.edges[i].label)
      BY <1>8, <3>1 DEF Clean
    <3>4. /\ d.edges[i].label # Blank
          /\ d.edges[i].from \in IDs(d.nodes) /\ d.edges[i].to \in IDs(d.nodes)
      BY <1>8, <3>2 DEF Clean
    <3> QED
      BY <1>4, <3>3, <3>4
  <2> QED
    BY <1>2, <1>5, <1>8, <2>1, <2>2 DEF Clean
<1> QED
  BY <1>7, <1>8

LEMMA CleanIsAttached ==
  ASSUME NEW d, Clean(d)
  PROVE  Attached(d)
BY DEF Clean, Attached

----------------------------------------------------------------------------
(* A node leaves the form without the resolution of a decision node, and   *)
(* comes back with a blank one; a choice leaves it with a number.          *)

Numbered(e) == [e EXCEPT !.order = ParseSortOrder(@)]

Sent(n) == [n EXCEPT !.resolution = IF n.kind = KindTerminal THEN @ ELSE NoResolution]

Loaded(n) == [n EXCEPT !.resolution = IF @ = NoResolution THEN Blank ELSE @]

AsStored(n) == IF n.kind = KindTerminal THEN n ELSE [n EXCEPT !.resolution = Blank]

LEMMA SentParts ==
  ASSUME NEW n \in NodeDraft
  PROVE  /\ Sent(n).id = n.id /\ Sent(n).kind = n.kind
         /\ Sent(n).title = n.title /\ Sent(n).metadata = n.metadata
         /\ n.kind = KindTerminal => Sent(n).resolution = n.resolution
         /\ n.kind # KindTerminal => Sent(n).resolution = NoResolution
BY NodeParts DEF Sent

LEMMA LoadedParts ==
  ASSUME NEW n \in NodeDraft
  PROVE  /\ Loaded(Sent(n)) = AsStored(n) /\ AsStored(n) \in NodeDraft
         /\ AsStored(n).id = n.id /\ AsStored(n).kind = n.kind
         /\ AsStored(n).title = n.title /\ AsStored(n).metadata = n.metadata
         /\ n.kind = KindTerminal => AsStored(n).resolution = n.resolution
<1>1. n = [id |-> n.id, kind |-> n.kind, title |-> n.title,
           resolution |-> n.resolution, metadata |-> n.metadata]
  BY NodeParts
<1>2. n.resolution # NoResolution
  BY NodeParts, NullApart
<1>3. CASE n.kind = KindTerminal
  BY <1>1, <1>2, <1>3 DEF Sent, Loaded, AsStored
<1>4. CASE n.kind # KindTerminal
  <2>1. AsStored(n) = [id |-> n.id, kind |-> n.kind, title |-> n.title,
                       resolution |-> Blank, metadata |-> n.metadata]
    BY <1>1, <1>4 DEF AsStored
  <2>2. Sent(n) = [id |-> n.id, kind |-> n.kind, title |-> n.title,
                   resolution |-> NoResolution, metadata |-> n.metadata]
    BY <1>1, <1>4 DEF Sent
  <2>3. Loaded(Sent(n)) = AsStored(n)
    BY <2>1, <2>2 DEF Loaded
  <2>4. AsStored(n) \in NodeDraft
    BY <2>1, NodeParts DEF NodeDraft
  <2> QED
    BY <1>4, <2>1, <2>3, <2>4
<1> QED
  BY <1>3, <1>4

LEMMA NumberedParts ==
  ASSUME NEW e \in EdgeDraft
  PROVE  /\ Numbered(e) \in EdgeDraft
         /\ Numbered(e).id = e.id /\ Numbered(e).label = e.label
         /\ Numbered(e).from = e.from /\ Numbered(e).to = e.to
<1>1. PICK o : o = ParseSortOrder(e.order)
  OBVIOUS
<1>2. o \in OrderTexts
  BY <1>1, EdgeParts, Typable DEF ParseSortOrder
<1>3. Numbered(e) = [id |-> e.id, from |-> e.from, to |-> e.to, label |-> e.label, order |-> o]
  BY <1>1, EdgeParts DEF Numbered
<1>4. Numbered(e) \in EdgeDraft
  BY <1>2, <1>3, EdgeParts DEF EdgeDraft
<1> QED
  BY <1>3, <1>4

LEMMA SerializedParts ==
  ASSUME NEW d
  PROVE  Serialize(d) = [root  |-> d.root,
                         nodes |-> [i \in DOMAIN d.nodes |-> Sent(d.nodes[i])],
                         edges |-> [i \in DOMAIN d.edges |-> Numbered(d.edges[i])]]
BY Zenon DEF Serialize, Sent, Numbered

(* What the form sends without an error breaks no rule of the service and  *)
(* no constraint of the schema.                                            *)
LEMMA CleanBreaksNoRule ==
  ASSUME NEW d \in Drafts, Clean(d)
  PROVE  Coherent(Serialize(d)) /\ ConstraintsHold(Serialize(d))
<1>1. PICK p : p = Serialize(d)
  OBVIOUS
<1>2. /\ p.root = d.root
      /\ DOMAIN p.edges = DOMAIN d.edges
      /\ \A i \in DOMAIN d.edges : p.edges[i] = Numbered(d.edges[i])
      /\ DOMAIN p.nodes = DOMAIN d.nodes
      /\ \A i \in DOMAIN d.nodes : p.nodes[i] = Sent(d.nodes[i])
  BY <1>1, SerializedParts
<1>3. \A i \in DOMAIN d.nodes : d.nodes[i] \in NodeDraft /\ d.nodes[i] \in Range(d.nodes)
  BY DraftParts DEF Range
<1>4. \A i \in DOMAIN d.nodes :
        /\ p.nodes[i].id = d.nodes[i].id /\ p.nodes[i].kind = d.nodes[i].kind
        /\ p.nodes[i].title = d.nodes[i].title /\ p.nodes[i].metadata = d.nodes[i].metadata
        /\ p.nodes[i].kind = KindTerminal => p.nodes[i].resolution = d.nodes[i].resolution
        /\ p.nodes[i].kind # KindTerminal => p.nodes[i].resolution = NoResolution
  BY <1>2, <1>3, SentParts
<1>5. IDs(p.nodes) = IDs(d.nodes) /\ NoNode \notin IDs(d.nodes)
  <2>1. IDs(p.nodes) = IDs(d.nodes)
    BY <1>2, <1>4 DEF IDs
  <2>2. IDs(d.nodes) \subseteq NodeUUIDs
    BY DraftParts, IDsAreUUIDs
  <2> QED
    BY <2>1, <2>2, NullApart
<1>6. \A i \in DOMAIN d.nodes : d.nodes[i].resolution # NoResolution
  BY <1>3, NodeParts, NullApart
<1>7. \A i \in DOMAIN d.edges :
        /\ d.edges[i] \in Range(d.edges)
        /\ p.edges[i].id = d.edges[i].id /\ p.edges[i].label = d.edges[i].label
        /\ p.edges[i].from = d.edges[i].from /\ p.edges[i].to = d.edges[i].to
  <2>1. \A i \in DOMAIN d.edges : d.edges[i] \in EdgeDraft /\ d.edges[i] \in Range(d.edges)
    BY DraftParts DEF Range
  <2> QED
    BY <1>2, <2>1, NumberedParts
<1>8. Coherent(p)
  <2>1. IsInjective([i \in DOMAIN p.nodes |-> p.nodes[i].id])
    BY <1>2, <1>4 DEF IsInjective, Clean
  <2>2. \A i \in DOMAIN p.nodes : p.nodes[i].title # Blank /\ p.nodes[i].metadata # "unparsable"
    BY <1>2, <1>3, <1>4 DEF Clean
  <2>3. IsInjective([i \in DOMAIN p.edges |-> p.edges[i].id])
    BY <1>2, <1>7 DEF IsInjective, Clean
  <2>4. \A i \in DOMAIN p.edges :
          p.edges[i].label # Blank /\ NoNode \notin {p.edges[i].from, p.edges[i].to}
    BY <1>2, <1>5, <1>7 DEF Clean
  <2> QED
    BY <2>1, <2>2, <2>3, <2>4 DEF Coherent
<1>9. ConstraintsHold(p)
  <2>1. \A i \in DOMAIN p.nodes :
          (p.nodes[i].kind = KindTerminal) <=> (p.nodes[i].resolution # NoResolution)
    BY <1>2, <1>4, <1>6
  <2>2. \A i \in DOMAIN p.edges : {p.edges[i].from, p.edges[i].to} \subseteq IDs(p.nodes)
    BY <1>2, <1>5, <1>7 DEF Clean
  <2>3. IsInjective([i \in DOMAIN p.edges |-> <<p.edges[i].from, p.edges[i].label>>])
    BY <1>2, <1>7 DEF IsInjective, Clean
  <2>4. p.root \in IDs(p.nodes) \cup {NoNode}
    BY <1>2, <1>5 DEF Clean
  <2> QED
    BY <2>1, <2>2, <2>3, <2>4 DEF ConstraintsHold
<1> QED
  BY <1>1, <1>8, <1>9

(* What comes back are the rows that were sent, in whatever order, and     *)
(* they can be sent again.                                                 *)
LEMMA LandedIsClean ==
  ASSUME NEW d \in Drafts, Clean(d), NEW h \in StoredOrders(Serialize(d)),
         NEW x, x = DraftFromDefinition(h)
  PROVE  /\ x \in Drafts /\ Clean(x)
         /\ x.root = d.root /\ Range(x.edges) = {Numbered(e) : e \in Range(d.edges)}
         /\ Range(x.nodes) = {AsStored(n) : n \in Range(d.nodes)}
<1>1. PICK p, c : /\ p = [i \in DOMAIN d.nodes |-> Sent(d.nodes[i])]
                  /\ c = [i \in DOMAIN d.edges |-> Numbered(d.edges[i])]
  OBVIOUS
<1>2. PICK ns \in SetToSeqs(Range(p)), es \in SetToSeqs(Range(c)) :
        h = [root |-> d.root, edges |-> es, nodes |-> ns]
  <2>1. PICK q : q = Serialize(d)
    OBVIOUS
  <2>2. q = [root |-> d.root, nodes |-> p, edges |-> c]
    BY <1>1, <2>1, SerializedParts
  <2>3. q.root = d.root /\ q.nodes = p /\ q.edges = c
    BY <2>2
  <2> QED
    BY <2>1, <2>3 DEF StoredOrders
<1>3. x = [root |-> d.root, edges |-> es, nodes |-> [i \in DOMAIN ns |-> Loaded(ns[i])]]
  BY <1>2 DEF DraftFromDefinition, Loaded
<1>4. d.nodes \in Seq(NodeDraft) /\ d.edges \in Seq(EdgeDraft) /\ d.root \in NodeUUIDs \cup {NoNode}
  BY DraftParts
<1>5. p \in Seq(Range(p))
  <2>1. DOMAIN d.nodes = 1..Len(d.nodes) /\ Len(d.nodes) \in Nat
    BY <1>4
  <2>2. p \in [1..Len(d.nodes) -> Range(p)]
    BY <1>1, <2>1 DEF Range
  <2> QED
    BY <2>1, <2>2
<1>6. /\ ns \in Seq(Range(p)) /\ Range(ns) = Range(p)
      /\ \A i, j \in DOMAIN ns : ns[i] = ns[j] => i = j
  BY <1>5, RowsFinite, OrderHoldsAll
<1>7. /\ \A i \in DOMAIN d.edges : d.edges[i] \in EdgeDraft /\ d.edges[i] \in Range(d.edges)
      /\ c \in Seq(EdgeDraft)
      /\ Range(c) = {Numbered(e) : e \in Range(d.edges)}
  <2>1. DOMAIN d.edges = 1..Len(d.edges) /\ Len(d.edges) \in Nat
    BY <1>4
  <2>2. \A i \in DOMAIN d.edges : d.edges[i] \in EdgeDraft /\ d.edges[i] \in Range(d.edges)
    BY <1>4 DEF Range
  <2>3. c \in [1..Len(d.edges) -> EdgeDraft]
    BY <1>1, <2>1, <2>2, NumberedParts
  <2>4. Range(c) = {Numbered(e) : e \in Range(d.edges)}
    BY <1>1 DEF Range
  <2> QED
    BY <2>1, <2>2, <2>3, <2>4
<1>8. /\ es \in Seq(Range(c)) /\ Range(es) = Range(c)
       /\ \A i, j \in DOMAIN es : es[i] = es[j] => i = j
  BY <1>7, RowsFinite, OrderHoldsAll
<1>9. \A i \in DOMAIN es : \E a \in DOMAIN d.edges : es[i] = Numbered(d.edges[a])
  BY <1>1, <1>8 DEF Range
<1>10. \A i \in DOMAIN d.nodes : d.nodes[i] \in NodeDraft /\ d.nodes[i] \in Range(d.nodes)
  BY <1>4 DEF Range
<1>11. \A i \in DOMAIN ns : \E a \in DOMAIN d.nodes : ns[i] = Sent(d.nodes[a])
  BY <1>1, <1>6 DEF Range
<1>12. \A a \in DOMAIN d.nodes : \E i \in DOMAIN ns : ns[i] = Sent(d.nodes[a])
  BY <1>1, <1>6 DEF Range
<1>13. x.root = d.root /\ x.edges = es /\ DOMAIN x.nodes = DOMAIN ns
       /\ \A i \in DOMAIN ns : x.nodes[i] = Loaded(ns[i])
  BY <1>3
<1>14. \A i \in DOMAIN ns : \E a \in DOMAIN d.nodes : x.nodes[i] = AsStored(d.nodes[a])
  BY <1>10, <1>11, <1>13, LoadedParts
<1>15. \A a \in DOMAIN d.nodes : \E i \in DOMAIN ns : x.nodes[i] = AsStored(d.nodes[a])
  BY <1>10, <1>12, <1>13, LoadedParts
<1>16. Range(x.nodes) = {AsStored(n) : n \in Range(d.nodes)}
  BY <1>13, <1>14, <1>15 DEF Range
<1>17. IDs(x.nodes) = IDs(d.nodes)
  <2>1. \A a \in DOMAIN d.nodes : AsStored(d.nodes[a]).id = d.nodes[a].id
    BY <1>10, LoadedParts
  <2> QED
    BY <1>13, <1>14, <1>15, <2>1 DEF IDs
<1>18. x \in Drafts
  <2>1. x.nodes \in Seq(NodeDraft)
    <3>1. DOMAIN ns = 1..Len(ns) /\ Len(ns) \in Nat
      BY <1>6
    <3>2. \A i \in 1..Len(ns) : x.nodes[i] \in NodeDraft
      BY <1>10, <1>14, <3>1, LoadedParts
    <3>3. x.nodes = [i \in 1..Len(ns) |-> x.nodes[i]]
      BY <1>3, <3>1
    <3> QED
      BY <3>1, <3>2, <3>3
  <2>2. x.edges \in Seq(EdgeDraft)
    <3>1. Range(c) \subseteq EdgeDraft
      BY <1>7 DEF Range
    <3> QED
      BY <1>8, <1>13, <3>1, SeqMonotonic
  <2>3. x = [root |-> x.root, nodes |-> x.nodes, edges |-> x.edges]
    BY <1>3
  <2> QED
    BY <1>4, <1>13, <2>1, <2>2, <2>3 DEF Drafts
<1>19. Clean(x)
  <2>1. ASSUME NEW i \in DOMAIN x.nodes, NEW j \in DOMAIN x.nodes,
               x.nodes[i].id = x.nodes[j].id
        PROVE  i = j
    <3>1. PICK a \in DOMAIN d.nodes : ns[i] = Sent(d.nodes[a])
      BY <1>11, <1>13
    <3>2. PICK b \in DOMAIN d.nodes : ns[j] = Sent(d.nodes[b])
      BY <1>11, <1>13
    <3>3. x.nodes[i] = AsStored(d.nodes[a]) /\ x.nodes[j] = AsStored(d.nodes[b])
      BY <1>10, <1>13, <3>1, <3>2, LoadedParts
    <3>4. d.nodes[a].id = d.nodes[b].id
      BY <1>10, <2>1, <3>3, LoadedParts
    <3>5. a = b
      BY <3>4 DEF Clean
    <3> QED
      BY <1>6, <1>13, <3>1, <3>2, <3>5
  <2>2. ASSUME NEW n \in Range(x.nodes)
        PROVE  /\ n.title # Blank /\ n.metadata # "unparsable"
               /\ n.kind = KindTerminal => n.resolution # Blank
    <3>1. PICK m \in Range(d.nodes) : n = AsStored(m)
      BY <1>16
    <3>2. m \in NodeDraft
      BY <1>10 DEF Range
    <3> QED
      BY <3>1, <3>2, LoadedParts DEF Clean
  <2>3. ASSUME NEW i \in DOMAIN x.edges, NEW j \in DOMAIN x.edges,
               \/ x.edges[i].id = x.edges[j].id
               \/ x.edges[i].from = x.edges[j].from /\ x.edges[i].label = x.edges[j].label
        PROVE  i = j
    <3>1. PICK a \in DOMAIN d.edges : es[i] = Numbered(d.edges[a])
      BY <1>9, <1>13
    <3>2. PICK b \in DOMAIN d.edges : es[j] = Numbered(d.edges[b])
      BY <1>9, <1>13
    <3>3. \/ d.edges[a].id = d.edges[b].id
          \/ d.edges[a].from = d.edges[b].from /\ d.edges[a].label = d.edges[b].label
      BY <1>7, <1>13, <2>3, <3>1, <3>2, NumberedParts
    <3>4. a = b
      BY <3>3 DEF Clean
    <3> QED
      BY <1>8, <1>13, <3>1, <3>2, <3>4
  <2>4. ASSUME NEW e \in Range(x.edges)
        PROVE  e.label # Blank /\ {e.from, e.to} \subseteq IDs(x.nodes)
    <3>1. PICK f \in Range(d.edges) : e = Numbered(f)
      BY <1>7, <1>8, <1>13
    <3>2. f \in EdgeDraft
      BY <1>4 DEF Range
    <3>3. e.label = f.label /\ e.from = f.from /\ e.to = f.to
      BY <3>1, <3>2, NumberedParts
    <3> QED
      BY <1>17, <3>1, <3>3 DEF Clean
  <2>5. x.root \in IDs(x.nodes) \cup {NoNode}
    BY <1>13, <1>17 DEF Clean
  <2> QED
    BY <2>1, <2>2, <2>3, <2>4, <2>5 DEF Clean
<1> QED
  BY <1>7, <1>8, <1>13, <1>16, <1>18, <1>19

----------------------------------------------------------------------------
(* What the operations make of a draft.                                    *)

LEMMA IDsOfAppended ==
  ASSUME NEW s \in Seq(NodeDraft), NEW n \in NodeDraft
  PROVE  IDs(Append(s, n)) = IDs(s) \cup {n.id}
<1>1. PICK r : r = Append(s, n)
  OBVIOUS
<1>2. /\ DOMAIN r = 1..(Len(s) + 1) /\ DOMAIN s = 1..Len(s) /\ Len(s) \in Nat
      /\ \A k \in 1..Len(s) : r[k] = s[k]
      /\ r[Len(s) + 1] = n
  BY <1>1, AppendProperties
<1>3. \A k \in DOMAIN r : k \in DOMAIN s \/ k = Len(s) + 1
  BY <1>2
<1>4. \A k \in DOMAIN s : k \in DOMAIN r
  BY <1>2
<1>5. Len(s) + 1 \in DOMAIN r
  BY <1>2
<1> QED
  BY <1>1, <1>2, <1>3, <1>4, <1>5 DEF IDs

LEMMA NodeAdded ==
  ASSUME NEW d \in Drafts, Attached(d),
         NEW id \in NodeUUIDs, NEW kind \in {KindDecision, KindTerminal},
         NEW root \in {d.root, id},
         NEW x, x = [root |-> root, nodes |-> Append(d.nodes, NewNode(id, kind)), edges |-> d.edges]
  PROVE  x \in Drafts /\ Attached(x)
<1>1. NewNode(id, kind) \in NodeDraft /\ NewNode(id, kind).id = id
  BY Typable DEF NewNode, NodeDraft
<1>2. /\ d.root \in NodeUUIDs \cup {NoNode}
      /\ d.nodes \in Seq(NodeDraft) /\ d.edges \in Seq(EdgeDraft)
  BY DraftParts
<1>3. Append(d.nodes, NewNode(id, kind)) \in Seq(NodeDraft)
  BY <1>1, <1>2, AppendProperties
<1>4. IDs(Append(d.nodes, NewNode(id, kind))) = IDs(d.nodes) \cup {id}
  BY <1>1, <1>2, IDsOfAppended
<1>5. x.root = root /\ x.edges = d.edges /\ IDs(x.nodes) = IDs(d.nodes) \cup {id}
  BY <1>4
<1>6. x \in Drafts
  BY <1>2, <1>3 DEF Drafts
<1>7. Attached(x)
  BY <1>5 DEF Attached
<1> QED
  BY <1>6, <1>7

LEMMA NodePatched ==
  ASSUME NEW d \in Drafts, Attached(d), NEW i \in DOMAIN d.nodes,
         NEW n \in NodeDraft, n.id = d.nodes[i].id,
         NEW x, x = [root |-> d.root, nodes |-> [d.nodes EXCEPT ![i] = n], edges |-> d.edges]
  PROVE  x \in Drafts /\ Attached(x)
<1>1. /\ d.root \in NodeUUIDs \cup {NoNode}
      /\ d.nodes \in Seq(NodeDraft) /\ d.edges \in Seq(EdgeDraft)
  BY DraftParts
<1>2. PICK r : r = [d.nodes EXCEPT ![i] = n]
  OBVIOUS
<1>3. /\ r \in Seq(NodeDraft) /\ DOMAIN r = DOMAIN d.nodes
      /\ \A k \in DOMAIN d.nodes : r[k].id = d.nodes[k].id
  BY <1>1, <1>2
<1>4. IDs(r) = IDs(d.nodes)
  BY <1>3 DEF IDs
<1>5. x.root = d.root /\ x.edges = d.edges /\ IDs(x.nodes) = IDs(d.nodes)
  BY <1>2, <1>4
<1>6. x \in Drafts
  BY <1>1, <1>2, <1>3 DEF Drafts
<1>7. Attached(x)
  BY <1>5 DEF Attached
<1> QED
  BY <1>6, <1>7

(* The choices that stay refer to nodes other than the one that goes.      *)
LEMMA NodeRemoved ==
  ASSUME NEW d \in Drafts, Attached(d), NEW i \in DOMAIN d.nodes,
         NEW es \in InOrder(d.edges, {k \in DOMAIN d.edges :
                              d.nodes[i].id \notin {d.edges[k].from, d.edges[k].to}}),
         NEW x, x = [root  |-> IF d.root = d.nodes[i].id THEN NoNode ELSE d.root,
                     nodes |-> RemoveAt(d.nodes, i),
                     edges |-> es]
  PROVE  x \in Drafts /\ Attached(x)
<1>1. /\ d.root \in NodeUUIDs \cup {NoNode}
      /\ d.nodes \in Seq(NodeDraft) /\ d.edges \in Seq(EdgeDraft)
  BY DraftParts
<1>2. PICK gone, r, stay :
        /\ gone = d.nodes[i].id /\ r = RemoveAt(d.nodes, i)
        /\ stay = {k \in DOMAIN d.edges : gone \notin {d.edges[k].from, d.edges[k].to}}
  OBVIOUS
<1>3. r \in Seq(NodeDraft) /\ Range(r) = {d.nodes[k] : k \in DOMAIN d.nodes \ {i}}
  BY <1>1, <1>2, RemovalKeepsRest
<1>4. es \in Seq(EdgeDraft) /\ Range(es) = {d.edges[k] : k \in stay}
  <2>1. stay \in SUBSET DOMAIN d.edges /\ es \in InOrder(d.edges, stay)
    BY <1>2
  <2> QED
    BY <1>1, <2>1, FilterHoldsWhatStays
<1>5. ASSUME NEW n \in IDs(d.nodes) \cup {NoNode}, n # gone
      PROVE  n \in IDs(r) \cup {NoNode}
  <2> SUFFICES ASSUME n # NoNode PROVE n \in IDs(r)
    OBVIOUS
  <2>1. PICK k \in DOMAIN d.nodes : n = d.nodes[k].id
    BY DEF IDs
  <2>2. d.nodes[k] \in Range(r)
    BY <1>2, <1>3, <1>5, <2>1
  <2> QED
    BY <2>1, <2>2 DEF IDs, Range
<1>6. /\ x.edges = es /\ x.nodes = r
      /\ x.root = IF d.root = gone THEN NoNode ELSE d.root
  BY <1>2
<1>7. x.root \in IDs(r) \cup {NoNode}
  BY <1>5, <1>6 DEF Attached
<1>8. ASSUME NEW e \in Range(es) PROVE {e.from, e.to} \subseteq IDs(r) \cup {NoNode}
  <2>1. PICK k \in stay : e = d.edges[k]
    BY <1>4
  <2>2. e \in Range(d.edges) /\ e.from # gone /\ e.to # gone
    BY <1>2, <2>1 DEF Range
  <2> QED
    BY <1>5, <2>2 DEF Attached
<1>9. x \in Drafts
  BY <1>1, <1>2, <1>3, <1>4 DEF Drafts
<1> QED
  BY <1>6, <1>7, <1>8, <1>9 DEF Attached

(* Choices that refer to nodes of the draft, or to none, may be put in.    *)
LEMMA EdgesReplaced ==
  ASSUME NEW d \in Drafts, Attached(d), NEW es \in Seq(EdgeDraft),
         \A k \in DOMAIN es : \/ es[k] \in Range(d.edges)
                              \/ {es[k].from, es[k].to} \subseteq IDs(d.nodes) \cup {NoNode},
         NEW x, x = [root |-> d.root, nodes |-> d.nodes, edges |-> es]
  PROVE  x \in Drafts /\ Attached(x)
<1>1. d.root \in NodeUUIDs \cup {NoNode} /\ d.nodes \in Seq(NodeDraft)
  BY DraftParts
<1>2. x.root = d.root /\ x.nodes = d.nodes /\ x.edges = es
  OBVIOUS
<1>3. x \in Drafts
  BY <1>1 DEF Drafts
<1>4. Attached(x)
  BY <1>2 DEF Attached, Range
<1> QED
  BY <1>3, <1>4

----------------------------------------------------------------------------
(* The inductive invariant: while a save is in flight the draft is the one *)
(* that was sent, and nothing was wrong with it.                           *)

Typed == draft \in Drafts

InFlight ==
  sending # NoPayload => /\ sending = Serialize(draft)
                         /\ SerializationErrors(draft) = {}
                         /\ errors = NoErrors

IInv == Typed /\ NoDanglingReference /\ ErrorsDescribeDraft /\ InFlight

LEMMA AttachedDraft == NoDanglingReference <=> Attached(draft)
BY DEF NoDanglingReference, Attached

LEMMA InitInv == Init => IInv
<1> SUFFICES ASSUME Init PROVE IInv
  OBVIOUS
<1>1. draft \in Drafts
  BY DEF Init, EmptyDraft, Drafts
<1>2. draft.root = NoNode /\ Range(draft.edges) = {}
  BY DEF Init, EmptyDraft, Range
<1> QED
  BY <1>1, <1>2 DEF Init, IInv, Typed, NoDanglingReference, ErrorsDescribeDraft, InFlight

(* An edit leaves no error on display.                                     *)
LEMMA MutateInv ==
  ASSUME IInv, NEW d \in Drafts, Attached(d), Mutate(d)
  PROVE  IInv'
<1>1. draft' = d /\ errors' = NoErrors /\ sending' = NoPayload
  BY DEF Mutate, Unlocked
<1>2. Attached(draft)'
  BY <1>1 DEF Attached
<1>3. NoDanglingReference'
  BY <1>2, AttachedDraft DEF NoDanglingReference, Attached
<1> QED
  BY <1>1, <1>3 DEF IInv, Typed, ErrorsDescribeDraft, InFlight

LEMMA NodeEditsInv ==
  ASSUME IInv,
         \/ \E id \in NodeUUIDs, kind \in {KindDecision, KindTerminal} : AddNode(id, kind)
         \/ \E i \in DOMAIN draft.nodes : UpdateNode(i) \/ RemoveNode(i)
         \/ \E n \in IDs(draft.nodes) \cup {NoNode} : ChooseRoot(n)
  PROVE  IInv'
<1>1. draft \in Drafts /\ Attached(draft)
  BY AttachedDraft DEF IInv, Typed
<1>2. draft = [root |-> draft.root, nodes |-> draft.nodes, edges |-> draft.edges]
  BY <1>1, DraftParts
<1>3. ASSUME NEW id \in NodeUUIDs, NEW kind \in {KindDecision, KindTerminal}, AddNode(id, kind)
      PROVE  IInv'
  <2>1. PICK root : root = IF draft.root = NoNode /\ draft.nodes = <<>> THEN id ELSE draft.root
    OBVIOUS
  <2>2. PICK x : x = [root  |-> root, nodes |-> Append(draft.nodes, NewNode(id, kind)),
                      edges |-> draft.edges]
    OBVIOUS
  <2>3. Mutate(x)
    BY <1>3, <2>1, <2>2 DEF AddNode
  <2>4. x \in Drafts /\ Attached(x)
    BY <1>1, <2>1, <2>2, NodeAdded
  <2> QED
    BY <2>3, <2>4, MutateInv
<1>4. ASSUME NEW i \in DOMAIN draft.nodes, UpdateNode(i) PROVE IInv'
  <2>1. PICK n \in NodeDraft : n.id = draft.nodes[i].id /\ PatchNode(i, n)
    <3>1. draft.nodes[i] \in NodeDraft
      BY <1>1 DEF Drafts
    <3> QED
      BY <1>4, <3>1 DEF UpdateNode, NodeDraft
  <2>2. PICK x : x = [root  |-> draft.root, nodes |-> [draft.nodes EXCEPT ![i] = n],
                      edges |-> draft.edges]
    OBVIOUS
  <2>3. Mutate(x)
    BY <1>2, <2>1, <2>2 DEF PatchNode, Mutate
  <2>4. x \in Drafts /\ Attached(x)
    BY <1>1, <2>1, <2>2, NodePatched
  <2> QED
    BY <2>3, <2>4, MutateInv
<1>5. ASSUME NEW i \in DOMAIN draft.nodes, RemoveNode(i) PROVE IInv'
  <2>1. PICK es \in InOrder(draft.edges, {k \in DOMAIN draft.edges :
                       draft.nodes[i].id \notin {draft.edges[k].from, draft.edges[k].to}}) :
          Mutate([root  |-> IF draft.root = draft.nodes[i].id THEN NoNode ELSE draft.root,
                  nodes |-> RemoveAt(draft.nodes, i),
                  edges |-> es])
    BY <1>5 DEF RemoveNode, RemoveNodeBut
  <2>2. PICK x : x = [root  |-> IF draft.root = draft.nodes[i].id THEN NoNode ELSE draft.root,
                      nodes |-> RemoveAt(draft.nodes, i),
                      edges |-> es]
    OBVIOUS
  <2>3. Mutate(x)
    BY <2>1, <2>2
  <2>4. x \in Drafts /\ Attached(x)
    BY <1>1, <2>1, <2>2, NodeRemoved
  <2> QED
    BY <2>3, <2>4, MutateInv
<1>6. ASSUME NEW n \in IDs(draft.nodes) \cup {NoNode}, ChooseRoot(n) PROVE IInv'
  <2>1. PICK x : x = [root |-> n, nodes |-> draft.nodes, edges |-> draft.edges]
    OBVIOUS
  <2>2. Mutate(x)
    BY <1>2, <1>6, <2>1 DEF ChooseRoot, Mutate
  <2>3. n \in NodeUUIDs \cup {NoNode}
    BY <1>1, DraftParts, IDsAreUUIDs
  <2>4. x \in Drafts
    BY <1>1, <2>1, <2>3, DraftParts DEF Drafts
  <2>5. Attached(x)
    BY <1>1, <2>1 DEF Attached
  <2> QED
    BY <2>2, <2>4, <2>5, MutateInv
<1> QED
  BY <1>3, <1>4, <1>5, <1>6

LEMMA EdgeEditsInv ==
  ASSUME IInv,
         \/ \E id \in EdgeUUIDs : AddEdge(id)
         \/ \E i \in DOMAIN draft.edges : UpdateEdge(i) \/ RemoveEdge(i)
  PROVE  IInv'
<1>1. draft \in Drafts /\ Attached(draft)
  BY AttachedDraft DEF IInv, Typed
<1>2. /\ draft = [root |-> draft.root, nodes |-> draft.nodes, edges |-> draft.edges]
      /\ draft.nodes \in Seq(NodeDraft) /\ draft.edges \in Seq(EdgeDraft)
  BY <1>1, DraftParts
<1>3. IDs(draft.nodes) \subseteq NodeUUIDs /\ Sources \subseteq IDs(draft.nodes)
  BY <1>2, IDsAreUUIDs DEF Sources, IDs, Range
<1>4. \A k \in DOMAIN draft.edges :
        /\ draft.edges[k] \in EdgeDraft /\ draft.edges[k] \in Range(draft.edges)
        /\ {draft.edges[k].from, draft.edges[k].to} \subseteq IDs(draft.nodes) \cup {NoNode}
  BY <1>1, <1>2 DEF Attached, Range
<1>5. ASSUME NEW es \in Seq(EdgeDraft),
             \A k \in DOMAIN es :
               \/ es[k] \in Range(draft.edges)
               \/ {es[k].from, es[k].to} \subseteq IDs(draft.nodes) \cup {NoNode},
             Mutate([draft EXCEPT !.edges = es])
      PROVE  IInv'
  <2>1. PICK x : x = [root |-> draft.root, nodes |-> draft.nodes, edges |-> es]
    OBVIOUS
  <2>2. [draft EXCEPT !.edges = es] = x
    BY <1>2, <2>1
  <2>3. x \in Drafts /\ Attached(x)
    BY <1>1, <1>5, <2>1, EdgesReplaced
  <2> QED
    BY <1>5, <2>2, <2>3, MutateInv
<1>6. ASSUME NEW id \in EdgeUUIDs, AddEdge(id) PROVE IInv'
  <2>1. PICK from \in Sources \cup {NoNode} :
          Mutate([draft EXCEPT !.edges = Append(draft.edges, NewEdge(id, from))])
    BY <1>6 DEF AddEdge
  <2>2. PICK e : e = NewEdge(id, from)
    OBVIOUS
  <2>3. e \in EdgeDraft /\ {e.from, e.to} \subseteq IDs(draft.nodes) \cup {NoNode}
    BY <1>3, <2>2, Typable DEF NewEdge, EdgeDraft
  <2>4. PICK es : es = Append(draft.edges, e)
    OBVIOUS
  <2>5. /\ es \in Seq(EdgeDraft)
        /\ \A k \in DOMAIN es : \/ k \in DOMAIN draft.edges /\ es[k] = draft.edges[k]
                                \/ es[k] = e
    BY <1>2, <2>3, <2>4
  <2>6. \A k \in DOMAIN es : \/ es[k] \in Range(draft.edges)
                             \/ {es[k].from, es[k].to} \subseteq IDs(draft.nodes) \cup {NoNode}
    BY <1>4, <2>3, <2>5
  <2> QED
    BY <1>5, <2>1, <2>2, <2>4, <2>5, <2>6
<1>7. ASSUME NEW i \in DOMAIN draft.edges, UpdateEdge(i) PROVE IInv'
  <2>1. PICK e : e = draft.edges[i]
    OBVIOUS
  <2>2. e = [id |-> e.id, from |-> e.from, to |-> e.to, label |-> e.label, order |-> e.order]
        /\ e \in EdgeDraft /\ {e.from, e.to} \subseteq IDs(draft.nodes) \cup {NoNode}
    BY <1>4, <2>1, EdgeParts
  <2> DEFINE Repointed == \E f \in EdgeDraft :
                            /\ PatchEdge(i, f)
                            /\ {f.from, f.to} \subseteq IDs(draft.nodes) \cup {NoNode}
  <2>3. Repointed
    <3>1. ASSUME NEW n \in Sources \cup {NoNode}, PatchEdge(i, [e EXCEPT !.from = n])
          PROVE  Repointed
      <4>1. PICK f : f = [e EXCEPT !.from = n]
        OBVIOUS
      <4>2. f = [id |-> e.id, from |-> n, to |-> e.to, label |-> e.label, order |-> e.order]
        BY <2>2, <4>1
      <4>3. f \in EdgeDraft /\ {f.from, f.to} \subseteq IDs(draft.nodes) \cup {NoNode}
        BY <1>3, <2>2, <4>2, EdgeParts DEF EdgeDraft
      <4> QED
        BY <3>1, <4>1, <4>3
    <3>2. ASSUME NEW n \in IDs(draft.nodes) \cup {NoNode}, PatchEdge(i, [e EXCEPT !.to = n])
          PROVE  Repointed
      <4>1. PICK f : f = [e EXCEPT !.to = n]
        OBVIOUS
      <4>2. f = [id |-> e.id, from |-> e.from, to |-> n, label |-> e.label, order |-> e.order]
        BY <2>2, <4>1
      <4>3. f \in EdgeDraft /\ {f.from, f.to} \subseteq IDs(draft.nodes) \cup {NoNode}
        BY <1>3, <2>2, <4>2, EdgeParts DEF EdgeDraft
      <4> QED
        BY <3>2, <4>1, <4>3
    <3>3. ASSUME NEW t \in Texts \cup {Blank}, PatchEdge(i, [e EXCEPT !.label = t])
          PROVE  Repointed
      <4>1. PICK f : f = [e EXCEPT !.label = t]
        OBVIOUS
      <4>2. f = [id |-> e.id, from |-> e.from, to |-> e.to, label |-> t, order |-> e.order]
        BY <2>2, <4>1
      <4>3. f \in EdgeDraft /\ {f.from, f.to} \subseteq IDs(draft.nodes) \cup {NoNode}
        BY <2>2, <4>2, EdgeParts DEF EdgeDraft
      <4> QED
        BY <3>3, <4>1, <4>3
    <3>4. ASSUME NEW t \in OrderTexts, PatchEdge(i, [e EXCEPT !.order = t])
          PROVE  Repointed
      <4>1. PICK f : f = [e EXCEPT !.order = t]
        OBVIOUS
      <4>2. f = [id |-> e.id, from |-> e.from, to |-> e.to, label |-> e.label, order |-> t]
        BY <2>2, <4>1
      <4>3. f \in EdgeDraft /\ {f.from, f.to} \subseteq IDs(draft.nodes) \cup {NoNode}
        BY <2>2, <4>2, EdgeParts DEF EdgeDraft
      <4> QED
        BY <3>4, <4>1, <4>3
    <3> QED
      BY <1>7, <2>1, <3>1, <3>2, <3>3, <3>4 DEF UpdateEdge
  <2>4. PICK f \in EdgeDraft : /\ PatchEdge(i, f)
                               /\ {f.from, f.to} \subseteq IDs(draft.nodes) \cup {NoNode}
    BY <2>3
  <2>5. PICK es : es = [draft.edges EXCEPT ![i] = f]
    OBVIOUS
  <2>6. es \in Seq(EdgeDraft)
    BY <1>2, <2>5
  <2>7. \A k \in DOMAIN es : \/ es[k] \in Range(draft.edges)
                             \/ {es[k].from, es[k].to} \subseteq IDs(draft.nodes) \cup {NoNode}
    BY <1>4, <2>4, <2>5
  <2> QED
    BY <1>5, <2>4, <2>5, <2>6, <2>7 DEF PatchEdge
<1>8. ASSUME NEW i \in DOMAIN draft.edges, RemoveEdge(i) PROVE IInv'
  <2>1. PICK es : es = RemoveAt(draft.edges, i)
    OBVIOUS
  <2>2. /\ es \in Seq(EdgeDraft)
        /\ Range(es) = {draft.edges[k] : k \in DOMAIN draft.edges \ {i}}
    BY <1>2, <2>1, RemovalKeepsRest
  <2>3. \A k \in DOMAIN es : es[k] \in Range(draft.edges)
    BY <2>2 DEF Range
  <2> QED
    BY <1>5, <1>8, <2>1, <2>2, <2>3 DEF RemoveEdge
<1> QED
  BY <1>6, <1>7, <1>8

LEMMA SaveInv ==
  ASSUME IInv, SaveRefused \/ SaveSent \/ SaveLanded \/ SaveFailed
  PROVE  IInv'
<1>1. draft \in Drafts
  BY DEF IInv, Typed
<1>2. CASE SaveRefused
  BY <1>2 DEF SaveRefused, Unlocked, IInv, Typed, NoDanglingReference, ErrorsDescribeDraft, InFlight
<1>3. CASE SaveSent
  BY <1>3 DEF SaveSent, IInv, Typed, NoDanglingReference, ErrorsDescribeDraft, InFlight
<1>4. CASE SaveFailed
  BY <1>4 DEF SaveFailed, IInv, Typed, NoDanglingReference, ErrorsDescribeDraft, InFlight
<1>5. CASE SaveLanded
  <2>1. /\ sending = Serialize(draft) /\ Clean(draft)
        /\ errors' = NoErrors /\ sending' = NoPayload
    BY <1>1, <1>5, NoErrorsIsClean DEF SaveLanded, IInv, InFlight
  <2>2. PICK h \in StoredOrders(Serialize(draft)) : draft' = DraftFromDefinition(h)
    BY <1>5, <2>1 DEF SaveLanded
  <2>3. PICK x : x = draft'
    OBVIOUS
  <2>4. x \in Drafts /\ Clean(x)
    BY <1>1, <2>1, <2>2, <2>3, LandedIsClean
  <2>5. Attached(x)
    BY <2>4, CleanIsAttached
  <2>6. NoDanglingReference'
    BY <2>3, <2>5 DEF NoDanglingReference, Attached
  <2> QED
    BY <2>1, <2>3, <2>4, <2>6 DEF IInv, Typed, ErrorsDescribeDraft, InFlight
<1> QED
  BY <1>2, <1>3, <1>4, <1>5

LEMMA StepInv == IInv /\ [Next]_vars => IInv'
<1>1. ASSUME IInv, Next PROVE IInv'
  BY <1>1, NodeEditsInv, EdgeEditsInv, SaveInv DEF Next
<1>2. ASSUME IInv, UNCHANGED vars PROVE IInv'
  BY <1>2 DEF vars, IInv, Typed, NoDanglingReference, ErrorsDescribeDraft, InFlight
<1> QED
  BY <1>1, <1>2

LEMMA Inductive == Spec => []IInv
BY InitInv, StepInv, PTL DEF Spec

----------------------------------------------------------------------------
(* In a form of any size, whatever is added, re-pointed, removed, saved    *)
(* and loaded again in whatever order: no choice and no root points at a   *)
(* node that is not in it (removeNode, draftFromDefinition).               *)
THEOREM ReferencesStay == Spec => []NoDanglingReference
<1>1. IInv => NoDanglingReference
  BY DEF IInv
<1> QED
  BY <1>1, Inductive, PTL

(* The errors on display are those of the draft on display: every edit     *)
(* takes them away, and none is on display while a save is in flight       *)
(* (mutate, save).                                                         *)
THEOREM ErrorsCurrent == Spec => []ErrorsDescribeDraft
<1>1. IInv => ErrorsDescribeDraft
  BY DEF IInv
<1> QED
  BY <1>1, Inductive, PTL

(* What serializePlaybookDraft lets out breaks no rule of                  *)
(* validateGraphInput and no constraint of the schema, for every draft:    *)
(* the form is laxer than the server only in what a column can hold.       *)
THEOREM FormNoLaxer == Spec => []RefusedOnlyForColumns
<1>1. ASSUME IInv PROVE RefusedOnlyForColumns
  <2> SUFFICES ASSUME sending # NoPayload PROVE Coherent(sending) /\ ConstraintsHold(sending)
    BY DEF RefusedOnlyForColumns
  <2>1. draft \in Drafts /\ sending = Serialize(draft) /\ Clean(draft)
    BY <1>1, NoErrorsIsClean DEF IInv, Typed, InFlight
  <2> QED
    BY <2>1, CleanBreaksNoRule
<1> QED
  BY <1>1, Inductive, PTL

(* A save that lands gives back what is on the screen: the same root, the  *)
(* same choices but for an order that was blank, which is a number now,    *)
(* the same nodes but for a decision node's resolution, which is blank     *)
(* now; and nothing is wrong with it, so that it can be sent again as it   *)
(* is.                                                                     *)
LandedAsTyped ==
  SaveLanded => /\ SerializationErrors(draft') = {}
                /\ draft'.root = draft.root
                /\ Range(draft'.edges) = {Numbered(e) : e \in Range(draft.edges)}
                /\ Range(draft'.nodes) = {AsStored(n) : n \in Range(draft.nodes)}

(* The round trip of a save, for every draft (save, draftFromDefinition).  *)
THEOREM SaveRoundTrip == Spec => [][LandedAsTyped]_vars
<1>1. ASSUME IInv, SaveLanded PROVE LandedAsTyped
  <2>1. draft \in Drafts /\ sending = Serialize(draft) /\ Clean(draft)
    BY <1>1, NoErrorsIsClean DEF SaveLanded, IInv, Typed, InFlight
  <2>2. PICK h \in StoredOrders(Serialize(draft)) : draft' = DraftFromDefinition(h)
    BY <1>1, <2>1 DEF SaveLanded
  <2>3. PICK x : x = draft'
    OBVIOUS
  <2>4. /\ x \in Drafts /\ Clean(x)
        /\ x.root = draft.root /\ Range(x.edges) = {Numbered(e) : e \in Range(draft.edges)}
        /\ Range(x.nodes) = {AsStored(n) : n \in Range(draft.nodes)}
    BY <2>1, <2>2, <2>3, LandedIsClean
  <2>5. SerializationErrors(x) = {}
    BY <2>4, NoErrorsIsClean
  <2> QED
    BY <2>3, <2>4, <2>5 DEF LandedAsTyped
<1>2. IInv => [LandedAsTyped]_vars
  BY <1>1 DEF LandedAsTyped
<1> QED
  BY <1>2, Inductive, PTL

=============================================================================
