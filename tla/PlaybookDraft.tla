--------------------------- MODULE PlaybookDraft ---------------------------
(***************************************************************************)
(* The authoring form of frontend/src: the draft graph of playbook-draft   *)
(* and the operations of PlaybookEditorScreen, NodeListEditor and          *)
(* EdgeListEditor on it, up to the save that serializes it.                *)
(*                                                                         *)
(* Lists are sequences, because errors are positional.  Of what is typed,  *)
(* the model keeps what a rule of the form, of the service or of a column  *)
(* tells apart:                                                            *)
(*   - a text is blank or one of Texts, once trimmed; the long ones do not *)
(*     fit an entry of the index on a node's labels;                       *)
(*   - metadata is an "object" or none, an object with the character       *)
(*     U+0000 in it, which JSONB cannot hold ("nul"), or "unparsable";     *)
(*   - an order is "none" (blank, or no number), "fits" a 32-bit INTEGER   *)
(*     or is too "wide" for one.                                           *)
(* Descriptions are left out: no rule of the form or the service reads     *)
(* them.  No field holds U+0000 itself, which TEXT would refuse too, and a *)
(* request is within the server's limit on its size.                       *)
(***************************************************************************)
EXTENDS PlaybookGraph, SequencesExt

CONSTANTS NodeUUIDs, EdgeUUIDs,  \* what crypto.randomUUID may return; bounds the lists
          Texts, Blank,          \* titles, labels and resolutions; ""
          LongTexts,             \* the texts that are too long for an index entry
          MetadataTexts,         \* what may be typed as metadata
          OrderTexts,            \* what may be typed as the order of a choice
          NoErrors, NoPayload    \* nothing on display; nothing in flight

(* Neither an id nor a text is null.                                       *)
ASSUME NullApart == NoNode \notin NodeUUIDs /\ NoResolution \notin Texts \cup {Blank}

(* A new row starts without metadata and with an order that fits.          *)
ASSUME Typable ==
  /\ LongTexts \subseteq Texts
  /\ MetadataTexts \subseteq {"object", "nul", "unparsable"} /\ "object" \in MetadataTexts
  /\ OrderTexts \subseteq {"none", "fits", "wide"} /\ "fits" \in OrderTexts

VARIABLES draft,    \* [root, nodes, edges] as typed
          errors,   \* the DraftErrors on display, or NoErrors
          sending   \* the PlaybookGraphInput of the save in flight, or NoPayload

vars == <<draft, errors, sending>>

NodeDraft ==
  [id : NodeUUIDs, kind : {KindDecision, KindTerminal}, title : Texts \cup {Blank},
   resolution : Texts \cup {Blank}, metadata : MetadataTexts]

EdgeDraft ==
  [id : EdgeUUIDs, from : NodeUUIDs \cup {NoNode}, to : NodeUUIDs \cup {NoNode},
   label : Texts \cup {Blank}, order : OrderTexts]

EmptyDraft == [root |-> NoNode, nodes |-> <<>>, edges |-> <<>>]

NewNode(id, kind) ==
  [id |-> id, kind |-> kind, title |-> Blank, resolution |-> Blank, metadata |-> "object"]

(* Its order is one more than the number of choices that leave its source. *)
NewEdge(id, from) ==
  [id |-> id, from |-> from, to |-> NoNode, label |-> Blank, order |-> "fits"]

IDs(list) == {list[i].id : i \in DOMAIN list}

----------------------------------------------------------------------------
(* serializePlaybookDraft: what the form would not send, and what it sends *)

(* Positions count from 1; what is wrong with the graph itself has 0.      *)
DraftError(scope, i, field) == [scope |-> scope, index |-> i, field |-> field]

NodeErrors(d, i) ==
  LET n == d.nodes[i]
      wrong == {f \in {"id", "title", "resolution", "metadata"} :
                  \/ f = "id" /\ \E j \in 1..(i - 1) : d.nodes[j].id = n.id
                  \/ f = "title" /\ n.title = Blank
                  \/ f = "resolution" /\ n.kind = KindTerminal /\ n.resolution = Blank
                  \/ f = "metadata" /\ n.metadata = "unparsable"}
  IN  {DraftError("node", i, f) : f \in wrong}

(* An endpoint is wrong when it is blank or no node of the draft.          *)
WrongEndpoint(d, n) == n \notin IDs(d.nodes)

EdgeErrors(d, i) ==
  LET e == d.edges[i]
      earlier == {d.edges[j] : j \in 1..(i - 1)}
      wrong == {f \in {"id", "label", "from", "to"} :
                  \/ f = "id" /\ \E o \in earlier : o.id = e.id
                  \/ f = "label" /\ \/ e.label = Blank
                                    \/ /\ e.from # NoNode
                                       /\ \E o \in earlier : o.from = e.from /\ o.label = e.label
                  \/ f = "from" /\ WrongEndpoint(d, e.from)
                  \/ f = "to" /\ WrongEndpoint(d, e.to)}
  IN  {DraftError("edge", i, f) : f \in wrong}

RootErrors(d) ==
  {DraftError("root", 0, "root") : r \in {d.root} \ (IDs(d.nodes) \cup {NoNode})}

(* Mutant: two choices of one node may carry one label.                    *)
SerializationErrorsButLabels(d) ==
  UNION ({NodeErrors(d, i) : i \in DOMAIN d.nodes}
           \cup {{x \in EdgeErrors(d, i) : x.field = "label" => d.edges[i].label = Blank} :
                   i \in DOMAIN d.edges}
           \cup {RootErrors(d)})

SerializationErrors(d) ==
  UNION ({NodeErrors(d, i) : i \in DOMAIN d.nodes}
           \cup {EdgeErrors(d, i) : i \in DOMAIN d.edges}
           \cup {RootErrors(d)})

(* What is no number is 0.                                                 *)
ParseSortOrder(text) == IF text = "none" THEN "fits" ELSE text

(* A resolution leaves the form for a terminal node only, an order as the  *)
(* number that was typed, of whatever size.                                *)
Serialize(d) ==
  [root  |-> d.root,
   nodes |-> [i \in DOMAIN d.nodes |->
                [d.nodes[i] EXCEPT !.resolution =
                   IF d.nodes[i].kind = KindTerminal THEN @ ELSE NoResolution]],
   edges |-> [i \in DOMAIN d.edges |-> [d.edges[i] EXCEPT !.order = ParseSortOrder(@)]]]

DraftFromDefinition(g) ==
  [g EXCEPT !.nodes = [i \in DOMAIN g.nodes |->
     [g.nodes[i] EXCEPT !.resolution = IF @ = NoResolution THEN Blank ELSE @]]]

----------------------------------------------------------------------------
(* What the server stores: validateGraphInput, then the columns and the    *)
(* constraints of playbook_nodes, playbook_edges and playbook_versions.    *)

Coherent(g) ==
  /\ IsInjective([i \in DOMAIN g.nodes |-> g.nodes[i].id])
  /\ \A i \in DOMAIN g.nodes : g.nodes[i].title # Blank /\ g.nodes[i].metadata # "unparsable"
  /\ IsInjective([i \in DOMAIN g.edges |-> g.edges[i].id])
  /\ \A i \in DOMAIN g.edges :
       g.edges[i].label # Blank /\ NoNode \notin {g.edges[i].from, g.edges[i].to}

ConstraintsHold(g) ==
  /\ \A i \in DOMAIN g.nodes :
       (g.nodes[i].kind = KindTerminal) <=> (g.nodes[i].resolution # NoResolution)
  /\ \A i \in DOMAIN g.edges : {g.edges[i].from, g.edges[i].to} \subseteq IDs(g.nodes)
  /\ IsInjective([i \in DOMAIN g.edges |-> <<g.edges[i].from, g.edges[i].label>>])
  /\ g.root \in IDs(g.nodes) \cup {NoNode}

(* JSONB, INTEGER and the index behind UNIQUE (from_node_id, label) do not *)
(* hold every value: what they refuse, translate answers as a 500.  Orders *)
(* of more than 64 bits are refused earlier, when the body is decoded.     *)
ColumnsHold(g) ==
  /\ \A i \in DOMAIN g.nodes : g.nodes[i].metadata # "nul"
  /\ \A i \in DOMAIN g.edges : g.edges[i].order # "wide" /\ g.edges[i].label \notin LongTexts

Storable(g) == Coherent(g) /\ ColumnsHold(g) /\ ConstraintsHold(g)

(* Rows come back sorted by title or sort order and then by id, whatever   *)
(* the order in which they were sent; the model compares no sort keys.     *)
StoredOrders(g) ==
  {[root |-> g.root, nodes |-> ns, edges |-> es] :
     ns \in SetToSeqs(Range(g.nodes)), es \in SetToSeqs(Range(g.edges))}

----------------------------------------------------------------------------
(* The operations.  The fields are disabled while a save is in flight.     *)

Init == draft = EmptyDraft /\ errors = NoErrors /\ sending = NoPayload

Unlocked == sending = NoPayload

(* Mutant: what was wrong with the draft stays on display.                 *)
MutateKeepingErrors(d) == Unlocked /\ draft' = d /\ UNCHANGED <<errors, sending>>

Mutate(d) == Unlocked /\ draft' = d /\ errors' = NoErrors /\ UNCHANGED sending

(* The first node of a draft without a root becomes its root.              *)
AddNode(id, kind) ==
  /\ id \notin IDs(draft.nodes)
  /\ Mutate([root  |-> IF draft.root = NoNode /\ draft.nodes = <<>> THEN id ELSE draft.root,
             nodes |-> Append(draft.nodes, NewNode(id, kind)),
             edges |-> draft.edges])

PatchNode(i, n) == Mutate([draft EXCEPT !.nodes[i] = n])

(* A control of the node's row changes one field; that of the resolution   *)
(* is there for a terminal node only.                                      *)
UpdateNode(i) ==
  LET n == draft.nodes[i]
  IN  \/ \E kind \in {KindDecision, KindTerminal} : PatchNode(i, [n EXCEPT !.kind = kind])
      \/ \E t \in Texts \cup {Blank} : PatchNode(i, [n EXCEPT !.title = t])
      \/ n.kind = KindTerminal /\ \E t \in Texts \cup {Blank} : PatchNode(i, [n EXCEPT !.resolution = t])
      \/ \E t \in MetadataTexts : PatchNode(i, [n EXCEPT !.metadata = t])

(* The list in the positions that stay, in their order: Array.filter.      *)
InOrder(list, stay) ==
  {[k \in DOMAIN f |-> list[f[k]]] :
     f \in {h \in SetToSeqs(stay) : \A k, l \in DOMAIN h : k < l => h[k] < h[l]}}

(* A node goes with its rootship and with all choices but those that stay. *)
RemoveNodeBut(i, stay) ==
  \E edges \in InOrder(draft.edges, stay) :
    Mutate([root  |-> IF draft.root = draft.nodes[i].id THEN NoNode ELSE draft.root,
            nodes |-> RemoveAt(draft.nodes, i),
            edges |-> edges])

(* Mutant: the choices that lead to a removed node stay.                   *)
RemoveNodeKeepingArrivals(i) ==
  RemoveNodeBut(i, {k \in DOMAIN draft.edges : draft.edges[k].from # draft.nodes[i].id})

(* The choices that leave the node and those that lead to it go.           *)
RemoveNode(i) ==
  RemoveNodeBut(i, {k \in DOMAIN draft.edges :
                      draft.nodes[i].id \notin {draft.edges[k].from, draft.edges[k].to}})

Sources == {n.id : n \in {m \in Range(draft.nodes) : m.kind = KindDecision}}

(* "+ Choice", or "+ Choice from here" at a decision node.                 *)
AddEdge(id) ==
  /\ id \notin IDs(draft.edges) /\ draft.nodes # <<>>
  /\ \E from \in Sources \cup {NoNode} :
       Mutate([draft EXCEPT !.edges = Append(@, NewEdge(id, from))])

PatchEdge(i, e) == Mutate([draft EXCEPT !.edges[i] = e])

(* The source of a choice is picked among the decision nodes, its          *)
(* destination among all.  A new source may renumber the choice, which     *)
(* then fits as before; its order may be any number, or none.              *)
UpdateEdge(i) ==
  LET e == draft.edges[i]
  IN  \/ \E n \in Sources \cup {NoNode} : PatchEdge(i, [e EXCEPT !.from = n])
      \/ \E n \in IDs(draft.nodes) \cup {NoNode} : PatchEdge(i, [e EXCEPT !.to = n])
      \/ \E t \in Texts \cup {Blank} : PatchEdge(i, [e EXCEPT !.label = t])
      \/ \E t \in OrderTexts : PatchEdge(i, [e EXCEPT !.order = t])

RemoveEdge(i) == Mutate([draft EXCEPT !.edges = RemoveAt(@, i)])

ChooseRoot(n) == Mutate([draft EXCEPT !.root = n])

SaveRefused ==
  /\ Unlocked /\ SerializationErrors(draft) # {}
  /\ errors' = SerializationErrors(draft)
  /\ UNCHANGED <<draft, sending>>

SaveSent ==
  /\ Unlocked /\ SerializationErrors(draft) = {}
  /\ errors' = NoErrors /\ sending' = Serialize(draft)
  /\ UNCHANGED draft

(* The answer carries the stored graph, which is loaded into the form.     *)
SaveLanded ==
  /\ sending # NoPayload /\ Storable(sending)
  /\ \E g \in StoredOrders(sending) : draft' = DraftFromDefinition(g)
  /\ sending' = NoPayload
  /\ UNCHANGED errors

(* The call fails, or the server refuses the graph.                        *)
SaveFailed == sending # NoPayload /\ sending' = NoPayload /\ UNCHANGED <<draft, errors>>

Next ==
  \/ \E id \in NodeUUIDs, kind \in {KindDecision, KindTerminal} : AddNode(id, kind)
  \/ \E i \in DOMAIN draft.nodes : UpdateNode(i) \/ RemoveNode(i)
  \/ \E id \in EdgeUUIDs : AddEdge(id)
  \/ \E i \in DOMAIN draft.edges : UpdateEdge(i) \/ RemoveEdge(i)
  \/ \E n \in IDs(draft.nodes) \cup {NoNode} : ChooseRoot(n)
  \/ SaveRefused \/ SaveSent \/ SaveLanded \/ SaveFailed

Spec == Init /\ [][Next]_vars

----------------------------------------------------------------------------
(* Properties.                                                             *)

(* Whatever is added, re-pointed and removed, in whatever order, and saved *)
(* and loaded again: no choice and no root of the form points at a node    *)
(* that is not in it (removeNode).                                         *)
NoDanglingReference ==
  /\ draft.root \in IDs(draft.nodes) \cup {NoNode}
  /\ \A e \in Range(draft.edges) : {e.from, e.to} \subseteq IDs(draft.nodes) \cup {NoNode}

(* An error on display marks the row it is about: it describes the draft   *)
(* as it is now, not as it was when the save was refused (mutate).         *)
ErrorsDescribeDraft == errors # NoErrors => errors = SerializationErrors(draft)

(* Whatever was typed and edited, the server refuses what the form sends   *)
(* for no reason but a value that its column cannot hold, such as an order *)
(* of more than 32 bits, of which the form has no rule: its rules miss     *)
(* none of validateGraphInput's and none of the schema's constraints       *)
(* (serializePlaybookDraft).                                               *)
RefusedOnlyForColumns ==
  sending # NoPayload => Coherent(sending) /\ ConstraintsHold(sending)

=============================================================================
