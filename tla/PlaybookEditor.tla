--------------------------- MODULE PlaybookEditor ---------------------------
(***************************************************************************)
(* The life of the playbook editor's page: PlaybookEditorScreen and        *)
(* useResource of frontend/src, against an unreliable network, a server on *)
(* which others edit and publish too, and a designer who moves about.      *)
(*                                                                         *)
(* A graph is its root, its nodes and its edges, each of them one value:   *)
(* PlaybookDraft has their inside.  A write takes effect at once or not at *)
(* all, and its answer is read under its lock (PlaybookStore); a load of a *)
(* version is three statements without a lock, between which others save.  *)
(* What goes wrong is shown in a notice; of the notices only those with a  *)
(* button are kept.                                                        *)
(* The name and the alert type of a new playbook gate its save and are     *)
(* taken as filled in.                                                     *)
(***************************************************************************)
EXTENDS Naturals

CONSTANTS Playbooks, NoPlaybook,
          Versions, NoVersion,  \* version ids; bounds the versions ever created
          Graphs, EmptyGraph,   \* what serializes, so that a version may hold it; EMPTY_DRAFT
          Unfit,                \* a draft that does not serialize
          FinishedGraphs,       \* the graphs that Publish accepts
          Slots, NoSlot         \* HTTP calls in flight; bounds how many

ASSUME GraphsTyped == EmptyGraph \in Graphs /\ FinishedGraphs \subseteq Graphs

ASSUME GraphsShaped ==
  \A g \in Graphs : g = [root |-> g.root, nodes |-> g.nodes, edges |-> g.edges]

ASSUME NothingApart == NoVersion \notin Versions /\ NoSlot \notin Slots

VARIABLES rows,        \* server: version -> [id, playbook, status, graph] or NoRow
          calls,       \* network and handlers: slot -> call or NoCall
          url,         \* the route: its playbook and its version
          data,        \* useResource: the version, or NoRow
          failed,      \* useResource: the last load of the version failed
          getting,     \* useResource: the load in flight
          nameFailed,  \* useResource: the last load of the playbook failed
          seeded,      \* seededVersionId
          draft, dirty,
          mixed,       \* history: the load that seeded the form was overtaken by a save
          saving, publishing, cloning,  \* the call each of them waits for
          held         \* history: every graph a version has ever held

form == <<seeded, draft, dirty, mixed>>
page == <<url, data, failed, getting, nameFailed, form, saving, publishing, cloning>>
server == <<rows, held>>
vars == <<server, calls, page>>

Drafts == Graphs \cup {Unfit}

NoRow == [status |-> "none"]

NoCall == [op |-> "none"]

Row(v, p, g) == [id |-> v, playbook |-> p, status |-> "draft", graph |-> g]

Route(p, v) == [playbook |-> p, version |-> v]

FreeSlots == {s \in Slots : calls[s] = NoCall}

Unused == {v \in Versions : rows[v] = NoRow}

Call(op, v, p, g) ==
  [op |-> op, version |-> v, playbook |-> p, graph |-> g, code |-> "none", row |-> NoRow,
   next |-> "row", torn |-> FALSE, heard |-> TRUE]

(* The root of one graph, the nodes of another and the edges of a third.   *)
Mix(g, h, k) == [root |-> g.root, nodes |-> h.nodes, edges |-> k.edges]

----------------------------------------------------------------------------
(* The server.                                                             *)

Hold(v, row) ==
  /\ rows' = [rows EXCEPT ![v] = row]
  /\ held' = [held EXCEPT ![v] = @ \cup {row.graph}]

Answer(s, code, row) == calls' = [calls EXCEPT ![s].code = code, ![s].row = row]

Refuse(s, code) == Answer(s, code, NoRow) /\ UNCHANGED server

Accept(s, row) == Hold(row.id, row) /\ Answer(s, "OK", row)

(* The three statements of a load: the version's row with its root, its    *)
(* nodes, its edges.  The edges of the first two are those of the moment,  *)
(* until the third reads them.  A load is torn when a later statement does *)
(* not find what was there before.                                         *)
ReadRow(s) ==
  LET row == rows[calls[s].version]
  IN  IF row = NoRow
      THEN Refuse(s, "RESOURCE_NOT_FOUND")
      ELSE /\ calls' = [calls EXCEPT ![s].row = row, ![s].next = "nodes"]
           /\ UNCHANGED server

ReadOn(s, g, next, code) ==
  /\ calls' = [calls EXCEPT ![s].row.graph = g, ![s].next = next, ![s].code = code,
                            ![s].torn = @ \/ g # calls[s].row.graph]
  /\ UNCHANGED server

ServeGet(s) ==
  LET read == calls[s].row.graph
      now == rows[calls[s].version].graph
  IN  \/ calls[s].next = "row" /\ ReadRow(s)
      \/ calls[s].next = "nodes" /\ ReadOn(s, Mix(read, now, now), "edges", "none")
      \/ calls[s].next = "edges" /\ ReadOn(s, Mix(read, read, now), "done", "OK")

ServePut(s) ==
  LET row == rows[calls[s].version]
  IN  IF row = NoRow THEN Refuse(s, "RESOURCE_NOT_FOUND")
      ELSE IF row.status # "draft" THEN Refuse(s, "PLAYBOOK_VERSION_NOT_DRAFT")
      ELSE Accept(s, [row EXCEPT !.graph = calls[s].graph])

ServePublish(s) ==
  LET row == rows[calls[s].version]
  IN  IF row = NoRow THEN Refuse(s, "RESOURCE_NOT_FOUND")
      ELSE IF row.status # "draft" THEN Refuse(s, "PLAYBOOK_VERSION_NOT_DRAFT")
      ELSE IF row.graph \notin FinishedGraphs THEN Refuse(s, "INVALID_PLAYBOOK_GRAPH")
      ELSE Accept(s, [row EXCEPT !.status = "published"])

(* A copy: a new draft of the same graph.                                  *)
ServeClone(s) ==
  LET row == rows[calls[s].version]
  IN  IF row = NoRow THEN Refuse(s, "RESOURCE_NOT_FOUND")
      ELSE IF row.playbook # calls[s].playbook THEN Refuse(s, "VALIDATION_FAILED")
      ELSE \E v \in Unused : Accept(s, Row(v, calls[s].playbook, row.graph))

(* A new playbook and its first version.                                   *)
ServeCreate(s) ==
  \E v \in Unused, p \in Playbooks :
    /\ \A w \in Versions \ Unused : rows[w].playbook # p
    /\ Accept(s, Row(v, p, calls[s].graph))

Serve(s) ==
  /\ calls[s] # NoCall /\ calls[s].code = "none"
  /\ CASE calls[s].op = "get"     -> ServeGet(s)
       [] calls[s].op = "put"     -> ServePut(s)
       [] calls[s].op = "publish" -> ServePublish(s)
       [] calls[s].op = "clone"   -> ServeClone(s)
       [] calls[s].op = "create"  -> ServeCreate(s)
  /\ UNCHANGED page

(* Another designer edits or publishes.                                    *)
OtherSaves(v, g) ==
  /\ rows[v] # NoRow /\ rows[v].status = "draft" /\ rows[v].graph # g
  /\ Hold(v, [rows[v] EXCEPT !.graph = g])
  /\ UNCHANGED <<calls, page>>

OtherPublishes(v) ==
  /\ rows[v] # NoRow /\ rows[v].status = "draft" /\ rows[v].graph \in FinishedGraphs
  /\ Hold(v, [rows[v] EXCEPT !.status = "published"])
  /\ UNCHANGED <<calls, page>>

(* A call that nobody waits for any more dies somewhere on its way.        *)
Vanish(s) ==
  /\ calls[s] # NoCall /\ s \notin {getting, saving, publishing, cloning}
  /\ calls' = [calls EXCEPT ![s] = NoCall]
  /\ UNCHANGED <<server, page>>

----------------------------------------------------------------------------
(* useResource and the route.                                              *)

Init ==
  /\ \E v \in Versions, p \in Playbooks, g \in Graphs :
       /\ rows = [w \in Versions |-> IF w = v THEN Row(v, p, g) ELSE NoRow]
       /\ held = [w \in Versions |-> IF w = v THEN {g} ELSE {}]
  /\ calls = [s \in Slots |-> NoCall]
  /\ url = Route(NoPlaybook, NoVersion)
  /\ data = NoRow /\ failed = FALSE /\ getting = NoSlot /\ nameFailed = FALSE
  /\ seeded = NoVersion /\ draft = EmptyGraph /\ dirty = FALSE /\ mixed = FALSE
  /\ saving = NoSlot /\ publishing = NoSlot /\ cloning = NoSlot

(* Opening a page of its own: nothing of the page before is left.          *)
Blank(u) ==
  /\ url' = u
  /\ data' = NoRow /\ failed' = FALSE
  /\ seeded' = NoVersion /\ draft' = EmptyGraph /\ dirty' = FALSE /\ mixed' = FALSE
  /\ saving' = NoSlot /\ publishing' = NoSlot /\ cloning' = NoSlot

(* The slots once the load in flight is aborted.                           *)
WithoutLoad == IF getting = NoSlot THEN calls ELSE [calls EXCEPT ![getting] = NoCall]

(* The editor of version v under playbook p; the loads of both start, and  *)
(* how that of the playbook, which shows its name, ends is drawn at once.  *)
MountEditor(p, v, pending) ==
  /\ Blank(Route(p, v))
  /\ nameFailed' \in BOOLEAN
  /\ \E s \in {t \in Slots : pending[t] = NoCall} :
       /\ getting' = s
       /\ calls' = [pending EXCEPT ![s] = Call("get", v, NoPlaybook, EmptyGraph)]

(* By a link, the address bar, back or forward: any route, right or wrong. *)
Open(p, v) == MountEditor(p, v, WithoutLoad) /\ UNCHANGED server

OpenNew ==
  /\ Blank(Route(NoPlaybook, NoVersion))
  /\ nameFailed' = FALSE /\ getting' = NoSlot
  /\ calls' = WithoutLoad
  /\ UNCHANGED server

(* Mutant: every load seeds the form.                                      *)
SeedAlways(c) ==
  seeded' = c.row.id /\ draft' = c.row.graph /\ dirty' = FALSE /\ mixed' = c.torn

(* The effect that seeds the form, once for a version.                     *)
Seed(c) ==
  /\ seeded' = c.row.id
  /\ IF seeded = c.row.id THEN UNCHANGED <<draft, dirty, mixed>>
                          ELSE draft' = c.row.graph /\ dirty' = FALSE /\ mixed' = c.torn

Answered(s, op) == s # NoSlot /\ calls[s] # NoCall /\ calls[s].op = op /\ calls[s].code # "none"

Accepted(s, op) == Answered(s, op) /\ calls[s].code = "OK"

Take(s) == calls' = [calls EXCEPT ![s] = NoCall]

Loaded(s) ==
  /\ Accepted(s, "get") /\ s = getting
  /\ data' = calls[s].row /\ getting' = NoSlot /\ Seed(calls[s]) /\ Take(s)
  /\ UNCHANGED <<server, url, failed, nameFailed, saving, publishing, cloning>>

LoadFailed ==
  /\ getting # NoSlot
  /\ failed' = TRUE /\ getting' = NoSlot /\ calls' = WithoutLoad
  /\ UNCHANGED <<server, url, data, nameFailed, form, saving, publishing, cloning>>

----------------------------------------------------------------------------
(* The screen.                                                             *)

Mismatched == url.playbook # NoPlaybook /\ data # NoRow /\ data.playbook # url.playbook

FormShown == ~(getting # NoSlot /\ data = NoRow) /\ ~Mismatched

Frozen == data # NoRow /\ data.status # "draft"

Locked == Frozen \/ {saving, publishing, cloning} # {NoSlot}

Edit(d) ==
  /\ FormShown /\ ~Locked /\ d # draft
  /\ draft' = d /\ dirty' = TRUE
  /\ UNCHANGED <<server, calls, url, data, failed, getting, nameFailed, seeded, mixed,
                 saving, publishing, cloning>>

SaveCall ==
  IF url.version = NoVersion THEN Call("create", NoVersion, NoPlaybook, draft)
                             ELSE Call("put", url.version, NoPlaybook, draft)

(* Mutant: what is sent counts as saved.                                   *)
SaveOptimistically ==
  /\ FormShown /\ ~Locked /\ (url.version = NoVersion \/ dirty) /\ draft \in Graphs
  /\ \E s \in FreeSlots : saving' = s /\ calls' = [calls EXCEPT ![s] = SaveCall]
  /\ dirty' = FALSE
  /\ UNCHANGED <<server, url, data, failed, getting, nameFailed, seeded, draft, mixed,
                 publishing, cloning>>

(* The save button.  What does not serialize, a mix perhaps, stays where   *)
(* it is, with its errors.                                                 *)
Save ==
  /\ FormShown /\ ~Locked /\ (url.version = NoVersion \/ dirty) /\ draft \in Graphs
  /\ \E s \in FreeSlots : saving' = s /\ calls' = [calls EXCEPT ![s] = SaveCall]
  /\ UNCHANGED <<server, url, data, failed, getting, nameFailed, form, publishing, cloning>>

(* A "Try again" of ErrorNotice: it loads again and, being a button of the *)
(* form without a type, submits the form as well.                          *)
WillSave == ~Locked /\ draft \in Graphs

Reload(s) ==
  /\ getting' = s /\ failed' = FALSE
  /\ UNCHANGED <<server, url, data, nameFailed, form, publishing, cloning>>

TryAgain ==
  /\ FormShown /\ failed
  /\ \E s \in FreeSlots :
       /\ Reload(s)
       /\ LET loading == [WithoutLoad EXCEPT ![s] = Call("get", url.version, NoPlaybook, EmptyGraph)]
          IN  IF WillSave
              THEN \E t \in FreeSlots \ {s} : saving' = t /\ calls' = [loading EXCEPT ![t] = SaveCall]
              ELSE calls' = loading /\ UNCHANGED saving

TryNameAgain ==
  /\ FormShown /\ nameFailed
  /\ nameFailed' \in BOOLEAN
  /\ IF WillSave
     THEN \E s \in FreeSlots : saving' = s /\ calls' = [calls EXCEPT ![s] = SaveCall]
     ELSE UNCHANGED <<saving, calls>>
  /\ UNCHANGED <<server, url, data, failed, getting, form, publishing, cloning>>

Publish ==
  /\ FormShown /\ ~Locked /\ url.version # NoVersion /\ ~dirty
  /\ \E s \in FreeSlots :
       publishing' = s /\ calls' = [calls EXCEPT ![s] = Call("publish", url.version, NoPlaybook, EmptyGraph)]
  /\ UNCHANGED <<server, url, data, failed, getting, nameFailed, form, saving, cloning>>

StartNewVersion ==
  /\ FormShown /\ Frozen /\ url.playbook # NoPlaybook /\ cloning = NoSlot
  /\ \E s \in FreeSlots :
       cloning' = s /\ calls' = [calls EXCEPT ![s] = Call("clone", url.version, url.playbook, EmptyGraph)]
  /\ UNCHANGED <<server, url, data, failed, getting, nameFailed, form, saving, publishing>>

----------------------------------------------------------------------------
(* The answers.  Those to a save and to a publish mean something only to   *)
(* the page that waits for them; a created version is navigated to by      *)
(* whichever page asked for it, even one that has been left.               *)

SaveLanded(s) ==
  /\ Accepted(s, "put") /\ s = saving
  /\ data' = calls[s].row /\ failed' = FALSE /\ seeded' = calls[s].row.id
  /\ draft' = calls[s].row.graph /\ dirty' = FALSE /\ mixed' = FALSE
  /\ saving' = NoSlot /\ Take(s)
  /\ UNCHANGED <<server, url, getting, nameFailed, publishing, cloning>>

PublishLanded(s) ==
  /\ Accepted(s, "publish") /\ s = publishing
  /\ data' = calls[s].row /\ failed' = FALSE /\ Seed(calls[s])
  /\ nameFailed' \in BOOLEAN
  /\ publishing' = NoSlot /\ Take(s)
  /\ UNCHANGED <<server, url, getting, saving, cloning>>

Created(s) ==
  /\ Accepted(s, "create") \/ Accepted(s, "clone")
  /\ calls[s].heard
  /\ MountEditor(calls[s].row.playbook, calls[s].row.id, [WithoutLoad EXCEPT ![s] = NoCall])
  /\ UNCHANGED server

(* A refusal, or a failure on the way: the server may have the call, or    *)
(* get it yet, but nobody hears of it.                                     *)
GiveUp(s) ==
  IF calls[s].code = "none" THEN calls' = [calls EXCEPT ![s].heard = FALSE]
                            ELSE calls' = [calls EXCEPT ![s] = NoCall]

SaveFailed ==
  /\ saving # NoSlot /\ GiveUp(saving) /\ saving' = NoSlot
  /\ UNCHANGED <<server, url, data, failed, getting, nameFailed, form, publishing, cloning>>

PublishFailed ==
  /\ publishing # NoSlot /\ GiveUp(publishing) /\ publishing' = NoSlot
  /\ UNCHANGED <<server, url, data, failed, getting, nameFailed, form, saving, cloning>>

CloneFailed ==
  /\ cloning # NoSlot /\ GiveUp(cloning) /\ cloning' = NoSlot
  /\ UNCHANGED <<server, url, data, failed, getting, nameFailed, form, saving, publishing>>

----------------------------------------------------------------------------
Next ==
  \/ \E v \in Versions, g \in Graphs : OtherSaves(v, g)
  \/ \E v \in Versions : OtherPublishes(v)
  \/ \E s \in Slots : Serve(s) \/ Vanish(s)
  \/ \E p \in Playbooks, v \in Versions : Open(p, v)
  \/ OpenNew
  \/ \E d \in Drafts : Edit(d)
  \/ Save \/ TryAgain \/ TryNameAgain \/ Publish \/ StartNewVersion
  \/ \E s \in Slots : Loaded(s) \/ SaveLanded(s) \/ PublishLanded(s) \/ Created(s)
  \/ LoadFailed \/ SaveFailed \/ PublishFailed \/ CloneFailed

Spec == Init /\ [][Next]_vars

----------------------------------------------------------------------------
(* Properties.                                                             *)

(* What a version has held, or else the result of a torn load of it.       *)
AsHeld(g, v, torn) ==
  \/ g \in held[v]
  \/ torn /\ \E a, b, c \in held[v] : g = Mix(a, b, c)

(* Once the form holds a version, no answer takes an unsaved edit away, in *)
(* whatever order answers to loads, saves and publishes come in (the       *)
(* seeding effect, and the lock while a save is in flight).                *)
EditsSurvive ==
  [][dirty /\ seeded # NoVersion /\ seeded' = seeded /\ calls' # calls => draft' = draft]_vars

(* A form without unsaved edits shows what its version has really held,    *)
(* and nothing is called saved that the server was not seen to store; when *)
(* others saved between the statements of the load that seeded it, what it *)
(* shows may never have been stored as a whole, but its root, its nodes    *)
(* and its edges were, each at some time (save, the seeding effect,        *)
(* GetVersion).                                                            *)
CleanWasStored == seeded # NoVersion /\ ~dirty => AsHeld(draft, seeded, mixed)

(* PlaybookEditorScreen, on opening a version of B under A: "the header    *)
(* would name playbook A while every write went to B's version ...         *)
(* Returning before the form exists is what makes that impossible."        *)
NoForeignWrite ==
  saving # NoSlot /\ url.version # NoVersion /\ rows[url.version] # NoRow
    => rows[url.version].playbook = url.playbook

=============================================================================
