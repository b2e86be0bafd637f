------------------------ MODULE PlaybookEditorProofs ------------------------
(***************************************************************************)
(* Proofs about the playbook editor's page, for any versions, graphs and   *)
(* number of calls in flight.                                              *)
(***************************************************************************)
EXTENDS PlaybookEditor, TLAPS

Rows == [id : Versions, playbook : Playbooks, status : {"draft", "published"}, graph : Graphs]

(* What a load may return: its graph may be a mix.                         *)
Mixes == {Mix(g, h, k) : g \in Graphs, h \in Graphs, k \in Graphs}

ReadRows == [id : Versions, playbook : Playbooks, status : {"draft", "published"}, graph : Mixes]

Codes == {"none", "OK", "RESOURCE_NOT_FOUND", "PLAYBOOK_VERSION_NOT_DRAFT",
          "INVALID_PLAYBOOK_GRAPH", "VALIDATION_FAILED"}

CallRecords ==
  [op : {"get", "put", "publish", "clone", "create"}, version : Versions \cup {NoVersion},
   playbook : Playbooks \cup {NoPlaybook}, graph : Graphs, code : Codes,
   row : ReadRows \cup {NoRow}, next : {"row", "nodes", "edges", "done"}, torn : BOOLEAN,
   heard : BOOLEAN]

(* What the server, the network and the page hold.                         *)
TypedServer ==
  /\ rows \in [Versions -> Rows \cup {NoRow}]
  /\ held \in [Versions -> SUBSET Graphs]

TypedPage ==
  /\ url \in [playbook : Playbooks \cup {NoPlaybook}, version : Versions \cup {NoVersion}]
  /\ data \in ReadRows \cup {NoRow}
  /\ getting \in Slots \cup {NoSlot} /\ saving \in Slots \cup {NoSlot}
  /\ publishing \in Slots \cup {NoSlot} /\ cloning \in Slots \cup {NoSlot}
  /\ seeded \in Versions \cup {NoVersion}
  /\ draft \in Mixes \cup {Unfit} /\ dirty \in BOOLEAN /\ mixed \in BOOLEAN

TypedCalls == calls \in [Slots -> CallRecords \cup {NoCall}]

(* What a version holds now is among what it has held.                     *)
Stored == \A v \in Versions : rows[v] # NoRow => rows[v].id = v /\ rows[v].graph \in held[v]

(* Every call but a creation names a version; a load in progress has read  *)
(* what the version has held, and a success carries a row the server had,  *)
(* that of a save the graph that was sent; only a load can be torn.        *)
CallOK(c) ==
  /\ c.op # "create" => c.version \in Versions
  /\ c.op # "get" => c.next = "row"
  /\ c.next = "row" => ~c.torn
  /\ c.next # "row" => /\ c.row # NoRow /\ c.row.id = c.version
                       /\ rows[c.version] # NoRow
  /\ c.next # "row" \/ c.code = "OK" => c.row # NoRow /\ AsHeld(c.row.graph, c.row.id, c.torn)
  /\ c.code = "OK" /\ c.op = "put" => c.row.graph = c.graph

CallsOK == \A s \in Slots : calls[s] # NoCall => CallOK(calls[s])

(* The page waits for calls it has made.                                   *)
Waits(s, ops) == s # NoSlot => calls[s] # NoCall /\ calls[s].op \in ops

PageWaits == /\ Waits(getting, {"get"}) /\ Waits(saving, {"put", "create"})
             /\ Waits(publishing, {"publish"}) /\ Waits(cloning, {"clone"})

(* The page of a new playbook has nothing to load, publish or clone.       *)
NewPage ==
  url.version = NoVersion =>
    /\ data = NoRow /\ ~failed /\ getting = NoSlot /\ publishing = NoSlot /\ cloning = NoSlot
    /\ saving # NoSlot => calls[saving].op = "create"

(* While a save is in flight the form has no edits but those it sends.     *)
SavesDraft == saving # NoSlot /\ calls[saving].op = "put" /\ dirty => calls[saving].graph = draft

IInv == /\ TypedServer /\ TypedPage /\ TypedCalls /\ Stored /\ CallsOK
        /\ PageWaits /\ NewPage /\ SavesDraft /\ CleanWasStored

----------------------------------------------------------------------------
(* Mixes.                                                                  *)

LEMMA GraphIsMix ==
  ASSUME NEW g \in Graphs
  PROVE  g = Mix(g, g, g) /\ g \in Mixes
<1>1. g = Mix(g, g, g)
  BY GraphsShaped DEF Mix
<1> QED
  BY <1>1 DEF Mixes

LEMMA RowsAreRead == Rows \subseteq ReadRows
  BY GraphIsMix DEF Rows, ReadRows

(* A mix of a mix takes its parts from where the mix took them.            *)
LEMMA MixOfMix ==
  ASSUME NEW a, NEW b, NEW k, NEW g, g = Mix(a, b, k), NEW h
  PROVE  Mix(g, h, h) = Mix(a, h, h) /\ Mix(g, g, h) = Mix(a, b, h)
  BY DEF Mix

(* The server keeps its versions, and forgets no graph they held.          *)
Grows == \A w \in Versions : held[w] \subseteq held'[w] /\ (rows[w] # NoRow => rows'[w] # NoRow)

LEMMA AsHeldGrows ==
  ASSUME NEW H, NEW J, H \subseteq J, NEW g, NEW torn,
         g \in H \/ (torn /\ \E a, b, k \in H : g = Mix(a, b, k))
  PROVE  g \in J \/ (torn /\ \E a, b, k \in J : g = Mix(a, b, k))
  OBVIOUS

LEMMA CallStaysOK ==
  ASSUME IInv, Grows, NEW c \in CallRecords, CallOK(c)
  PROVE  CallOK(c)'
<1>1. c.row # NoRow => c.row.id \in Versions
  BY DEF CallRecords, ReadRows
<1>2. c.next # "row" => c.version \in Versions
  BY DEF CallOK
<1>3. ASSUME c.next # "row" \/ c.code = "OK" PROVE AsHeld(c.row.graph, c.row.id, c.torn)'
  <2>1. held[c.row.id] \subseteq held'[c.row.id]
    BY <1>1, <1>3 DEF CallOK, Grows
  <2>2. AsHeld(c.row.graph, c.row.id, c.torn)
    BY <1>3 DEF CallOK
  <2> QED
    BY <2>1, <2>2, AsHeldGrows DEF AsHeld
<1> QED
  BY <1>2, <1>3 DEF CallOK, Grows

----------------------------------------------------------------------------
(* The initial state.                                                      *)
LEMMA InitInv == Init => IInv
<1> SUFFICES ASSUME Init PROVE IInv
  OBVIOUS
<1>1. PICK v \in Versions, p \in Playbooks, g \in Graphs :
        /\ rows = [w \in Versions |-> IF w = v THEN Row(v, p, g) ELSE NoRow]
        /\ held = [w \in Versions |-> IF w = v THEN {g} ELSE {}]
  BY DEF Init
<1>2. Row(v, p, g) \in Rows /\ Row(v, p, g).id = v /\ Row(v, p, g).graph = g
  BY DEF Row, Rows
<1>3. TypedServer /\ Stored
  BY <1>1, <1>2 DEF TypedServer, Stored
<1>4. TypedPage /\ TypedCalls
  BY GraphsTyped, GraphIsMix DEF Init, TypedPage, TypedCalls, Route
<1>5. CallsOK /\ PageWaits /\ NewPage /\ SavesDraft /\ CleanWasStored
  BY DEF Init, CallsOK, PageWaits, Waits, NewPage, SavesDraft, CleanWasStored
<1> QED
  BY <1>3, <1>4, <1>5 DEF IInv

----------------------------------------------------------------------------
(* The server's steps.                                                     *)

(* Storing a row of a version: it is well formed and under its id.         *)
LEMMA HoldStores ==
  ASSUME TypedServer, Stored, NEW v \in Versions, NEW row \in Rows, row.id = v, Hold(v, row)
  PROVE  TypedServer' /\ Stored' /\ Grows /\ row.graph \in held'[v] /\ rows'[v] # NoRow
<1>1. row.graph \in Graphs /\ row # NoRow
  BY DEF Rows, NoRow
<1> QED
  BY <1>1 DEF Hold, TypedServer, Stored, Grows

(* A step of the server: the page keeps what it waits for.                 *)
LEMMA PageUntouched ==
  ASSUME IInv, TypedServer', TypedCalls', Stored', CallsOK', UNCHANGED page,
         Grows,
         \A s \in {getting, saving, publishing, cloning} \cap Slots :
           calls'[s] # NoCall /\ calls'[s].op = calls[s].op /\ calls'[s].graph = calls[s].graph
  PROVE  IInv'
<1>1. TypedPage'
  BY DEF IInv, TypedPage, page, form
<1>2. /\ getting \in Slots \cup {NoSlot} /\ saving \in Slots \cup {NoSlot}
      /\ publishing \in Slots \cup {NoSlot} /\ cloning \in Slots \cup {NoSlot}
  BY DEF IInv, TypedPage
<1>3. PageWaits'
  BY <1>2 DEF IInv, PageWaits, Waits, page
<1>4. NewPage'
  BY <1>2 DEF IInv, NewPage, page
<1>5. SavesDraft'
  BY <1>2 DEF IInv, SavesDraft, page, form
<1>6. CleanWasStored'
  <2> SUFFICES ASSUME seeded # NoVersion, ~dirty PROVE AsHeld(draft, seeded, mixed)'
    BY DEF CleanWasStored, page, form
  <2>1. AsHeld(draft, seeded, mixed) /\ seeded \in Versions
    BY DEF IInv, CleanWasStored, TypedPage
  <2>2. held[seeded] \subseteq held'[seeded] /\ UNCHANGED <<draft, seeded, mixed>>
    BY <2>1 DEF Grows, page, form
  <2> QED
    BY <2>1, <2>2, AsHeldGrows DEF AsHeld
<1> QED
  BY <1>1, <1>3, <1>4, <1>5, <1>6 DEF IInv

(* What becomes of a call that the server works on.                        *)
Served(s, c) ==
  /\ c \in CallRecords /\ calls' = [calls EXCEPT ![s] = c]
  /\ c.op = calls[s].op /\ c.graph = calls[s].graph /\ CallOK(c)'

(* A refusal or a success, of any call but a load.                         *)
LEMMA AnswerServes ==
  ASSUME IInv, NEW s \in Slots, calls[s] # NoCall, calls[s].next = "row", ~calls[s].torn,
         NEW code \in Codes, NEW row \in Rows \cup {NoRow}, Answer(s, code, row),
         code = "OK" => /\ row # NoRow /\ row.graph \in held'[row.id]
                        /\ calls[s].op = "put" => row.graph = calls[s].graph
  PROVE  \E c : Served(s, c)
<1>1. calls[s] \in CallRecords /\ CallOK(calls[s])
  BY DEF IInv, TypedCalls, CallsOK
<1>2. PICK c : c = [calls[s] EXCEPT !.code = code, !.row = row]
  OBVIOUS
<1>3. /\ c \in CallRecords /\ c.op = calls[s].op /\ c.version = calls[s].version
      /\ c.graph = calls[s].graph /\ c.code = code /\ c.row = row
      /\ c.next = "row" /\ ~c.torn
  BY <1>1, <1>2, RowsAreRead DEF CallRecords
<1>4. calls' = [calls EXCEPT ![s] = c]
  BY <1>2 DEF Answer, IInv, TypedCalls
<1>5. CallOK(c)'
  BY <1>1, <1>3 DEF CallOK, AsHeld
<1> QED
  BY <1>3, <1>4, <1>5 DEF Served

(* A statement of a load.  What it has read so far and what is there now   *)
(* were both held, so the mix of the two is one of graphs that were held;  *)
(* and when it differs from what was read, the load is torn.               *)
LEMMA ReadOnServes ==
  ASSUME IInv, NEW s \in Slots, calls[s] # NoCall, calls[s].op = "get",
         calls[s].next \in {"nodes", "edges"},
         NEW next \in {"edges", "done"}, NEW code \in {"none", "OK"},
         NEW read, read = calls[s].row.graph,
         NEW now, now = rows[calls[s].version].graph,
         NEW g, g \in {Mix(read, now, now), Mix(read, read, now)}, ReadOn(s, g, next, code)
  PROVE  UNCHANGED server /\ \E c : Served(s, c)
<1>1. calls[s] \in CallRecords /\ CallOK(calls[s])
  BY DEF IInv, TypedCalls, CallsOK
<1>2. PICK v, H : v = calls[s].version /\ H = held[v]
  OBVIOUS
<1>3. /\ v \in Versions /\ calls[s].row \in ReadRows /\ calls[s].row.id = v
      /\ rows[v] # NoRow /\ AsHeld(read, v, calls[s].torn)
  BY <1>1, <1>2 DEF CallOK, CallRecords
<1>4. now \in H /\ H \subseteq Graphs
  BY <1>2, <1>3 DEF IInv, Stored, TypedServer
<1>5. PICK a \in H, b \in H, k \in H : read = Mix(a, b, k)
  <2>1. CASE read \in H
    BY <1>4, <2>1, GraphIsMix
  <2>2. CASE read \notin H
    BY <1>2, <1>3, <2>2 DEF AsHeld
  <2> QED
    BY <2>1, <2>2
<1>6. \E x, y, z \in H : g = Mix(x, y, z)
  BY <1>4, <1>5, MixOfMix
<1>7. g \in Mixes
  BY <1>4, <1>6 DEF Mixes
<1>8. PICK torn \in BOOLEAN : torn <=> calls[s].torn \/ g # read
  OBVIOUS
<1>9. PICK c : c = [calls[s] EXCEPT !.row.graph = g, !.next = next, !.code = code,
                                    !.torn = @ \/ g # calls[s].row.graph]
  OBVIOUS
<1>10. PICK row : row = [calls[s].row EXCEPT !.graph = g]
  OBVIOUS
<1>11. row \in ReadRows /\ row # NoRow /\ row.id = v /\ row.graph = g
  BY <1>3, <1>7, <1>10 DEF ReadRows, NoRow
<1>12. c = [calls[s] EXCEPT !.row = row, !.next = next, !.code = code,
                            !.torn = calls[s].torn \/ g # read]
  BY <1>1, <1>9, <1>10 DEF CallRecords
<1>13. /\ c \in CallRecords /\ c.op = "get" /\ c.version = v
       /\ c.graph = calls[s].graph /\ c.code = code /\ c.row = row /\ c.next = next
       /\ c.torn = (calls[s].torn \/ g # read)
  <2>1. (calls[s].torn \/ g # read) \in BOOLEAN /\ code \in Codes
    BY DEF Codes
  <2>2. c \in CallRecords
    BY <1>1, <1>11, <1>12, <2>1 DEF CallRecords
  <2>3. /\ c.op = "get" /\ c.version = v /\ c.graph = calls[s].graph /\ c.code = code
        /\ c.row = row /\ c.next = next /\ c.torn = (calls[s].torn \/ g # read)
    BY <1>1, <1>2, <1>12 DEF CallRecords
  <2> QED
    BY <2>2, <2>3
<1>14. UNCHANGED server /\ calls' = [calls EXCEPT ![s] = c]
  BY <1>9 DEF ReadOn, IInv, TypedCalls
<1>15. AsHeld(g, v, c.torn)
  <2>1. CASE c.torn
    BY <1>2, <1>6, <2>1 DEF AsHeld
  <2>2. CASE ~c.torn
    BY <1>3, <1>13, <2>2 DEF AsHeld
  <2> QED
    BY <2>1, <2>2
<1>16. CallOK(c)'
  BY <1>3, <1>11, <1>13, <1>14, <1>15 DEF CallOK, AsHeld, server
<1> QED
  BY <1>13, <1>14, <1>16 DEF Served

(* What Serve does, whatever the call.                                     *)
LEMMA ServeShape ==
  ASSUME IInv, NEW s \in Slots, Serve(s)
  PROVE  TypedServer' /\ Stored' /\ Grows /\ \E c : Served(s, c)
<1> DEFINE c == calls[s]
           r == rows[c.version]
           Good == TypedServer' /\ Stored' /\ Grows /\ \E d : Served(s, d)
<1>1. /\ c # NoCall /\ c \in CallRecords /\ CallOK(c) /\ c.code = "none"
      /\ c.op # "create" => c.version \in Versions
  BY DEF IInv, Serve, TypedCalls, CallsOK, CallOK
<1>2. ASSUME UNCHANGED server PROVE TypedServer' /\ Stored' /\ Grows
  BY <1>2 DEF server, IInv, TypedServer, Stored, Grows
<1>3. ASSUME NEW code \in Codes, code # "OK", Refuse(s, code), c.next = "row", ~c.torn PROVE Good
  BY <1>1, <1>3, <1>2, AnswerServes DEF Refuse
<1>4. ASSUME NEW row \in Rows, row # NoRow, Accept(s, row), c.next = "row", ~c.torn,
             c.op = "put" => row.graph = c.graph
      PROVE  Good
  <2>1. row.id \in Versions /\ Hold(row.id, row) /\ Answer(s, "OK", row)
    BY <1>4 DEF Accept, Rows
  <2>2. TypedServer' /\ Stored' /\ Grows /\ row.graph \in held'[row.id]
    BY <2>1, HoldStores DEF IInv
  <2>3. "OK" \in Codes
    BY DEF Codes
  <2> QED
    BY <1>1, <1>4, <2>1, <2>2, <2>3, AnswerServes
<1>5. c.op # "create" => r \in Rows \cup {NoRow} /\ (r # NoRow => r.id = c.version /\ r.graph \in held[c.version])
  BY <1>1 DEF IInv, TypedServer, Stored
<1>6. c.op # "get" => c.next = "row" /\ ~c.torn
  BY <1>1 DEF CallOK
<1>7. /\ "RESOURCE_NOT_FOUND" \in Codes \ {"OK"} /\ "PLAYBOOK_VERSION_NOT_DRAFT" \in Codes \ {"OK"}
      /\ "INVALID_PLAYBOOK_GRAPH" \in Codes \ {"OK"} /\ "VALIDATION_FAILED" \in Codes \ {"OK"}
      /\ "OK" \in Codes
  BY DEF Codes
<1>8. CASE c.op = "get" /\ ServeGet(s)
  <2>1. CASE c.next = "row" /\ ReadRow(s) /\ r = NoRow
    <3>1. Refuse(s, "RESOURCE_NOT_FOUND") /\ ~c.torn
      BY <1>1, <2>1 DEF ReadRow, CallOK
    <3> QED
      BY <1>3, <1>7, <2>1, <3>1
  <2>2. CASE c.next = "row" /\ ReadRow(s) /\ r # NoRow
    <3>1. calls' = [calls EXCEPT ![s].row = r, ![s].next = "nodes"] /\ UNCHANGED server
      BY <2>2 DEF ReadRow
    <3>2. PICK d : d = [c EXCEPT !.row = r, !.next = "nodes"]
      OBVIOUS
    <3>3. /\ d \in CallRecords /\ d.op = "get" /\ d.version = c.version /\ d.graph = c.graph
          /\ d.code = "none" /\ d.row = r /\ d.next = "nodes"
      BY <1>1, <1>5, <1>8, <2>2, <3>2, RowsAreRead DEF CallRecords
    <3>4. calls' = [calls EXCEPT ![s] = d]
      BY <3>1, <3>2 DEF IInv, TypedCalls
    <3>5. CallOK(d)'
      BY <1>1, <1>5, <1>8, <2>2, <3>1, <3>3 DEF CallOK, AsHeld, server
    <3> QED
      BY <1>8, <1>2, <3>1, <3>3, <3>4, <3>5 DEF Served
  <2>3. CASE c.next = "nodes" /\ ReadOn(s, Mix(c.row.graph, r.graph, r.graph), "edges", "none")
    <3>1. PICK read, now, g : /\ read = c.row.graph /\ now = r.graph
                              /\ g = Mix(read, now, now)
      OBVIOUS
    <3>2. ReadOn(s, g, "edges", "none")
      BY <2>3, <3>1
    <3>3. UNCHANGED server /\ \E d : Served(s, d)
      <4>1. c.op = "get" /\ c.next \in {"nodes", "edges"} /\ read = calls[s].row.graph
            /\ now = rows[calls[s].version].graph /\ calls[s] # NoCall
            /\ g \in {Mix(read, now, now), Mix(read, read, now)}
        BY <1>1, <1>8, <2>3, <3>1
      <4> QED
        BY <3>2, <4>1, ReadOnServes
    <3> QED
      BY <1>2, <3>3
  <2>4. CASE c.next = "edges" /\ ReadOn(s, Mix(c.row.graph, c.row.graph, r.graph), "done", "OK")
    <3>1. PICK read, now, g : /\ read = c.row.graph /\ now = r.graph
                              /\ g = Mix(read, read, now)
      OBVIOUS
    <3>2. ReadOn(s, g, "done", "OK")
      BY <2>4, <3>1
    <3>3. UNCHANGED server /\ \E d : Served(s, d)
      <4>1. c.op = "get" /\ c.next \in {"nodes", "edges"} /\ read = calls[s].row.graph
            /\ now = rows[calls[s].version].graph /\ calls[s] # NoCall
            /\ g \in {Mix(read, now, now), Mix(read, read, now)}
        BY <1>1, <1>8, <2>4, <3>1
      <4> QED
        BY <3>2, <4>1, ReadOnServes
    <3> QED
      BY <1>2, <3>3
  <2> QED
    BY <1>8, <2>1, <2>2, <2>3, <2>4 DEF ServeGet
<1>9. CASE c.op = "put" /\ ServePut(s)
  <2>1. CASE r = NoRow
    BY <1>3, <1>7, <1>6, <1>9, <2>1 DEF ServePut
  <2>2. CASE r # NoRow /\ r.status # "draft"
    BY <1>3, <1>7, <1>6, <1>9, <2>2 DEF ServePut
  <2>3. CASE r # NoRow /\ r.status = "draft"
    <3>1. PICK row : row = [r EXCEPT !.graph = c.graph]
      OBVIOUS
    <3>2. row \in Rows /\ row # NoRow /\ row.graph = c.graph
      BY <1>1, <1>5, <1>9, <2>3, <3>1 DEF Rows, CallRecords, NoRow
    <3>3. Accept(s, row)
      BY <1>9, <2>3, <3>1 DEF ServePut
    <3> QED
      BY <1>4, <1>9, <1>6, <3>2, <3>3
  <2> QED
    BY <2>1, <2>2, <2>3
<1>10. CASE c.op = "publish" /\ ServePublish(s)
  <2>1. CASE r = NoRow
    BY <1>3, <1>7, <1>6, <1>10, <2>1 DEF ServePublish
  <2>2. CASE r # NoRow /\ r.status # "draft"
    BY <1>3, <1>7, <1>6, <1>10, <2>2 DEF ServePublish
  <2>3. CASE r # NoRow /\ r.status = "draft" /\ r.graph \notin FinishedGraphs
    BY <1>3, <1>7, <1>6, <1>10, <2>3 DEF ServePublish
  <2>4. CASE r # NoRow /\ r.status = "draft" /\ r.graph \in FinishedGraphs
    <3>1. PICK row : row = [r EXCEPT !.status = "published"]
      OBVIOUS
    <3>2. row \in Rows /\ row # NoRow
      BY <1>5, <1>10, <2>4, <3>1 DEF Rows, NoRow
    <3>3. Accept(s, row)
      BY <1>10, <2>4, <3>1 DEF ServePublish
    <3> QED
      BY <1>4, <1>6, <1>10, <3>2, <3>3
  <2> QED
    BY <2>1, <2>2, <2>3, <2>4
<1>11. CASE c.op = "clone" /\ ServeClone(s)
  <2>1. CASE r = NoRow
    BY <1>3, <1>7, <1>6, <1>11, <2>1 DEF ServeClone
  <2>2. CASE r # NoRow /\ r.playbook # c.playbook
    BY <1>3, <1>7, <1>6, <1>11, <2>2 DEF ServeClone
  <2>3. CASE r # NoRow /\ r.playbook = c.playbook
    <3>1. PICK v \in Unused : Accept(s, Row(v, c.playbook, r.graph))
      BY <1>11, <2>3 DEF ServeClone
    <3>2. PICK row : row = Row(v, c.playbook, r.graph)
      OBVIOUS
    <3>3. row \in Rows /\ row # NoRow
      BY <1>5, <1>11, <2>3, <3>1, <3>2 DEF Row, Rows, NoRow, Unused
    <3> QED
      BY <1>4, <1>6, <1>11, <3>1, <3>2, <3>3
  <2> QED
    BY <2>1, <2>2, <2>3
<1>12. CASE c.op = "create" /\ ServeCreate(s)
  <2>1. PICK v \in Unused, p \in Playbooks : Accept(s, Row(v, p, c.graph))
    BY <1>12 DEF ServeCreate
  <2>2. PICK row : row = Row(v, p, c.graph)
    OBVIOUS
  <2>3. row \in Rows /\ row # NoRow
    BY <1>1, <2>1, <2>2 DEF Row, Rows, NoRow, Unused, CallRecords
  <2> QED
    BY <1>4, <1>6, <1>12, <2>1, <2>2, <2>3
<1> QED
  BY <1>1, <1>8, <1>9, <1>10, <1>11, <1>12 DEF Serve, CallRecords

(* The server answers a call.                                              *)
LEMMA ServeInv ==
  ASSUME IInv, NEW s \in Slots, Serve(s)
  PROVE  IInv'
<1>1. TypedServer' /\ Stored' /\ Grows
  BY ServeShape
<1>2. PICK c : Served(s, c)
  BY ServeShape
<1>3. /\ c \in CallRecords /\ calls' = [calls EXCEPT ![s] = c] /\ CallOK(c)'
      /\ c.op = calls[s].op /\ c.graph = calls[s].graph
  BY <1>2 DEF Served
<1>4. c # NoCall
  BY <1>3 DEF CallRecords, NoCall
<1>5. TypedCalls'
  BY <1>3 DEF IInv, TypedCalls
<1>6. CallsOK'
  <2> SUFFICES ASSUME NEW t \in Slots, calls'[t] # NoCall PROVE CallOK(calls[t])'
    BY DEF CallsOK
  <2>1. CASE t = s
    <3>1. calls'[t] = c
      BY <1>3, <2>1 DEF IInv, TypedCalls
    <3> QED
      BY <1>3, <3>1 DEF CallOK, AsHeld
  <2>2. CASE t # s
    <3>1. calls'[t] = calls[t] /\ CallOK(calls[t]) /\ calls[t] \in CallRecords
      BY <1>3, <2>2 DEF IInv, TypedCalls, CallsOK
    <3>2. PICK d \in CallRecords : d = calls[t] /\ CallOK(d)
      BY <3>1
    <3>3. CallOK(d)'
      BY <1>1, <3>2, CallStaysOK
    <3> QED
      BY <3>1, <3>2, <3>3 DEF CallOK, AsHeld
  <2> QED
    BY <2>1, <2>2
<1>7. UNCHANGED page
  BY DEF Serve
<1>8. \A t \in {getting, saving, publishing, cloning} \cap Slots :
         calls'[t] # NoCall /\ calls'[t].op = calls[t].op /\ calls'[t].graph = calls[t].graph
  BY <1>3, <1>4, NothingApart DEF IInv, TypedCalls, PageWaits, Waits
<1> QED
  BY <1>1, <1>5, <1>6, <1>7, <1>8, PageUntouched

----------------------------------------------------------------------------
(* The page's steps.                                                       *)

(* A call just made.                                                       *)
Fresh(c) == /\ c \in CallRecords /\ c.code = "none"
            /\ c.next = "row" /\ ~c.torn
            /\ c.op # "create" => c.version \in Versions

(* Calls that are made, taken or given up leave the others as they were.   *)
LEMMA CallsKept ==
  ASSUME IInv, UNCHANGED server, DOMAIN calls' = Slots, calls' = [s \in Slots |-> calls'[s]],
         \A s \in Slots : \/ calls'[s] = calls[s] \/ calls'[s] = NoCall \/ Fresh(calls'[s])
                          \/ calls[s] # NoCall /\ calls'[s] = [calls[s] EXCEPT !.heard = FALSE]
  PROVE  TypedServer' /\ Stored' /\ TypedCalls' /\ CallsOK'
<1>1. TypedServer' /\ Stored'
  BY DEF IInv, TypedServer, Stored, server
<1>2. ASSUME NEW s \in Slots
      PROVE  /\ calls'[s] \in CallRecords \cup {NoCall}
             /\ calls'[s] # NoCall => CallOK(calls[s])'
  <2>1. CASE calls'[s] = calls[s]
    BY <2>1 DEF IInv, TypedCalls, CallsOK, CallOK, AsHeld, server
  <2>2. CASE calls'[s] = NoCall
    BY <2>2
  <2>3. CASE Fresh(calls'[s])
    BY <2>3 DEF Fresh, CallOK
  <2>4. CASE calls[s] # NoCall /\ calls'[s] = [calls[s] EXCEPT !.heard = FALSE]
    <3>1. calls[s] \in CallRecords /\ CallOK(calls[s])
      BY <2>4 DEF IInv, TypedCalls, CallsOK
    <3>2. /\ calls'[s] \in CallRecords /\ calls'[s].op = calls[s].op
          /\ calls'[s].version = calls[s].version /\ calls'[s].code = calls[s].code
          /\ calls'[s].row = calls[s].row /\ calls'[s].graph = calls[s].graph
          /\ calls'[s].next = calls[s].next /\ calls'[s].torn = calls[s].torn
      BY <2>4, <3>1 DEF CallRecords
    <3> QED
      BY <3>1, <3>2 DEF CallOK, AsHeld, server
  <2> QED
    BY <2>1, <2>2, <2>3, <2>4
<1>3. TypedCalls'
  BY <1>2 DEF TypedCalls
<1>4. CallsOK'
  BY <1>2 DEF CallsOK
<1> QED
  BY <1>1, <1>3, <1>4

(* The calls that a page makes.                                            *)
LEMMA CallFresh ==
  ASSUME NEW op \in {"get", "put", "publish", "clone", "create"},
         NEW v \in Versions \cup {NoVersion}, NEW p \in Playbooks \cup {NoPlaybook},
         NEW g \in Graphs, op # "create" => v \in Versions
  PROVE  /\ Fresh(Call(op, v, p, g)) /\ Call(op, v, p, g) # NoCall
         /\ Call(op, v, p, g).op = op /\ Call(op, v, p, g).graph = g
  BY DEF Fresh, Call, CallRecords, Codes, NoCall

LEMMA SaveCallFresh ==
  ASSUME IInv, draft \in Graphs
  PROVE  /\ Fresh(SaveCall) /\ SaveCall # NoCall /\ SaveCall.op \in {"put", "create"}
         /\ SaveCall.graph = draft
         /\ url.version = NoVersion => SaveCall.op = "create"
<1>1. draft \in Graphs /\ url.version \in Versions \cup {NoVersion}
  BY DEF IInv, TypedPage
<1>2. CASE url.version = NoVersion
  <2>1. /\ Fresh(Call("create", NoVersion, NoPlaybook, draft))
        /\ Call("create", NoVersion, NoPlaybook, draft) # NoCall
        /\ Call("create", NoVersion, NoPlaybook, draft).op = "create"
        /\ Call("create", NoVersion, NoPlaybook, draft).graph = draft
    BY <1>1 DEF Fresh, Call, CallRecords, Codes, NoCall
  <2> QED
    BY <1>2, <2>1 DEF SaveCall
<1>3. CASE url.version # NoVersion
  <2>1. /\ Fresh(Call("put", url.version, NoPlaybook, draft))
        /\ Call("put", url.version, NoPlaybook, draft) # NoCall
        /\ Call("put", url.version, NoPlaybook, draft).op = "put"
        /\ Call("put", url.version, NoPlaybook, draft).graph = draft
    BY <1>1, <1>3 DEF Fresh, Call, CallRecords, Codes, NoCall
  <2> QED
    BY <1>3, <2>1 DEF SaveCall
<1> QED
  BY <1>2, <1>3

(* The slots once the load is aborted.                                     *)
LEMMA LoadDropped ==
  ASSUME IInv
  PROVE  /\ WithoutLoad = [s \in Slots |-> WithoutLoad[s]]
         /\ DOMAIN WithoutLoad = Slots
         /\ \A s \in Slots : WithoutLoad[s] = IF s = getting THEN NoCall ELSE calls[s]
  BY NothingApart DEF WithoutLoad, IInv, TypedCalls, TypedPage

(* The page waits for four different calls.                                *)
LEMMA SlotsApart ==
  ASSUME IInv
  PROVE  /\ getting # NoSlot => getting \in Slots /\ getting \notin {saving, publishing, cloning}
         /\ saving # NoSlot => saving \in Slots /\ saving \notin {publishing, cloning}
         /\ publishing # NoSlot => publishing \in Slots /\ publishing # cloning
         /\ cloning # NoSlot => cloning \in Slots
  BY DEF IInv, TypedPage, PageWaits, Waits

LEMMA MountInv ==
  ASSUME IInv, UNCHANGED server, NEW p \in Playbooks, NEW v \in Versions,
         NEW pending, pending = [s \in Slots |-> pending[s]], DOMAIN pending = Slots,
         \A s \in Slots : pending[s] = calls[s] \/ pending[s] = NoCall,
         MountEditor(p, v, pending)
  PROVE  IInv'
<1>1. PICK s \in Slots : /\ pending[s] = NoCall /\ getting' = s
                         /\ calls' = [pending EXCEPT ![s] = Call("get", v, NoPlaybook, EmptyGraph)]
  BY DEF MountEditor
<1>2. PICK c : c = Call("get", v, NoPlaybook, EmptyGraph)
  OBVIOUS
<1>3. Fresh(c) /\ c # NoCall /\ c.op = "get"
  BY <1>2, CallFresh, GraphsTyped
<1>4. /\ calls' = [t \in Slots |-> calls'[t]] /\ DOMAIN calls' = Slots /\ calls'[s] = c
      /\ \A t \in Slots : calls'[t] = calls[t] \/ calls'[t] = NoCall \/ Fresh(calls'[t])
  BY <1>1, <1>2, <1>3
<1>5. TypedServer' /\ Stored' /\ TypedCalls' /\ CallsOK'
  BY <1>4, CallsKept
<1>6. TypedPage'
  BY <1>1, GraphsTyped, GraphIsMix DEF MountEditor, Blank, Route, TypedPage
<1>7. PageWaits' /\ NewPage' /\ SavesDraft' /\ CleanWasStored'
  BY <1>1, <1>3, <1>4, NothingApart
  DEF MountEditor, Blank, Route, PageWaits, Waits, NewPage, SavesDraft, CleanWasStored
<1> QED
  BY <1>5, <1>6, <1>7 DEF IInv

(* Opening a page.                                                         *)
LEMMA OpenInv ==
  ASSUME IInv, (\E p \in Playbooks, v \in Versions : Open(p, v)) \/ OpenNew
  PROVE  IInv'
<1>1. /\ WithoutLoad = [s \in Slots |-> WithoutLoad[s]] /\ DOMAIN WithoutLoad = Slots
      /\ \A s \in Slots : WithoutLoad[s] = calls[s] \/ WithoutLoad[s] = NoCall
  BY LoadDropped
<1>2. CASE \E p \in Playbooks, v \in Versions : Open(p, v)
  BY <1>1, <1>2, MountInv DEF Open
<1>3. CASE OpenNew
  <2>1. TypedServer' /\ Stored' /\ TypedCalls' /\ CallsOK'
    BY <1>1, <1>3, CallsKept DEF OpenNew
  <2>2. TypedPage'
    BY <1>3, GraphsTyped, GraphIsMix DEF OpenNew, Blank, Route, TypedPage
  <2>3. PageWaits' /\ NewPage' /\ SavesDraft' /\ CleanWasStored'
    BY <1>3 DEF OpenNew, Blank, Route, PageWaits, Waits, NewPage, SavesDraft, CleanWasStored
  <2> QED
    BY <2>1, <2>2, <2>3 DEF IInv
<1> QED
  BY <1>2, <1>3

LEMMA CreatedInv ==
  ASSUME IInv, NEW s \in Slots, Created(s)
  PROVE  IInv'
<1>1. calls[s] # NoCall /\ calls[s].code = "OK"
  BY DEF Created, Accepted, Answered
<1>2. calls[s].row.playbook \in Playbooks /\ calls[s].row.id \in Versions
  BY <1>1 DEF IInv, TypedCalls, CallRecords, CallsOK, CallOK, ReadRows
<1>3. PICK pending : pending = [WithoutLoad EXCEPT ![s] = NoCall]
  OBVIOUS
<1>4. /\ pending = [t \in Slots |-> pending[t]] /\ DOMAIN pending = Slots
      /\ \A t \in Slots : pending[t] = calls[t] \/ pending[t] = NoCall
  BY <1>3, LoadDropped
<1>5. MountEditor(calls[s].row.playbook, calls[s].row.id, pending) /\ UNCHANGED server
  BY <1>3 DEF Created
<1> QED
  BY <1>2, <1>4, <1>5, MountInv

(* Steps that leave the calls alone.                                       *)
LEMMA EditInv ==
  ASSUME IInv, NEW d \in Drafts, Edit(d)
  PROVE  IInv'
<1>1. saving = NoSlot /\ UNCHANGED <<server, calls>>
  BY DEF Edit, Locked
<1>2. TypedServer' /\ TypedCalls' /\ Stored' /\ CallsOK'
  BY <1>1 DEF IInv, server, TypedServer, TypedCalls, Stored, CallsOK, CallOK, AsHeld
<1>3. TypedPage' /\ PageWaits' /\ NewPage'
  BY <1>1, GraphIsMix DEF Edit, Drafts, IInv, TypedPage, PageWaits, Waits, NewPage
<1>4. SavesDraft' /\ CleanWasStored'
  BY <1>1 DEF Edit, SavesDraft, CleanWasStored
<1> QED
  BY <1>2, <1>3, <1>4 DEF IInv

(* A click that saves: the save button, and TryNameAgain.                  *)
LEMMA SaveSent ==
  ASSUME IInv, ~Locked, draft \in Graphs, NEW s \in FreeSlots,
         saving' = s, calls' = [calls EXCEPT ![s] = SaveCall],
         UNCHANGED <<server, url, data, failed, getting, seeded, draft, dirty, mixed, publishing, cloning>>
  PROVE  IInv'
<1>1. s \in Slots /\ calls[s] = NoCall
  BY DEF FreeSlots
<1>2. PICK c : c = SaveCall
  OBVIOUS
<1>3. /\ Fresh(c) /\ c # NoCall /\ c.op \in {"put", "create"} /\ c.graph = draft
      /\ url.version = NoVersion => c.op = "create"
  BY <1>2, SaveCallFresh
<1>4. /\ calls' = [t \in Slots |-> calls'[t]] /\ DOMAIN calls' = Slots /\ calls'[s] = c
      /\ \A t \in Slots \ {s} : calls'[t] = calls[t]
  BY <1>1, <1>2 DEF IInv, TypedCalls
<1>5. TypedServer' /\ Stored' /\ TypedCalls' /\ CallsOK'
  BY <1>3, <1>4, CallsKept
<1>6. TypedPage'
  BY <1>1 DEF IInv, TypedPage
<1>7. PageWaits'
  BY <1>1, <1>3, <1>4, SlotsApart DEF IInv, PageWaits, Waits
<1>8. NewPage' /\ SavesDraft' /\ CleanWasStored'
  BY <1>3, <1>4 DEF IInv, NewPage, SavesDraft, CleanWasStored, AsHeld, server
<1> QED
  BY <1>5, <1>6, <1>7, <1>8 DEF IInv

LEMMA SaveInv ==
  ASSUME IInv, Save \/ TryNameAgain
  PROVE  IInv'
<1>1. CASE Save
  BY <1>1, SaveSent DEF Save, form
<1>2. CASE TryNameAgain /\ WillSave
  BY <1>2, SaveSent DEF TryNameAgain, WillSave, form
<1>3. CASE TryNameAgain /\ ~WillSave
  <2>1. UNCHANGED <<server, calls, url, data, failed, getting, seeded, draft, dirty, mixed, saving, publishing, cloning>>
    BY <1>3 DEF TryNameAgain, form
  <2> QED
    BY <2>1 DEF IInv, server, TypedServer, TypedCalls, TypedPage, Stored, CallsOK, CallOK, AsHeld, form,
                PageWaits, Waits, NewPage, SavesDraft, CleanWasStored
<1> QED
  BY <1>1, <1>2, <1>3

(* A failed load is tried again, and the form submitted.                   *)
LEMMA TryAgainInv ==
  ASSUME IInv, TryAgain
  PROVE  IInv'
<1>1. url.version \in Versions
  BY DEF TryAgain, IInv, NewPage, TypedPage
<1>2. PICK s \in FreeSlots :
        /\ Reload(s)
        /\ LET loading == [WithoutLoad EXCEPT ![s] = Call("get", url.version, NoPlaybook, EmptyGraph)]
           IN  IF WillSave
               THEN \E t \in FreeSlots \ {s} : saving' = t /\ calls' = [loading EXCEPT ![t] = SaveCall]
               ELSE calls' = loading /\ UNCHANGED saving
  BY DEF TryAgain
<1>3. s \in Slots /\ calls[s] = NoCall
  BY DEF FreeSlots
<1>4. PICK c : c = Call("get", url.version, NoPlaybook, EmptyGraph)
  OBVIOUS
<1>5. Fresh(c) /\ c # NoCall /\ c.op = "get"
  BY <1>1, <1>4, CallFresh, GraphsTyped
<1>6. PICK loading : loading = [WithoutLoad EXCEPT ![s] = c]
  OBVIOUS
<1>7. /\ loading = [t \in Slots |-> loading[t]] /\ DOMAIN loading = Slots /\ loading[s] = c
      /\ \A t \in Slots \ {s} : loading[t] = IF t = getting THEN NoCall ELSE calls[t]
  <2>1. PICK w : w = WithoutLoad
    OBVIOUS
  <2>2. /\ w = [t \in Slots |-> w[t]] /\ DOMAIN w = Slots
        /\ \A t \in Slots : w[t] = IF t = getting THEN NoCall ELSE calls[t]
    BY <2>1, LoadDropped
  <2>3. loading = [w EXCEPT ![s] = c]
    BY <1>6, <2>1
  <2> QED
    BY <1>3, <2>2, <2>3
<1>8. /\ getting' = s /\ ~failed'
      /\ UNCHANGED <<server, url, data, seeded, draft, dirty, mixed, publishing, cloning>>
  BY <1>2 DEF Reload, form
<1>9. CASE WillSave
  <2>1. PICK t \in FreeSlots \ {s} : saving' = t /\ calls' = [loading EXCEPT ![t] = SaveCall]
    BY <1>2, <1>4, <1>6, <1>9
  <2>2. t \in Slots /\ t # s /\ calls[t] = NoCall
    BY DEF FreeSlots
  <2>3. PICK d : d = SaveCall
    OBVIOUS
  <2>4. /\ Fresh(d) /\ d # NoCall /\ d.op \in {"put", "create"} /\ d.graph = draft
        /\ url.version = NoVersion => d.op = "create"
    BY <1>9, <2>3, SaveCallFresh DEF WillSave
  <2>5. /\ calls' = [u \in Slots |-> calls'[u]] /\ DOMAIN calls' = Slots
        /\ calls'[s] = c /\ calls'[t] = d
        /\ \A u \in Slots \ {s, t} : calls'[u] = IF u = getting THEN NoCall ELSE calls[u]
    BY <1>3, <1>7, <2>1, <2>2, <2>3
  <2>6. TypedServer' /\ Stored' /\ TypedCalls' /\ CallsOK'
    <3>1. \A u \in Slots : calls'[u] = calls[u] \/ calls'[u] = NoCall \/ Fresh(calls'[u])
      BY <1>5, <2>4, <2>5
    <3> QED
      BY <1>8, <2>5, <3>1, CallsKept
  <2>7. TypedPage'
    BY <1>3, <1>8, <2>1, <2>2 DEF IInv, TypedPage
  <2>8. PageWaits'
    BY <1>3, <1>5, <1>8, <2>1, <2>2, <2>4, <2>5, SlotsApart DEF IInv, PageWaits, Waits
  <2>9. NewPage' /\ SavesDraft' /\ CleanWasStored'
    BY <1>1, <1>8, <2>1, <2>4, <2>5, NothingApart DEF IInv, NewPage, SavesDraft, CleanWasStored, AsHeld, server
  <2> QED
    BY <2>6, <2>7, <2>8, <2>9 DEF IInv
<1>10. CASE ~WillSave
  <2>1. calls' = loading /\ UNCHANGED saving
    BY <1>2, <1>4, <1>6, <1>10
  <2>2. TypedServer' /\ Stored' /\ TypedCalls' /\ CallsOK'
    <3>1. \A u \in Slots : calls'[u] = calls[u] \/ calls'[u] = NoCall \/ Fresh(calls'[u])
      BY <1>5, <1>7, <2>1
    <3> QED
      BY <1>7, <1>8, <2>1, <3>1, CallsKept
  <2>3. TypedPage'
    BY <1>3, <1>8, <2>1 DEF IInv, TypedPage
  <2>4. PageWaits'
    BY <1>3, <1>5, <1>7, <1>8, <2>1, SlotsApart DEF IInv, PageWaits, Waits
  <2>5. NewPage' /\ SavesDraft' /\ CleanWasStored'
    BY <1>1, <1>3, <1>7, <1>8, <2>1, NothingApart, SlotsApart
    DEF IInv, NewPage, SavesDraft, CleanWasStored, AsHeld, server, PageWaits, Waits
  <2> QED
    BY <2>2, <2>3, <2>4, <2>5 DEF IInv
<1> QED
  BY <1>9, <1>10

(* The page asks for a publication or a copy.                              *)
LEMMA AskInv ==
  ASSUME IInv, Publish \/ StartNewVersion
  PROVE  IInv'
<1>1. url.version \in Versions
  BY DEF Publish, StartNewVersion, Frozen, IInv, NewPage, TypedPage
<1>2. PICK s \in FreeSlots, op \in {"publish", "clone"}, p \in Playbooks \cup {NoPlaybook} :
        /\ calls' = [calls EXCEPT ![s] = Call(op, url.version, p, EmptyGraph)]
        /\ IF op = "publish" THEN publishing' = s /\ UNCHANGED cloning
                             ELSE cloning' = s /\ UNCHANGED publishing
        /\ UNCHANGED <<server, url, data, failed, getting, seeded, draft, dirty, mixed, saving>>
  BY DEF Publish, StartNewVersion, IInv, TypedPage, form
<1>3. s \in Slots /\ calls[s] = NoCall
  BY DEF FreeSlots
<1>4. PICK c : c = Call(op, url.version, p, EmptyGraph)
  OBVIOUS
<1>5. Fresh(c) /\ c # NoCall /\ c.op = op
  BY <1>1, <1>4, CallFresh, GraphsTyped
<1>6. /\ calls' = [t \in Slots |-> calls'[t]] /\ DOMAIN calls' = Slots /\ calls'[s] = c
      /\ \A t \in Slots \ {s} : calls'[t] = calls[t]
  BY <1>2, <1>3, <1>4 DEF IInv, TypedCalls
<1>7. TypedServer' /\ Stored' /\ TypedCalls' /\ CallsOK'
  BY <1>2, <1>5, <1>6, CallsKept
<1>8. TypedPage'
  BY <1>2, <1>3 DEF IInv, TypedPage
<1>9. PageWaits'
  BY <1>2, <1>3, <1>5, <1>6, SlotsApart DEF IInv, PageWaits, Waits
<1>10. NewPage' /\ SavesDraft' /\ CleanWasStored'
  BY <1>1, <1>2, <1>3, <1>6, NothingApart, SlotsApart
  DEF IInv, NewPage, SavesDraft, CleanWasStored, AsHeld, server, PageWaits, Waits
<1> QED
  BY <1>7, <1>8, <1>9, <1>10 DEF IInv

----------------------------------------------------------------------------
(* The answers.                                                            *)

(* A success that the page takes, with its row.                            *)
LEMMA TakenRow ==
  ASSUME IInv, NEW s \in Slots, NEW op, Accepted(s, op)
  PROVE  /\ calls[s] # NoCall /\ calls[s].op = op
         /\ calls[s].row \in ReadRows /\ calls[s].row.id \in Versions
         /\ calls[s].row.graph \in Mixes /\ calls[s].torn \in BOOLEAN
         /\ AsHeld(calls[s].row.graph, calls[s].row.id, calls[s].torn)
         /\ op = "put" => calls[s].row.graph = calls[s].graph /\ ~calls[s].torn
<1>1. calls[s] # NoCall /\ calls[s].op = op /\ calls[s].code = "OK"
  BY DEF Accepted, Answered
<1>2. calls[s] \in CallRecords /\ CallOK(calls[s])
  BY <1>1 DEF IInv, TypedCalls, CallsOK
<1>3. calls[s].row \in ReadRows /\ calls[s].torn \in BOOLEAN
  BY <1>1, <1>2 DEF CallRecords, CallOK
<1> QED
  BY <1>1, <1>2, <1>3 DEF CallOK, ReadRows

LEMMA TakeKeeps ==
  ASSUME IInv, NEW s \in Slots, Take(s), UNCHANGED server
  PROVE  /\ TypedServer' /\ Stored' /\ TypedCalls' /\ CallsOK'
         /\ \A t \in Slots \ {s} : calls'[t] = calls[t]
<1>1. /\ calls' = [t \in Slots |-> calls'[t]] /\ DOMAIN calls' = Slots /\ calls'[s] = NoCall
      /\ \A t \in Slots \ {s} : calls'[t] = calls[t]
  BY DEF Take, IInv, TypedCalls
<1> QED
  BY <1>1, CallsKept

LEMMA LoadedInv ==
  ASSUME IInv, NEW s \in Slots, Loaded(s)
  PROVE  IInv'
<1>1. Accepted(s, "get") /\ s = getting /\ Take(s) /\ Seed(calls[s]) /\ UNCHANGED server
  BY DEF Loaded
<1>2. PICK row, torn : row = calls[s].row /\ torn = calls[s].torn
  OBVIOUS
<1>3. /\ row \in ReadRows /\ row.id \in Versions /\ row.graph \in Mixes /\ torn \in BOOLEAN
      /\ AsHeld(row.graph, row.id, torn)
  BY <1>1, <1>2, TakenRow
<1>4. /\ TypedServer' /\ Stored' /\ TypedCalls' /\ CallsOK'
      /\ \A t \in Slots \ {s} : calls'[t] = calls[t]
  BY <1>1, TakeKeeps
<1>5. /\ seeded' = row.id
      /\ \/ seeded = row.id /\ UNCHANGED <<draft, dirty, mixed>>
         \/ draft' = row.graph /\ dirty' = FALSE /\ mixed' = torn
  BY <1>1, <1>2 DEF Seed
<1>6. TypedPage'
  BY <1>2, <1>3, <1>5 DEF Loaded, IInv, TypedPage
<1>7. PageWaits'
  BY <1>1, <1>4, SlotsApart, NothingApart DEF Loaded, IInv, PageWaits, Waits
<1>8. NewPage'
  BY <1>1, NothingApart DEF Loaded, IInv, NewPage
<1>9. SavesDraft'
  BY <1>1, <1>4, <1>5, SlotsApart, NothingApart DEF Loaded, IInv, SavesDraft
<1>10. CleanWasStored'
  BY <1>1, <1>3, <1>5, NothingApart DEF IInv, CleanWasStored, AsHeld, server
<1> QED
  BY <1>4, <1>6, <1>7, <1>8, <1>9, <1>10 DEF IInv

LEMMA SaveLandedInv ==
  ASSUME IInv, NEW s \in Slots, SaveLanded(s)
  PROVE  IInv'
<1>1. Accepted(s, "put") /\ s = saving /\ Take(s) /\ UNCHANGED server
  BY DEF SaveLanded
<1>2. PICK row : row = calls[s].row
  OBVIOUS
<1>3. /\ row \in ReadRows /\ row.id \in Versions /\ row.graph \in Mixes
      /\ row.graph \in held[row.id] /\ calls[s].op = "put"
  BY <1>1, <1>2, TakenRow DEF AsHeld
<1>4. /\ TypedServer' /\ Stored' /\ TypedCalls' /\ CallsOK'
      /\ \A t \in Slots \ {s} : calls'[t] = calls[t]
  BY <1>1, TakeKeeps
<1>5. seeded' = row.id /\ draft' = row.graph /\ dirty' = FALSE /\ mixed' = FALSE /\ data' = row /\ saving' = NoSlot
  BY <1>2 DEF SaveLanded
<1>6. TypedPage'
  BY <1>3, <1>5 DEF SaveLanded, IInv, TypedPage
<1>7. PageWaits'
  BY <1>1, <1>4, <1>5, SlotsApart, NothingApart DEF SaveLanded, IInv, PageWaits, Waits
<1>8. NewPage'
  BY <1>1, <1>3, NothingApart DEF SaveLanded, IInv, NewPage
<1>9. SavesDraft' /\ CleanWasStored'
  BY <1>1, <1>3, <1>5 DEF SavesDraft, CleanWasStored, AsHeld, server
<1> QED
  BY <1>4, <1>6, <1>7, <1>8, <1>9 DEF IInv

LEMMA PublishLandedInv ==
  ASSUME IInv, NEW s \in Slots, PublishLanded(s)
  PROVE  IInv'
<1>1. Accepted(s, "publish") /\ s = publishing /\ Take(s) /\ Seed(calls[s]) /\ UNCHANGED server
  BY DEF PublishLanded
<1>2. PICK row, torn : row = calls[s].row /\ torn = calls[s].torn
  OBVIOUS
<1>3. /\ row \in ReadRows /\ row.id \in Versions /\ row.graph \in Mixes /\ torn \in BOOLEAN
      /\ AsHeld(row.graph, row.id, torn)
  BY <1>1, <1>2, TakenRow
<1>4. /\ TypedServer' /\ Stored' /\ TypedCalls' /\ CallsOK'
      /\ \A t \in Slots \ {s} : calls'[t] = calls[t]
  BY <1>1, TakeKeeps
<1>5. /\ seeded' = row.id
      /\ \/ seeded = row.id /\ UNCHANGED <<draft, dirty, mixed>>
         \/ draft' = row.graph /\ dirty' = FALSE /\ mixed' = torn
  BY <1>1, <1>2 DEF Seed
<1>6. TypedPage'
  BY <1>2, <1>3, <1>5 DEF PublishLanded, IInv, TypedPage
<1>7. PageWaits'
  BY <1>1, <1>4, SlotsApart, NothingApart DEF PublishLanded, IInv, PageWaits, Waits
<1>8. NewPage'
  BY <1>1, NothingApart DEF PublishLanded, IInv, NewPage
<1>9. SavesDraft'
  BY <1>1, <1>4, <1>5, SlotsApart, NothingApart DEF PublishLanded, IInv, SavesDraft
<1>10. CleanWasStored'
  BY <1>1, <1>3, <1>5, NothingApart DEF IInv, CleanWasStored, AsHeld, server
<1> QED
  BY <1>4, <1>6, <1>7, <1>8, <1>9, <1>10 DEF IInv

(* The load fails: its call is dropped.                                    *)
LEMMA LoadFailedInv ==
  ASSUME IInv, LoadFailed
  PROVE  IInv'
<1>1. /\ getting \in Slots /\ getting' = NoSlot /\ UNCHANGED server
      /\ UNCHANGED <<url, data, seeded, draft, dirty, mixed, saving, publishing, cloning>>
  BY DEF LoadFailed, IInv, TypedPage, form
<1>2. Take(getting)
  BY DEF LoadFailed, WithoutLoad, Take
<1>3. /\ TypedServer' /\ Stored' /\ TypedCalls' /\ CallsOK'
      /\ \A t \in Slots \ {getting} : calls'[t] = calls[t]
  BY <1>1, <1>2, TakeKeeps
<1>4. TypedPage'
  BY <1>1 DEF IInv, TypedPage
<1>5. PageWaits'
  BY <1>1, <1>3, SlotsApart DEF IInv, PageWaits, Waits
<1>6. NewPage' /\ SavesDraft' /\ CleanWasStored'
  BY <1>1, <1>3, SlotsApart, NothingApart DEF IInv, NewPage, SavesDraft, CleanWasStored, AsHeld, server
<1> QED
  BY <1>3, <1>4, <1>5, <1>6 DEF IInv

(* A call is given up: it is dropped, or goes on unheard.                  *)
LEMMA GiveUpKeeps ==
  ASSUME IInv, NEW s \in Slots, calls[s] # NoCall, GiveUp(s), UNCHANGED server
  PROVE  /\ TypedServer' /\ Stored' /\ TypedCalls' /\ CallsOK'
         /\ \A t \in Slots \ {s} : calls'[t] = calls[t]
<1>1. /\ calls' = [t \in Slots |-> calls'[t]] /\ DOMAIN calls' = Slots
      /\ calls'[s] = NoCall \/ calls'[s] = [calls[s] EXCEPT !.heard = FALSE]
      /\ \A t \in Slots \ {s} : calls'[t] = calls[t]
  BY DEF GiveUp, IInv, TypedCalls
<1> QED
  BY <1>1, CallsKept

LEMMA FailedInv ==
  ASSUME IInv, SaveFailed \/ PublishFailed \/ CloneFailed
  PROVE  IInv'
<1>1. UNCHANGED <<server, url, data, failed, getting, seeded, draft, dirty, mixed>>
  BY DEF SaveFailed, PublishFailed, CloneFailed, form
<1>2. PICK s \in Slots :
        /\ s \in {saving, publishing, cloning} /\ GiveUp(s)
        /\ saving' = IF s = saving THEN NoSlot ELSE saving
        /\ publishing' = IF s = publishing THEN NoSlot ELSE publishing
        /\ cloning' = IF s = cloning THEN NoSlot ELSE cloning
  BY SlotsApart DEF SaveFailed, PublishFailed, CloneFailed
<1>3. calls[s] # NoCall /\ s # getting
  BY <1>2, SlotsApart, NothingApart DEF IInv, PageWaits, Waits
<1>4. /\ TypedServer' /\ Stored' /\ TypedCalls' /\ CallsOK'
      /\ \A t \in Slots \ {s} : calls'[t] = calls[t]
  BY <1>1, <1>2, <1>3, GiveUpKeeps
<1>5. TypedPage'
  BY <1>1, <1>2 DEF IInv, TypedPage
<1>6. PageWaits'
  BY <1>1, <1>2, <1>3, <1>4, SlotsApart DEF IInv, PageWaits, Waits
<1>7. NewPage' /\ SavesDraft' /\ CleanWasStored'
  BY <1>1, <1>2, <1>4, SlotsApart DEF IInv, NewPage, SavesDraft, CleanWasStored, AsHeld, server
<1> QED
  BY <1>4, <1>5, <1>6, <1>7 DEF IInv

(* A call that nobody waits for dies.                                      *)
LEMMA VanishInv ==
  ASSUME IInv, NEW s \in Slots, Vanish(s)
  PROVE  IInv'
<1>1. Take(s) /\ UNCHANGED server /\ UNCHANGED page /\ s \notin {getting, saving, publishing, cloning}
  BY DEF Vanish, Take
<1>2. /\ TypedServer' /\ Stored' /\ TypedCalls' /\ CallsOK'
      /\ \A t \in Slots \ {s} : calls'[t] = calls[t]
  BY <1>1, TakeKeeps
<1>3. \A t \in {getting, saving, publishing, cloning} \cap Slots :
        calls'[t] # NoCall /\ calls'[t].op = calls[t].op /\ calls'[t].graph = calls[t].graph
  BY <1>1, <1>2, NothingApart DEF IInv, PageWaits, Waits
<1> QED
  BY <1>1, <1>2, <1>3, PageUntouched DEF server, Grows

(* Another designer's step.                                                *)
LEMMA OtherInv ==
  ASSUME IInv, NEW v \in Versions, (\E g \in Graphs : OtherSaves(v, g)) \/ OtherPublishes(v)
  PROVE  IInv'
<1>1. UNCHANGED <<calls, page>> /\ rows[v] # NoRow
  BY DEF OtherSaves, OtherPublishes
<1>2. rows[v] \in Rows /\ rows[v].id = v
  BY <1>1 DEF IInv, TypedServer, Stored
<1>3. PICK row : row \in Rows /\ row.id = v /\ Hold(v, row)
  <2>1. CASE \E g \in Graphs : OtherSaves(v, g)
    <3>1. PICK g \in Graphs : Hold(v, [rows[v] EXCEPT !.graph = g])
      BY <2>1 DEF OtherSaves
    <3>2. [rows[v] EXCEPT !.graph = g] \in Rows /\ [rows[v] EXCEPT !.graph = g].id = v
      BY <1>2 DEF Rows
    <3> QED
      BY <3>1, <3>2
  <2>2. CASE OtherPublishes(v)
    <3>1. Hold(v, [rows[v] EXCEPT !.status = "published"])
      BY <2>2 DEF OtherPublishes
    <3>2. [rows[v] EXCEPT !.status = "published"] \in Rows /\ [rows[v] EXCEPT !.status = "published"].id = v
      BY <1>2 DEF Rows
    <3> QED
      BY <3>1, <3>2
  <2> QED
    BY <2>1, <2>2
<1>4. TypedServer' /\ Stored' /\ Grows
  BY <1>3, HoldStores DEF IInv
<1>5. TypedCalls' /\ CallsOK'
  <2>1. TypedCalls'
    BY <1>1 DEF IInv, TypedCalls
  <2>2. ASSUME NEW s \in Slots, calls'[s] # NoCall PROVE CallOK(calls[s])'
    <3>1. PICK c \in CallRecords : c = calls[s] /\ c = calls'[s] /\ CallOK(c)
      BY <1>1, <2>2 DEF IInv, TypedCalls, CallsOK
    <3>2. CallOK(c)'
      BY <1>4, <3>1, CallStaysOK
    <3> QED
      BY <3>1, <3>2 DEF CallOK, AsHeld
  <2> QED
    BY <2>1, <2>2 DEF CallsOK
<1>6. \A t \in {getting, saving, publishing, cloning} \cap Slots :
        calls'[t] # NoCall /\ calls'[t].op = calls[t].op /\ calls'[t].graph = calls[t].graph
  BY <1>1, NothingApart DEF IInv, PageWaits, Waits
<1> QED
  BY <1>1, <1>4, <1>5, <1>6, PageUntouched

----------------------------------------------------------------------------
(* The theorems.                                                           *)

LEMMA NextInv == IInv /\ [Next]_vars => IInv'
<1> SUFFICES ASSUME IInv, [Next]_vars PROVE IInv'
  OBVIOUS
<1>1. CASE UNCHANGED vars
  BY <1>1 DEF vars, page, form, server, IInv, TypedServer, TypedCalls, TypedPage, Stored, CallsOK,
              CallOK, AsHeld, PageWaits, Waits, NewPage, SavesDraft, CleanWasStored
<1>2. CASE Next
  BY <1>2, OtherInv, ServeInv, VanishInv, OpenInv, EditInv, SaveInv, TryAgainInv, AskInv,
     LoadedInv, SaveLandedInv, PublishLandedInv, CreatedInv, LoadFailedInv, FailedInv DEF Next
<1> QED
  BY <1>1, <1>2

LEMMA SpecInv == Spec => []IInv
  BY InitInv, NextInv, PTL DEF Spec

(* For any versions, graphs and calls in flight, a form without unsaved    *)
(* edits shows what its version has really held, or else the result of a   *)
(* load that others saved into, each part of which the version has held:   *)
(* save, the seeding effect and the answers to publications call nothing   *)
(* saved that is not stored.                                               *)
THEOREM EditorCleanWasStored == Spec => []CleanWasStored
<1>1. IInv => CleanWasStored
  BY DEF IInv
<1> QED
  BY <1>1, SpecInv, PTL

(* No answer takes an unsaved edit away from a form that holds a version,  *)
(* in whatever order the answers to loads, saves and publications come in. *)
THEOREM EditorEditsSurvive == Spec => EditsSurvive
<1> DEFINE A == dirty /\ seeded # NoVersion /\ seeded' = seeded /\ calls' # calls => draft' = draft
<1>1. IInv /\ [Next]_vars => [A]_vars
  <2> SUFFICES ASSUME IInv, Next, dirty, seeded # NoVersion, seeded' = seeded, calls' # calls
               PROVE  draft' = draft
    BY DEF vars
  <2>1. CASE \E s \in Slots : SaveLanded(s)
    <3>1. PICK s \in Slots : SaveLanded(s)
      BY <2>1
    <3>2. Accepted(s, "put") /\ s = saving /\ draft' = calls[s].row.graph
      BY <3>1 DEF SaveLanded
    <3>3. calls[s].op = "put" /\ calls[s].row.graph = calls[s].graph
      BY <3>2, TakenRow
    <3> QED
      BY <3>2, <3>3, NothingApart DEF IInv, SavesDraft
  <2>2. CASE \E s \in Slots : Loaded(s) \/ PublishLanded(s)
    BY <2>2 DEF Loaded, PublishLanded, Seed
  <2>3. CASE (\E s \in Slots : Created(s)) \/ (\E p \in Playbooks, v \in Versions : Open(p, v)) \/ OpenNew
    <3>1. seeded' = NoVersion
      BY <2>3 DEF Created, Open, OpenNew, MountEditor, Blank
    <3> QED
      BY <3>1
  <2>4. CASE \E d \in Drafts : Edit(d)
    BY <2>4 DEF Edit
  <2>5. CASE \/ \E v \in Versions, g \in Graphs : OtherSaves(v, g)
             \/ \E v \in Versions : OtherPublishes(v)
             \/ \E s \in Slots : Serve(s) \/ Vanish(s)
    BY <2>5 DEF OtherSaves, OtherPublishes, Serve, Vanish, page, form
  <2>6. CASE Save \/ TryAgain \/ TryNameAgain \/ Publish \/ StartNewVersion
    BY <2>6 DEF Save, TryAgain, Reload, TryNameAgain, Publish, StartNewVersion, form
  <2>7. CASE LoadFailed \/ SaveFailed \/ PublishFailed \/ CloneFailed
    BY <2>7 DEF LoadFailed, SaveFailed, PublishFailed, CloneFailed, form
  <2> QED
    BY <2>1, <2>2, <2>3, <2>4, <2>5, <2>6, <2>7 DEF Next
<1>2. Spec => [][A]_vars
  BY <1>1, SpecInv, PTL DEF Spec
<1> QED
  BY <1>2 DEF A, EditsSurvive

=============================================================================
