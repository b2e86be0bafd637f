--------------------------- MODULE PlaybookStore ---------------------------
(***************************************************************************)
(* Playbook versions and their graphs: the transactions of                 *)
(* internal/repository/postgres/playbook.go, one SQL statement per step    *)
(* wherever another transaction can see or block the difference.           *)
(*                                                                         *)
(* Transactions run at READ COMMITTED: every statement reads what is       *)
(* committed when it starts, and a transaction's own writes become visible *)
(* at its commit.  Row locks are PostgreSQL's, held to the end of the      *)
(* transaction, and so are the primary keys of rows inserted or deleted.   *)
(* A graph is written row by row: its ids come from clients, so that two   *)
(* requests may want the same ones.                                        *)
(*                                                                         *)
(* Service.Start reads here too, without a transaction, and inserts the    *)
(* investigation that InvestigationEngine then runs.                       *)
(***************************************************************************)
EXTENDS PlaybookGraph, FiniteSetsExt

CONSTANTS Clients,          \* concurrent requests
          Playbooks,        \* playbook ids
          Versions,         \* version ids; bounds how many are ever created
          InputGraphs,      \* graphs a request may carry
          Incoherent,       \* input that validateGraphInput refuses
          TypeOf,           \* playbook -> the alert type it is written for
          AlertTypes,       \* types of the alerts investigations are started for
          NoAlert,          \* an alert id that names none
          NoRow             \* no row of the request is left to be inserted

(* uuid.New returns no id that a client supplies: see CloneId.             *)
ASSUME CloneIdsApart ==
  \A g \in InputGraphs : \A x \in NodeIDs(g) \cup EdgeIDs(g) : x[1] \notin Versions

VARIABLES playbooks,  \* table playbooks: the ids present
          versions,   \* table playbook_versions: id -> row or NoVersion
          nodes,      \* table playbook_nodes, by version
          edges,      \* table playbook_edges, by version
          vlock,      \* row locks on playbook_versions: version -> client -> mode
          plock,      \* row locks on playbooks: playbook -> client -> mode
          pc,         \* the statement a request is at
          want,       \* the request in flight
          def,        \* the definition read so far, and the row of table
                      \* investigations a start has inserted
          pend,       \* rows written and not yet committed
          answer      \* the response's code

table == <<playbooks, versions, nodes, edges>>
locks == <<vlock, plock>>
vars == <<table, locks, pc, want, def, pend, answer>>

(* Nothing there.                                                          *)
NoVersion == [status |-> "none"]
NoInvestigation == [status |-> "none"]
NoWrite == [row |-> NoVersion]
NoRequest == [op |-> "none"]

NoRows == [x \in {} |-> x]
EmptyGraph == [root |-> NoNode, nodes |-> NoRows, edges |-> NoRows]
NoDefinition ==
  [row |-> NoVersion, nodes |-> NoRows, edges |-> NoRows, started |-> NoInvestigation]

GraphAt(v) == [root |-> versions[v].root, nodes |-> nodes[v], edges |-> edges[v]]

(* The graph a loadDefinition has put together.                            *)
GraphRead(c) == [root |-> def[c].row.root, nodes |-> def[c].nodes, edges |-> def[c].edges]

----------------------------------------------------------------------------
(* The order of a request's statements.  A clone locks and reads its       *)
(* source version before it locks the playbook: the order every other      *)
(* write path takes its locks in.                                          *)

(* Mutant: a clone locks the playbook first.                               *)
AfterPlaybookFirst ==
  [get     |-> [begin |-> "row", row |-> "nodes", nodes |-> "edges", edges |-> "answered"],
   start   |-> [begin |-> "row", row |-> "nodes", nodes |-> "edges", edges |-> "start"],
   create  |-> [begin |-> "create", root |-> "commit"],
   draft   |-> [begin |-> "lockPlaybook", lockPlaybook |-> "insert", insert |-> "commit"],
   clone   |-> [begin |-> "lockPlaybook", lockPlaybook |-> "lockSource",
                lockSource |-> "row", row |-> "nodes", nodes |-> "edges",
                edges |-> "insert", insert |-> "commit"],
   replace |-> [begin |-> "lockVersion", lockVersion |-> "clear", root |-> "commit"],
   publish |-> [begin |-> "lockVersion", lockVersion |-> "nodes", nodes |-> "edges",
                edges |-> "flip", flip |-> "commit"]]

After ==
  [get     |-> [begin |-> "row", row |-> "nodes", nodes |-> "edges", edges |-> "answered"],
   start   |-> [begin |-> "row", row |-> "nodes", nodes |-> "edges", edges |-> "start"],
   create  |-> [begin |-> "create", root |-> "commit"],
   draft   |-> [begin |-> "lockPlaybook", lockPlaybook |-> "insert", insert |-> "commit"],
   clone   |-> [begin |-> "lockSource", lockSource |-> "row", row |-> "nodes",
                nodes |-> "edges", edges |-> "lockPlaybook",
                lockPlaybook |-> "insert", insert |-> "commit"],
   replace |-> [begin |-> "lockVersion", lockVersion |-> "clear", root |-> "commit"],
   publish |-> [begin |-> "lockVersion", lockVersion |-> "nodes", nodes |-> "edges",
                edges |-> "flip", flip |-> "commit"]]

Request ==
  [op : {"get", "publish"}, version : Versions]
  \cup [op : {"create"}, graph : InputGraphs \cup {Incoherent}]
  \cup [op : {"draft"}, playbook : Playbooks]
  \cup [op : {"clone"}, playbook : Playbooks, version : Versions]
  \cup [op : {"replace"}, version : Versions, graph : InputGraphs \cup {Incoherent}]
  \cup [op : {"start"}, alert : AlertTypes, version : Versions]

CreatesVersion == {"create", "draft", "clone"}

(* Row-lock modes: FOR UPDATE conflicts with every mode, the shared modes  *)
(* only with FOR UPDATE.                                                   *)
Conflict(m, n) == m # "none" /\ n # "none" /\ (m = "update" \/ n = "update")

Grantable(holders, c, mode) == \A d \in Clients \ {c} : ~Conflict(mode, holders[d])

(* Constraints of the tables: a resolution exactly on terminal nodes, and  *)
(* foreign keys that keep edges and the root within the version.           *)
NodeStorable(g, n) == g.nodes[n].kind = KindTerminal <=> g.nodes[n].resolution # NoResolution

EdgeStorable(g, e) == ~Dangling(g, e)

RootStorable(g) == g.root = NoNode \/ g.root \in NodeIDs(g)

(* The primary keys.  Committed rows of another version hold theirs, and   *)
(* an open transaction holds those it has inserted and, if it replaces a   *)
(* graph, those it has deleted.                                            *)
NodesHeld(d) ==
  IF pend[d] = NoWrite THEN {} ELSE NodeIDs(pend[d].graph) \cup DOMAIN nodes[pend[d].version]

EdgesHeld(d) ==
  IF pend[d] = NoWrite THEN {} ELSE EdgeIDs(pend[d].graph) \cup DOMAIN edges[pend[d].version]

NodeTaken(n, v) == \E w \in Versions \ {v} : n \in DOMAIN nodes[w]

EdgeTaken(e, v) == \E w \in Versions \ {v} : e \in DOMAIN edges[w]

IdTaken(g, v) == (\E n \in NodeIDs(g) : NodeTaken(n, v)) \/ (\E e \in EdgeIDs(g) : EdgeTaken(e, v))

(* cloneGraph: ids made anew for the version v, every reference remapped.  *)
CloneId(v, x) == <<v, x>>

(* Mutant: the source's ids are kept.                                      *)
CloneGraphKeepingIds(g, v) == g

CloneGraph(g, v) ==
  [root  |-> IF g.root \in NodeIDs(g) THEN CloneId(v, g.root) ELSE NoNode,
   nodes |-> [n \in {CloneId(v, m) : m \in NodeIDs(g)} |-> g.nodes[n[2]]],
   edges |-> [e \in {CloneId(v, f) : f \in EdgeIDs(g)} |->
                [from |-> CloneId(v, g.edges[e[2]].from), to |-> CloneId(v, g.edges[e[2]].to)]]]

FreeVersions == {v \in Versions : versions[v] = NoVersion
                                  /\ \A c \in Clients : pend[c] # NoWrite => pend[c].version # v}

FreePlaybooks == {p \in Playbooks \ playbooks :
                    \A c \in Clients : pend[c] # NoWrite => pend[c].row.playbook # p}

VersionsOf(p) == {v \in Versions : versions[v] # NoVersion /\ versions[v].playbook = p}

NextVersionNumber(p) == Max({versions[v].number : v \in VersionsOf(p)} \cup {0}) + 1

----------------------------------------------------------------------------
Init ==
  /\ playbooks = {}
  /\ versions = [v \in Versions |-> NoVersion]
  /\ nodes = [v \in Versions |-> NoRows]
  /\ edges = [v \in Versions |-> NoRows]
  /\ vlock = [v \in Versions |-> [c \in Clients |-> "none"]]
  /\ plock = [p \in Playbooks |-> [c \in Clients |-> "none"]]
  /\ pc = [c \in Clients |-> "idle"]
  /\ want = [c \in Clients |-> NoRequest]
  /\ def = [c \in Clients |-> NoDefinition]
  /\ pend = [c \in Clients |-> NoWrite]
  /\ answer = [c \in Clients |-> "none"]

Goto(c, label) == pc' = [pc EXCEPT ![c] = label]

Proceed(c) == Goto(c, After[want[c].op][pc[c]])

Answer(c, code) == Goto(c, "answered") /\ answer' = [answer EXCEPT ![c] = code]

(* Mutant: the transaction is never closed.                                *)
EndTransactionKeepingLocks(c) ==
  /\ pend' = [pend EXCEPT ![c] = NoWrite]
  /\ UNCHANGED locks

EndTransaction(c) ==
  /\ vlock' = [v \in Versions |-> [vlock[v] EXCEPT ![c] = "none"]]
  /\ plock' = [p \in Playbooks |-> [plock[p] EXCEPT ![c] = "none"]]
  /\ pend' = [pend EXCEPT ![c] = NoWrite]

Rollback(c, code) ==
  /\ Answer(c, code)
  /\ EndTransaction(c)
  /\ UNCHANGED <<table, want, def>>

Creating == {c \in Clients : pc[c] \notin {"idle", "answered"} /\ want[c].op \in CreatesVersion}

(* The bound of the model: ids for every creation in flight and one more.  *)
Room(op) ==
  /\ op \in CreatesVersion => Cardinality(FreeVersions) > Cardinality(Creating)
  /\ op = "create" => Cardinality(FreePlaybooks) > Cardinality(Creating)

Refused(r) == r.op \in {"create", "replace"} /\ r.graph = Incoherent

(* Start reads the alert first; an alert is never changed.                 *)
AlertNotFound(r) == r.op = "start" /\ r.alert = NoAlert

(* The service checks the input before it touches the database.            *)
Submit(c, r) ==
  /\ pc[c] = "idle" /\ Room(r.op)
  /\ want' = [want EXCEPT ![c] = r]
  /\ IF Refused(r) THEN Answer(c, "VALIDATION_FAILED")
     ELSE IF AlertNotFound(r) THEN Answer(c, "RESOURCE_NOT_FOUND")
     ELSE Goto(c, After[r.op].begin) /\ UNCHANGED answer
  /\ UNCHANGED <<table, locks, def, pend>>

----------------------------------------------------------------------------
(* Locking and reading statements.                                         *)

(* Mutant: FOR SHARE instead of FOR UPDATE.                                *)
LockVersionShared(c) ==
  LET v == want[c].version
  IN  /\ pc[c] = "lockVersion" /\ versions[v] # NoVersion
      /\ Grantable(vlock[v], c, "share")
      /\ IF versions[v].status = "draft"
         THEN /\ vlock' = [vlock EXCEPT ![v][c] = "share"]
              /\ def' = [def EXCEPT ![c].row = versions[v]]
              /\ Proceed(c)
              /\ UNCHANGED <<table, plock, want, pend, answer>>
         ELSE Rollback(c, "PLAYBOOK_VERSION_NOT_DRAFT")

(* Mutant: the draft check is missing.                                     *)
LockVersionOfAnyStatus(c) ==
  LET v == want[c].version
  IN  /\ pc[c] = "lockVersion" /\ versions[v] # NoVersion
      /\ Grantable(vlock[v], c, "update")
      /\ vlock' = [vlock EXCEPT ![v][c] = "update"]
      /\ def' = [def EXCEPT ![c].row = versions[v]]
      /\ Proceed(c)
      /\ UNCHANGED <<table, plock, want, pend, answer>>

(* lockVersion, FOR UPDATE, and the draft check of its two callers.        *)
LockVersion(c) ==
  LET v == want[c].version
  IN  /\ pc[c] = "lockVersion" /\ versions[v] # NoVersion
      /\ Grantable(vlock[v], c, "update")
      /\ IF versions[v].status = "draft"
         THEN /\ vlock' = [vlock EXCEPT ![v][c] = "update"]
              /\ def' = [def EXCEPT ![c].row = versions[v]]
              /\ Proceed(c)
              /\ UNCHANGED <<table, plock, want, pend, answer>>
         ELSE Rollback(c, "PLAYBOOK_VERSION_NOT_DRAFT")

(* Mutant: the source of a clone is not locked.                            *)
ReadSourceUnlocked(c) ==
  /\ pc[c] = "lockSource" /\ versions[want[c].version] # NoVersion
  /\ Proceed(c)
  /\ UNCHANGED <<table, locks, want, def, pend, answer>>

(* lockVersionShared, FOR SHARE, on the source of a clone.                 *)
LockSource(c) ==
  LET v == want[c].version
  IN  /\ pc[c] = "lockSource" /\ versions[v] # NoVersion
      /\ Grantable(vlock[v], c, "share")
      /\ vlock' = [vlock EXCEPT ![v][c] = "share"]
      /\ Proceed(c)
      /\ UNCHANGED <<table, plock, want, def, pend, answer>>

VersionNotFound(c) ==
  /\ pc[c] \in {"lockVersion", "lockSource", "row"}
  /\ versions[want[c].version] = NoVersion
  /\ Rollback(c, "RESOURCE_NOT_FOUND")

(* loadDefinition and loadGraph: three statements.                         *)
LoadVersion(c) ==
  /\ pc[c] = "row" /\ versions[want[c].version] # NoVersion
  /\ def' = [def EXCEPT ![c].row = versions[want[c].version]]
  /\ Proceed(c)
  /\ UNCHANGED <<table, locks, want, pend, answer>>

LoadNodes(c) ==
  /\ pc[c] = "nodes"
  /\ def' = [def EXCEPT ![c].nodes = nodes[want[c].version]]
  /\ Proceed(c)
  /\ UNCHANGED <<table, locks, want, pend, answer>>

(* Mutant: the version row is read last.                                   *)
LoadEdgesThenVersion(c) ==
  /\ pc[c] = "edges"
  /\ def' = [def EXCEPT ![c].edges = edges[want[c].version], ![c].row = versions[want[c].version]]
  /\ Proceed(c)
  /\ answer' = [answer EXCEPT ![c] = IF want[c].op = "get" THEN "OK" ELSE @]
  /\ UNCHANGED <<table, locks, want, pend>>

LoadEdges(c) ==
  /\ pc[c] = "edges"
  /\ def' = [def EXCEPT ![c].edges = edges[want[c].version]]
  /\ Proceed(c)
  /\ answer' = [answer EXCEPT ![c] = IF want[c].op = "get" THEN "OK" ELSE @]
  /\ UNCHANGED <<table, locks, want, pend>>

(* Mutant: the playbook is not locked.                                     *)
ReadPlaybookUnlocked(c) ==
  /\ pc[c] = "lockPlaybook" /\ want[c].playbook \in playbooks
  /\ Proceed(c)
  /\ UNCHANGED <<table, locks, want, def, pend, answer>>

(* The parent playbook, FOR UPDATE.                                        *)
LockPlaybook(c) ==
  LET p == want[c].playbook
  IN  /\ pc[c] = "lockPlaybook" /\ p \in playbooks
      /\ Grantable(plock[p], c, "update")
      /\ plock' = [plock EXCEPT ![p][c] = "update"]
      /\ Proceed(c)
      /\ UNCHANGED <<table, vlock, want, def, pend, answer>>

PlaybookNotFound(c) ==
  /\ pc[c] = "lockPlaybook" /\ want[c].playbook \notin playbooks
  /\ Rollback(c, "RESOURCE_NOT_FOUND")

----------------------------------------------------------------------------
(* Writing statements.                                                     *)

Write(c, v, r, g, x) ==
  pend' = [pend EXCEPT ![c] = [version |-> v, row |-> r, graph |-> g, next |-> x]]

(* Nodes go before edges.                                                  *)
NodesLeft(c) == NodeIDs(want[c].graph) \ NodeIDs(pend[c].graph)

RowsLeft(w, g) ==
  IF NodeIDs(w) \subseteq NodeIDs(g) THEN EdgeIDs(w) \ EdgeIDs(g) ELSE NodeIDs(w) \ NodeIDs(g)

(* The rows of g are in, and the next one goes out.  The order is that of  *)
(* the request's lists, which may be any.                                  *)
WriteRows(c, v, r, g) ==
  LET left == RowsLeft(want[c].graph, g)
  IN  IF left = {} THEN Write(c, v, r, g, NoRow) /\ Goto(c, "root")
                   ELSE \E x \in left : Write(c, v, r, g, x) /\ Goto(c, "rows")

(* Create: the playbook and version 1; its graph follows.                  *)
CreatePlaybook(c) == \E v \in FreeVersions, p \in FreePlaybooks :
  /\ pc[c] = "create"
  /\ WriteRows(c, v, [playbook |-> p, number |-> 1, status |-> "draft", root |-> NoNode],
               EmptyGraph)
  /\ UNCHANGED <<table, locks, want, def, answer>>

(* An UPDATE of a version re-checks its playbook_id foreign key, which     *)
(* takes FOR KEY SHARE on the playbook.                                    *)
KeyShare(c) ==
  LET p == def[c].row.playbook
  IN  /\ Grantable(plock[p], c, "keyshare")
      /\ plock' = [plock EXCEPT ![p][c] = "keyshare"]

(* clearGraph.  Whether its UPDATE already re-checks the foreign key, or   *)
(* only the one that sets the root, is PostgreSQL's affair.                *)
ClearGraph(c) ==
  /\ pc[c] = "clear"
  /\ KeyShare(c) \/ UNCHANGED plock
  /\ WriteRows(c, want[c].version, [def[c].row EXCEPT !.root = NoNode], EmptyGraph)
  /\ UNCHANGED <<table, vlock, want, def, answer>>

(* An insert waits for the transaction that holds its id.  A CHECK comes   *)
(* before the primary key, a foreign key after it.                         *)
InsertNode(c) ==
  LET w == want[c].graph
      n == pend[c].next
      g == pend[c].graph
  IN  /\ pc[c] = "rows" /\ n \in NodesLeft(c)
      /\ IF NodeStorable(w, n)
         THEN /\ \A d \in Clients \ {c} : n \notin NodesHeld(d)
              /\ IF NodeTaken(n, pend[c].version) THEN Rollback(c, "VALIDATION_FAILED")
                 ELSE /\ WriteRows(c, pend[c].version, pend[c].row,
                                   [root  |-> NoNode, edges |-> g.edges,
                                    nodes |-> [m \in NodeIDs(g) \cup {n} |-> w.nodes[m]]])
                      /\ UNCHANGED <<table, locks, want, def, answer>>
         ELSE Rollback(c, "VALIDATION_FAILED")

InsertEdge(c) ==
  LET w == want[c].graph
      e == pend[c].next
      g == pend[c].graph
  IN  /\ pc[c] = "rows" /\ NodesLeft(c) = {}
      /\ \A d \in Clients \ {c} : e \notin EdgesHeld(d)
      /\ IF EdgeTaken(e, pend[c].version) \/ ~EdgeStorable(w, e) THEN Rollback(c, "VALIDATION_FAILED")
         ELSE /\ WriteRows(c, pend[c].version, pend[c].row,
                           [root  |-> NoNode, nodes |-> g.nodes,
                            edges |-> [f \in EdgeIDs(g) \cup {e} |-> w.edges[f]]])
              /\ UNCHANGED <<table, locks, want, def, answer>>

(* The root of an existing version is set; a new playbook is nobody's yet. *)
RechecksPlaybook(c) == want[c].op = "replace" /\ want[c].graph.root # NoNode

(* The end of writeGraph: the root, if there is one.                       *)
SetRoot(c) ==
  LET r == want[c].graph.root
  IN  /\ pc[c] = "root"
      /\ IF RootStorable(want[c].graph)
         THEN /\ IF RechecksPlaybook(c) THEN KeyShare(c) ELSE UNCHANGED plock
              /\ Write(c, pend[c].version, [pend[c].row EXCEPT !.root = r],
                       [pend[c].graph EXCEPT !.root = r], NoRow)
              /\ Proceed(c)
              /\ UNCHANGED <<table, vlock, want, def, answer>>
         ELSE Rollback(c, "VALIDATION_FAILED")

(* The unique constraint on (playbook_id, version), counting a row that is *)
(* not committed yet.                                                      *)
NumberTaken(c, p, n) ==
  \/ \E v \in VersionsOf(p) : versions[v].number = n
  \/ \E d \in Clients \ {c} : pend[d] # NoWrite /\ pend[d].row.playbook = p
                               /\ pend[d].row.number = n

(* CreateVersion after its locks: the next number, the row and, for a      *)
(* clone of this very playbook, the copied graph.  Its ids are fresh, so   *)
(* nobody can wait for one of its rows: they go in at once.                *)
InsertVersion(c) == \E v \in FreeVersions :
  LET p == want[c].playbook
      g == IF want[c].op = "clone" THEN CloneGraph(GraphRead(c), v) ELSE EmptyGraph
      n == NextVersionNumber(p)
      code == IF want[c].op = "clone" /\ def[c].row.playbook # p THEN "VALIDATION_FAILED"
              ELSE IF NumberTaken(c, p, n) THEN "CONFLICT"
              ELSE IF IdTaken(g, v) THEN "VALIDATION_FAILED" ELSE "OK"
  IN  /\ pc[c] = "insert"
      /\ IF code # "OK" THEN Rollback(c, code)
         ELSE /\ Write(c, v, [playbook |-> p, number |-> n, status |-> "draft",
                              root |-> g.root], g, NoRow)
              /\ Proceed(c)
              /\ UNCHANGED <<table, locks, want, def, answer>>

(* Publish: Validate on what was read, then the status.                    *)
FlipStatus(c) ==
  /\ pc[c] = "flip"
  /\ IF Publishable(GraphRead(c))
     THEN /\ KeyShare(c)
          /\ Proceed(c)
          /\ UNCHANGED <<table, vlock, want, def, pend, answer>>
     ELSE Rollback(c, "INVALID_PLAYBOOK_GRAPH")

(* What each operation's commit makes visible.                             *)
CommitPublish(c) ==
  /\ want[c].op = "publish"
  /\ versions' = [versions EXCEPT ![want[c].version].status = "published"]
  /\ UNCHANGED <<playbooks, nodes, edges>>

CommitReplace(c) ==
  /\ want[c].op = "replace"
  /\ versions' = [versions EXCEPT ![want[c].version].root = pend[c].graph.root]
  /\ nodes' = [nodes EXCEPT ![want[c].version] = pend[c].graph.nodes]
  /\ edges' = [edges EXCEPT ![want[c].version] = pend[c].graph.edges]
  /\ UNCHANGED playbooks

CommitInsert(c) ==
  /\ want[c].op \in CreatesVersion
  /\ playbooks' = playbooks \cup {pend[c].row.playbook}
  /\ versions' = [versions EXCEPT ![pend[c].version] = pend[c].row]
  /\ nodes' = [nodes EXCEPT ![pend[c].version] = pend[c].graph.nodes]
  /\ edges' = [edges EXCEPT ![pend[c].version] = pend[c].graph.edges]

(* The acknowledgement of a commit may be lost.                            *)
Commit(c, code) ==
  /\ pc[c] = "commit"
  /\ CommitPublish(c) \/ CommitReplace(c) \/ CommitInsert(c)
  /\ Answer(c, code)
  /\ EndTransaction(c)
  /\ UNCHANGED <<want, def>>

----------------------------------------------------------------------------
(* Service.Start after its reads.                                          *)

(* Mutant: the version's status is not looked at.                          *)
StartCodeOfAnyStatus(c) ==
  LET g == GraphRead(c)
  IN  IF TypeOf[def[c].row.playbook] # want[c].alert THEN "ALERT_TYPE_MISMATCH"
      ELSE IF g.root \notin NodeIDs(g) THEN "INTERNAL_ERROR"
      ELSE IF g.root \notin DOMAIN nodes[want[c].version] THEN "VALIDATION_FAILED"
      ELSE "OK"

(* The type of the owning playbook, the root, the status and, in the       *)
(* INSERT, the foreign key of current_node_id.  A draft without a root is  *)
(* reported as not published.                                              *)
StartCode(c) ==
  LET g == GraphRead(c)
  IN  IF TypeOf[def[c].row.playbook] # want[c].alert THEN "ALERT_TYPE_MISMATCH"
      ELSE IF def[c].row.status # "published" THEN "PLAYBOOK_VERSION_NOT_PUBLISHED"
      ELSE IF g.root \notin NodeIDs(g) THEN "INTERNAL_ERROR"
      ELSE IF g.root \notin DOMAIN nodes[want[c].version] THEN "VALIDATION_FAILED"
      ELSE "OK"

(* investigation.Start: on the root, and completed at once on a terminal.  *)
NewInvestigation(c) ==
  LET root == def[c].nodes[def[c].row.root]
      ends == root.kind = KindTerminal
  IN  [alert |-> want[c].alert, version |-> want[c].version, current |-> def[c].row.root,
       status |-> IF ends THEN "completed" ELSE "in_progress",
       resolution |-> IF ends THEN root.resolution ELSE NoResolution]

(* The INSERT is a transaction of its own; its answer may be lost.         *)
StartInvestigation(c, code) ==
  /\ pc[c] = "start" /\ StartCode(c) = "OK"
  /\ def' = [def EXCEPT ![c].started = NewInvestigation(c)]
  /\ Answer(c, code)
  /\ UNCHANGED <<table, locks, want, pend>>

StartRefused(c) ==
  /\ pc[c] = "start" /\ StartCode(c) # "OK"
  /\ Rollback(c, StartCode(c))

(* Any statement may fail, by a lost connection or a cancelled request.    *)
Abort(c) ==
  /\ pc[c] \notin {"idle", "answered"}
  /\ Rollback(c, "INTERNAL_ERROR")

----------------------------------------------------------------------------
(* Deadlocks.                                                              *)

(* c waits for a row lock that d holds.                                    *)
AwaitsLock(c, d) ==
  \/ pc[c] = "lockVersion" /\ Conflict("update", vlock[want[c].version][d])
  \/ pc[c] = "lockSource" /\ Conflict("share", vlock[want[c].version][d])
  \/ pc[c] = "lockPlaybook" /\ Conflict("update", plock[want[c].playbook][d])
  \/ pc[c] = "flip" /\ Conflict("keyshare", plock[def[c].row.playbook][d])
  \/ pc[c] = "root" /\ RechecksPlaybook(c) /\ Conflict("keyshare", plock[def[c].row.playbook][d])

(* c inserts a row under an id that d holds.                               *)
AwaitsId(c, d) ==
  pc[c] = "rows" /\ pend[c].next \in (IF NodesLeft(c) # {} THEN NodesHeld(d) ELSE EdgesHeld(d))

Awaits(c, d) == d # c /\ (AwaitsLock(c, d) \/ AwaitsId(c, d))

(* c waits for itself in the end: it is in every set that holds those it   *)
(* waits for and, with a transaction, those that one waits for.            *)
Deadlocked(c) ==
  \A S \in SUBSET Clients :
    (\A d \in S \cup {c}, e \in Clients : Awaits(d, e) => e \in S) => c \in S

(* PostgreSQL breaks a deadlock by failing one of its transactions; its    *)
(* 40P01 is none of the errors that translate knows.                       *)
DeadlockVictim(c) == Deadlocked(c) /\ Rollback(c, "INTERNAL_ERROR")

----------------------------------------------------------------------------
Receive(c) ==
  /\ pc[c] = "answered"
  /\ Goto(c, "idle")
  /\ want' = [want EXCEPT ![c] = NoRequest]
  /\ def' = [def EXCEPT ![c] = NoDefinition]
  /\ answer' = [answer EXCEPT ![c] = "none"]
  /\ UNCHANGED <<table, locks, pend>>

----------------------------------------------------------------------------
Step(c) ==
  \/ LockVersion(c) \/ LockSource(c) \/ VersionNotFound(c)
  \/ LoadVersion(c) \/ LoadNodes(c) \/ LoadEdges(c)
  \/ LockPlaybook(c) \/ PlaybookNotFound(c)
  \/ CreatePlaybook(c) \/ InsertVersion(c) \/ FlipStatus(c)
  \/ ClearGraph(c) \/ InsertNode(c) \/ InsertEdge(c) \/ SetRoot(c)
  \/ StartInvestigation(c, "OK") \/ StartRefused(c)
  \/ Commit(c, "OK")
  \/ DeadlockVictim(c)

Next ==
  \E c \in Clients :
    \/ \E r \in Request : Submit(c, r)
    \/ Step(c)
    \/ Commit(c, "INTERNAL_ERROR") \/ StartInvestigation(c, "INTERNAL_ERROR")
    \/ Abort(c)
    \/ Receive(c)

Spec == Init /\ [][Next]_vars

(* A handler runs on until it answers, a statement that waits for a lock   *)
(* gets its turn, and deadlocks are found.  No other failure is relied     *)
(* upon.                                                                   *)
FairSpec == Spec /\ \A c \in Clients : SF_vars(Step(c))

----------------------------------------------------------------------------
(* Properties.                                                             *)

(* A published version's graph satisfies every publish-time rule, whatever *)
(* edits raced with its publication (Publish's lock).                      *)
PublishedIsPublishable ==
  \A v \in Versions : versions[v].status = "published" => Publishable(GraphAt(v))

(* A published version and its graph never change again.                   *)
PublishedFrozen ==
  [][\A v \in Versions : versions[v].status = "published"
       => versions'[v] = versions[v] /\ nodes'[v] = nodes[v] /\ edges'[v] = edges[v]]_vars

(* GetVersion reads in three statements without a transaction.  A response *)
(* that says "published" still shows the published graph, and not a mix of *)
(* two drafts: the status is read first.                                   *)
PublishedReadWhole ==
  \A c \in Clients :
    want[c].op = "get" /\ answer[c] = "OK" /\ def[c].row.status = "published"
      => GraphRead(c) = GraphAt(want[c].version)

(* What InvestigationEngine takes for granted: an investigation runs on a  *)
(* published version that satisfies every rule, written for its alert's    *)
(* type, and was placed on that version's root, completed if that is a     *)
(* terminal.  Start reads the version in three statements without a lock,  *)
(* while designers edit and publish it; PublishedFrozen keeps it true.     *)
InvestigationsRunPublished ==
  \A c \in Clients : def[c].started # NoInvestigation =>
    LET i == def[c].started
        g == GraphAt(i.version)
    IN  /\ versions[i.version].status = "published" /\ Publishable(g)
        /\ TypeOf[versions[i.version].playbook] = i.alert
        /\ i.current = g.root
        /\ i.resolution = g.nodes[g.root].resolution
        /\ i.status = "completed" <=> g.nodes[g.root].kind = KindTerminal

(* A clone is a copy of its source as it stands when the clone is          *)
(* committed, with none of its ids: FOR SHARE keeps edits out.             *)
CloneIsCopy ==
  [][\A c \in Clients, v \in Versions :
       /\ pc[c] = "commit" /\ want[c].op = "clone"
       /\ v = pend[c].version /\ versions'[v] # NoVersion
       => /\ GraphAt(v)' = CloneGraph(GraphAt(want[c].version), v)
          /\ versions'[v].playbook = versions[want[c].version].playbook
          /\ DOMAIN nodes'[v] \cap DOMAIN nodes[want[c].version] = {}]_vars

(* A clone shares no id with any version, or the primary keys would refuse *)
(* it: it is refused only as a clone of another playbook's version, even   *)
(* if its source is a clone itself and whoever writes meanwhile.           *)
CloneNeverCollides ==
  \A c \in Clients :
    want[c].op = "clone" /\ answer[c] = "VALIDATION_FAILED"
      => def[c].row.playbook # want[c].playbook

(* The versions of a playbook are numbered 1, 2, ... without gap or        *)
(* repetition, and a playbook is never without a version.  The playbook    *)
(* lock turns a collision of numbers into a wait: nobody is ever told of   *)
(* the unique constraint on (playbook_id, version).                        *)
VersionsNumbered ==
  /\ \A p \in playbooks :
       /\ {versions[v].number : v \in VersionsOf(p)} = 1..Cardinality(VersionsOf(p))
       /\ VersionsOf(p) # {}
  /\ \A c \in Clients : answer[c] # "CONFLICT"

(* Version locks before playbook locks keep row locks out of every         *)
(* deadlock (CreateVersion's lock order): a transaction that waits for     *)
(* itself is inserting a row under an id that another request carries too. *)
DeadlocksOnlyOverIds == \A c \in Clients : Deadlocked(c) => pc[c] = "rows"

(* Every request is answered, whatever locks and ids it waits for.         *)
EveryRequestAnswered == \A c \in Clients : pc[c] # "idle" ~> pc[c] = "answered"

=============================================================================
