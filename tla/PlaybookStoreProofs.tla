------------------------ MODULE PlaybookStoreProofs ------------------------
(***************************************************************************)
(* Proofs about the playbook store, for any number of clients, playbooks   *)
(* and versions and any input graphs.                                      *)
(*                                                                         *)
(* Two facts carry them.  A row is changed only by the transaction that    *)
(* holds FOR UPDATE on it, so whatever a transaction read under its lock   *)
(* is still so when it commits; and a transaction takes version locks      *)
(* before playbook locks, so whoever waits for a row lock waits for a      *)
(* transaction that is further on.  Only ids are taken in no order.        *)
(***************************************************************************)
EXTENDS PlaybookStore, FiniteSetTheorems, TLAPS

----------------------------------------------------------------------------
(* The inductive invariant.                                                *)

IsRow(r) ==
  /\ DOMAIN r = {"playbook", "number", "status", "root"}
  /\ r.playbook \in Playbooks
  /\ r.number \in Nat
  /\ r.status \in {"draft", "published"}

(* The statements of each kind of request.                                 *)
Labels ==
  [get     |-> {"row", "nodes", "edges"},
   start   |-> {"row", "nodes", "edges", "start"},
   create  |-> {"create", "rows", "root", "commit"},
   draft   |-> {"lockPlaybook", "insert", "commit"},
   clone   |-> {"lockSource", "row", "nodes", "edges", "lockPlaybook", "insert", "commit"},
   replace |-> {"lockVersion", "clear", "rows", "root", "commit"},
   publish |-> {"lockVersion", "nodes", "edges", "flip", "commit"}]

(* Functions and records, by domain.                                       *)
Typed ==
  /\ playbooks \subseteq Playbooks
  /\ DOMAIN versions = Versions /\ DOMAIN nodes = Versions /\ DOMAIN edges = Versions
  /\ \A v \in Versions : versions[v] = NoVersion \/ IsRow(versions[v])
  /\ DOMAIN vlock = Versions /\ DOMAIN plock = Playbooks
  /\ \A v \in Versions : DOMAIN vlock[v] = Clients
  /\ \A p \in Playbooks : DOMAIN plock[p] = Clients
  /\ DOMAIN pc = Clients /\ DOMAIN want = Clients /\ DOMAIN def = Clients
  /\ DOMAIN pend = Clients /\ DOMAIN answer = Clients
  /\ \A c \in Clients : DOMAIN def[c] = {"row", "nodes", "edges", "started"}

(* Two transactions never hold conflicting locks.                          *)
LocksExclude ==
  \A c \in Clients : \A d \in Clients \ {c} :
    /\ \A v \in Versions : ~Conflict(vlock[v][c], vlock[v][d])
    /\ \A p \in Playbooks : ~Conflict(plock[p][c], plock[p][d])

(* Where a request stands.                                                 *)
Placed(c) ==
  /\ \/ pc[c] = "idle" /\ want[c] = NoRequest
     \/ pc[c] = "answered" /\ want[c] \in Request
     \/ want[c] \in Request /\ pc[c] \in Labels[want[c].op]
  /\ pc[c] # "answered" => answer[c] = "none"
  /\ answer[c] # "CONFLICT"
  /\ want[c].op = "clone" /\ answer[c] = "VALIDATION_FAILED"
       => def[c].row.playbook # want[c].playbook
  /\ pc[c] # "answered" => def[c].started = NoInvestigation
  /\ pc[c] # "answered" /\ want[c].op \in {"create", "replace"} => want[c].graph \in InputGraphs

(* FOR UPDATE on a draft, from lockVersion to the commit, and what was     *)
(* read under it.                                                          *)
HoldsDraft(c) ==
  /\ vlock[want[c].version][c] = "update"
  /\ versions[want[c].version] = def[c].row
  /\ def[c].row.status = "draft"
  /\ IsRow(def[c].row)

NodesCurrent(c) == def[c].nodes = nodes[want[c].version]
EdgesCurrent(c) == def[c].edges = edges[want[c].version]

ReplaceOK(c) ==
  want[c].op = "replace" /\ pc[c] \in {"clear", "rows", "root", "commit"} => HoldsDraft(c)

PublishOK(c) ==
  want[c].op = "publish" =>
    /\ pc[c] \in {"nodes", "edges", "flip", "commit"} => HoldsDraft(c)
    /\ pc[c] \in {"edges", "flip", "commit"} => NodesCurrent(c)
    /\ pc[c] \in {"flip", "commit"} => EdgesCurrent(c)
    /\ pc[c] = "commit" => Publishable(GraphRead(c))

(* FOR SHARE on the source of a clone.                                     *)
CloneOK(c) ==
  want[c].op = "clone" =>
    /\ pc[c] \in {"row", "nodes", "edges", "lockPlaybook", "insert", "commit"}
         => vlock[want[c].version][c] = "share" /\ versions[want[c].version] # NoVersion
    /\ pc[c] \in {"nodes", "edges", "lockPlaybook", "insert", "commit"}
         => def[c].row = versions[want[c].version]
    /\ pc[c] \in {"edges", "lockPlaybook", "insert", "commit"} => NodesCurrent(c)
    /\ pc[c] \in {"lockPlaybook", "insert", "commit"} => EdgesCurrent(c)
    /\ pc[c] = "commit" =>
         /\ def[c].row.playbook = want[c].playbook
         /\ pend[c].graph = CloneGraph(GraphRead(c), pend[c].version)
         /\ pend[c].row.root = pend[c].graph.root
         /\ NodeIDs(pend[c].graph) \cap DOMAIN nodes[want[c].version] = {}

(* A read without a lock: once it has seen a published row, it reads what  *)
(* is stored for good.                                                     *)
ReadOK(c) ==
  want[c].op \in {"get", "start"} /\ def[c].row.status = "published" =>
    /\ pc[c] \in {"nodes", "edges", "start"} \/ answer[c] = "OK"
         => def[c].row = versions[want[c].version]
    /\ pc[c] \in {"edges", "start"} \/ answer[c] = "OK" => NodesCurrent(c)
    /\ pc[c] = "start" \/ answer[c] = "OK" => EdgesCurrent(c)

(* FOR UPDATE on the playbook, from CreateVersion's lock to the commit.    *)
NumberOK(c) ==
  want[c].op \in {"draft", "clone"} /\ pc[c] \in {"insert", "commit"} =>
    /\ plock[want[c].playbook][c] = "update"
    /\ want[c].playbook \in playbooks

(* The ids are clients' own, or made for a clone with the version id v.    *)
Apart(ids, v) == \A x \in ids : x[1] = v \/ x[1] \notin Versions

RowIDs(g) == NodeIDs(g) \cup EdgeIDs(g)

(* Rows written are those of a version nobody else has.                    *)
PendOK(c) ==
  /\ pend[c] # NoWrite <=>
       (pc[c] \in {"rows", "root"} \/ (pc[c] = "commit" /\ want[c].op # "publish"))
  /\ pc[c] = "rows" => pend[c].next \in RowIDs(want[c].graph)
  /\ pend[c] # NoWrite =>
       /\ pend[c].version \in Versions
       /\ IsRow(pend[c].row) /\ pend[c].row.status = "draft"
       /\ DOMAIN pend[c].graph = {"root", "nodes", "edges"}
       /\ Apart(RowIDs(pend[c].graph), pend[c].version)
       /\ want[c].op = "replace" =>
            /\ pend[c].version = want[c].version
            /\ pend[c].row.playbook = def[c].row.playbook
            /\ pend[c].row.number = def[c].row.number
       /\ want[c].op # "replace" => versions[pend[c].version] = NoVersion
       /\ want[c].op = "create" =>
            pend[c].row.playbook \notin playbooks /\ pend[c].row.number = 1
       /\ want[c].op \in {"draft", "clone"} =>
            /\ pend[c].row.playbook = want[c].playbook
            /\ pend[c].row.number = NextVersionNumber(want[c].playbook)

PendApart ==
  \A c \in Clients : \A d \in Clients \ {c} :
    pend[c] # NoWrite /\ pend[d] # NoWrite
    /\ want[c].op \in CreatesVersion /\ want[d].op \in CreatesVersion =>
      /\ pend[c].version # pend[d].version
      /\ pend[c].row.playbook # pend[d].row.playbook

(* Locks are held only by the requests that take them, at the statements   *)
(* that follow.                                                            *)
HoldersKnown(c) ==
  /\ \A v \in Versions : vlock[v][c] # "none" =>
       /\ want[c].op \in {"clone", "replace", "publish"}
       /\ pc[c] \in {"row", "nodes", "edges", "lockPlaybook", "insert", "clear", "rows", "root",
                     "flip", "commit"}
  /\ \A p \in Playbooks :
       /\ plock[p][c] # "none" => pc[c] \in {"rows", "root", "insert", "commit"}
       /\ plock[p][c] = "update" => pc[c] \in {"insert", "commit"}

ClientOK(c) ==
  /\ Placed(c) /\ ReplaceOK(c) /\ PublishOK(c) /\ CloneOK(c) /\ ReadOK(c)
  /\ NumberOK(c) /\ PendOK(c) /\ HoldersKnown(c)

(* The numbers of a playbook's versions, and what an investigation runs on.*)
Numbered ==
  /\ \A v \in Versions : versions[v] # NoVersion => versions[v].playbook \in playbooks
  /\ \A p \in playbooks :
       /\ IsFiniteSet(VersionsOf(p)) /\ VersionsOf(p) # {}
       /\ {versions[v].number : v \in VersionsOf(p)} = 1..Cardinality(VersionsOf(p))

(* Stored ids.                                                             *)
IdsApart == \A v \in Versions : Apart(DOMAIN nodes[v] \cup DOMAIN edges[v], v)

(* The investigation i runs on the version with the row r and the graph g. *)
RunsOn(i, r, g) ==
  /\ r.status = "published" /\ Publishable(g)
  /\ TypeOf[r.playbook] = i.alert
  /\ i.current = g.root
  /\ i.resolution = g.nodes[g.root].resolution
  /\ i.status = "completed" <=> g.nodes[g.root].kind = KindTerminal

Running ==
  \A c \in Clients : def[c].started # NoInvestigation =>
    LET v == def[c].started.version
    IN  v \in Versions /\ RunsOn(def[c].started, versions[v], GraphAt(v))

IInv ==
  /\ Typed /\ LocksExclude /\ PendApart /\ Numbered /\ Running /\ IdsApart
  /\ PublishedIsPublishable
  /\ \A c \in Clients : ClientOK(c)

----------------------------------------------------------------------------
(* Requests and statements.                                                *)

LEMMA RequestFields ==
  ASSUME NEW r \in Request
  PROVE  /\ r.op \in {"get", "start", "create", "draft", "clone", "replace", "publish"}
         /\ r.op \in {"get", "start", "clone", "replace", "publish"} => r.version \in Versions
         /\ r.op \in {"draft", "clone"} => r.playbook \in Playbooks
BY DEF Request

(* Which requests can be at a statement.                                   *)
LEMMA OpsAt ==
  ASSUME NEW c \in Clients, Placed(c), pc[c] \notin {"idle", "answered"}
  PROVE  /\ want[c] \in Request
         /\ want[c].op \in {"get", "start", "create", "draft", "clone", "replace", "publish"}
         /\ pc[c] \in Labels[want[c].op]
         /\ pc[c] = "lockVersion" => want[c].op \in {"replace", "publish"}
         /\ pc[c] = "lockSource" => want[c].op = "clone"
         /\ pc[c] = "row" => want[c].op \in {"get", "start", "clone"}
         /\ pc[c] \in {"nodes", "edges"} => want[c].op \in {"get", "start", "clone", "publish"}
         /\ pc[c] \in {"lockPlaybook", "insert"} => want[c].op \in {"draft", "clone"}
         /\ pc[c] = "create" => want[c].op = "create"
         /\ pc[c] = "clear" => want[c].op = "replace"
         /\ pc[c] \in {"rows", "root"} => want[c].op \in {"create", "replace"}
         /\ pc[c] = "flip" => want[c].op = "publish"
         /\ pc[c] = "start" => want[c].op = "start"
         /\ pc[c] = "commit" => want[c].op \in {"create", "draft", "clone", "replace", "publish"}
<1>1. want[c] \in Request /\ pc[c] \in Labels[want[c].op]
  BY DEF Placed
<1>2. want[c].op \in {"get", "start", "create", "draft", "clone", "replace", "publish"}
  BY <1>1, RequestFields
<1> QED
  BY <1>1, <1>2 DEF Labels

(* Everything a client has stays.                                          *)
Stays(d) ==
  /\ pc'[d] = pc[d] /\ want'[d] = want[d] /\ def'[d] = def[d]
  /\ pend'[d] = pend[d] /\ answer'[d] = answer[d]
  /\ \A v \in Versions : vlock'[v][d] = vlock[v][d]
  /\ \A p \in Playbooks : plock'[p][d] = plock[p][d]

Elsewhere(c) == \A d \in Clients \ {c} : Stays(d)

(* A client that does nothing while the tables stay is as it was.          *)
LEMMA ClientStays ==
  ASSUME NEW d \in Clients, ClientOK(d), UNCHANGED table, Stays(d)
  PROVE  ClientOK(d)'
<1>1. /\ pc'[d] = pc[d] /\ want'[d] = want[d] /\ def'[d] = def[d]
      /\ pend'[d] = pend[d] /\ answer'[d] = answer[d]
      /\ \A v \in Versions : vlock'[v][d] = vlock[v][d]
      /\ \A p \in Playbooks : plock'[p][d] = plock[p][d]
      /\ playbooks' = playbooks /\ versions' = versions /\ nodes' = nodes /\ edges' = edges
      /\ ClientOK(d)
  BY DEF Stays, table
<1>2. Placed(d)' /\ HoldersKnown(d)'
  BY <1>1 DEF ClientOK, Placed, HoldersKnown
<1>3. want[d].op \in {"replace", "publish", "clone"} /\ pc[d] \notin {"idle", "answered"}
        => want[d].version \in Versions
  BY <1>1, OpsAt, RequestFields DEF ClientOK
<1>4. want[d].op \in {"draft", "clone"} /\ pc[d] \notin {"idle", "answered"}
        => want[d].playbook \in Playbooks
  BY <1>1, OpsAt, RequestFields DEF ClientOK
<1>5. ReplaceOK(d)' /\ PublishOK(d)'
  BY <1>1, <1>3 DEF ClientOK, ReplaceOK, PublishOK, HoldsDraft, NodesCurrent, EdgesCurrent,
                    IsRow, GraphRead
<1>6. CloneOK(d)'
  BY <1>1, <1>3 DEF ClientOK, CloneOK, NodesCurrent, EdgesCurrent, GraphRead
<1>7. ReadOK(d)'
  BY <1>1 DEF ClientOK, ReadOK, NodesCurrent, EdgesCurrent
<1>8. NumberOK(d)'
  BY <1>1, <1>4 DEF ClientOK, NumberOK
<1>9. NextVersionNumber(want[d].playbook)' = NextVersionNumber(want[d].playbook)
  BY <1>1 DEF NextVersionNumber, VersionsOf
<1>10. PendOK(d)'
  BY <1>1, <1>9 DEF ClientOK, PendOK, IsRow
<1> QED
  BY <1>2, <1>5, <1>6, <1>7, <1>8, <1>10 DEF ClientOK

(* A step that leaves the tables alone keeps the invariant if it keeps the *)
(* types, the exclusion of locks and rows, and its own client's part.      *)
LEMMA QuietStep ==
  ASSUME IInv, NEW c \in Clients, UNCHANGED table, Elsewhere(c),
         Typed', LocksExclude', PendApart', ClientOK(c)',
         def'[c].started \in {def[c].started, NoInvestigation}
  PROVE  IInv'
<1>1. /\ playbooks' = playbooks /\ versions' = versions /\ nodes' = nodes /\ edges' = edges
      /\ \A d \in Clients : def'[d].started \in {def[d].started, NoInvestigation}
  BY DEF Elsewhere, Stays, table
<1>2. Numbered'
  <2>1. Numbered /\ \A p : VersionsOf(p)' = VersionsOf(p)
    BY <1>1 DEF IInv, VersionsOf
  <2> QED
    BY <1>1, <2>1 DEF Numbered
<1>3. PublishedIsPublishable'
  BY <1>1 DEF IInv, PublishedIsPublishable, GraphAt
<1>4. Running'
  BY <1>1 DEF IInv, Running, GraphAt
<1>5. \A d \in Clients : ClientOK(d)'
  BY ClientStays DEF IInv, Elsewhere
<1>6. IdsApart'
  BY <1>1 DEF IInv, IdsApart
<1> QED
  BY <1>2, <1>3, <1>4, <1>5, <1>6 DEF IInv

----------------------------------------------------------------------------
(* The ends of a transaction.                                              *)

LEMMA EndedTransaction ==
  ASSUME IInv, NEW c \in Clients, EndTransaction(c)
  PROVE  /\ DOMAIN vlock' = Versions /\ DOMAIN plock' = Playbooks /\ DOMAIN pend' = Clients
         /\ \A v \in Versions : DOMAIN vlock'[v] = Clients /\ vlock'[v][c] = "none"
         /\ \A p \in Playbooks : DOMAIN plock'[p] = Clients /\ plock'[p][c] = "none"
         /\ pend'[c] = NoWrite
         /\ \A d \in Clients \ {c} :
              /\ pend'[d] = pend[d]
              /\ \A v \in Versions : vlock'[v][d] = vlock[v][d]
              /\ \A p \in Playbooks : plock'[p][d] = plock[p][d]
         /\ LocksExclude'
<1>1. /\ DOMAIN vlock' = Versions /\ DOMAIN plock' = Playbooks /\ DOMAIN pend' = Clients
      /\ \A v \in Versions : DOMAIN vlock'[v] = Clients /\ vlock'[v][c] = "none"
      /\ \A p \in Playbooks : DOMAIN plock'[p] = Clients /\ plock'[p][c] = "none"
      /\ pend'[c] = NoWrite
      /\ \A d \in Clients \ {c} :
           /\ pend'[d] = pend[d]
           /\ \A v \in Versions : vlock'[v][d] = vlock[v][d]
           /\ \A p \in Playbooks : plock'[p][d] = plock[p][d]
  BY DEF EndTransaction, IInv, Typed
<1>2. LocksExclude'
  BY <1>1 DEF IInv, LocksExclude, Conflict
<1> QED
  BY <1>1, <1>2

(* A client that has been answered and holds nothing.                      *)
LEMMA AnsweredOK ==
  ASSUME NEW c \in Clients, pc'[c] = "answered", want'[c] \in Request,
         answer'[c] # "CONFLICT", answer'[c] = "OK" => want'[c].op \notin {"get", "start"},
         answer'[c] = "VALIDATION_FAILED" /\ want'[c].op = "clone"
           => def'[c].row.playbook # want'[c].playbook,
         pend'[c] = NoWrite,
         \A v \in Versions : vlock'[v][c] = "none", \A p \in Playbooks : plock'[p][c] = "none"
  PROVE  ClientOK(c)'
BY DEF ClientOK, Placed, ReplaceOK, PublishOK, CloneOK, ReadOK, NumberOK, PendOK, HoldersKnown

(* Rolling back keeps the invariant: nothing was visible.                  *)
LEMMA RollbackInv ==
  ASSUME IInv, NEW c \in Clients, pc[c] \notin {"idle", "answered"},
         NEW code, code \notin {"OK", "CONFLICT"}, Rollback(c, code),
         code = "VALIDATION_FAILED" /\ want[c].op = "clone"
           => def[c].row.playbook # want[c].playbook
  PROVE  IInv'
<1>1. EndTransaction(c) /\ UNCHANGED <<table, want, def>>
  BY DEF Rollback
<1>2. /\ DOMAIN pc' = Clients /\ DOMAIN answer' = Clients
      /\ pc'[c] = "answered" /\ answer'[c] = code
      /\ \A d \in Clients \ {c} : pc'[d] = pc[d] /\ answer'[d] = answer[d]
  BY DEF Rollback, Answer, Goto, IInv, Typed
<1>3. want[c] \in Request
  BY OpsAt DEF IInv, ClientOK
<1>4. Typed'
  BY <1>1, <1>2, EndedTransaction DEF IInv, Typed, IsRow, table
<1>5. LocksExclude'
  BY <1>1, EndedTransaction
<1>6. PendApart'
  BY <1>1, EndedTransaction DEF IInv, PendApart
<1>7. Elsewhere(c)
  BY <1>1, <1>2, EndedTransaction DEF Elsewhere, Stays
<1>8. ClientOK(c)'
  BY <1>1, <1>2, <1>3, EndedTransaction, AnsweredOK
<1> QED
  BY <1>1, <1>4, <1>5, <1>6, <1>7, <1>8, QuietStep

LEMMA InitInv == Init => IInv
<1> SUFFICES ASSUME Init PROVE IInv
  OBVIOUS
<1>1. Typed /\ LocksExclude /\ PendApart
  BY DEF Init, Typed, LocksExclude, Conflict, PendApart, NoDefinition, NoRows
<1>2. Numbered /\ PublishedIsPublishable /\ Running /\ IdsApart
  BY DEF Init, Numbered, PublishedIsPublishable, Running, NoVersion, NoDefinition, IdsApart, Apart,
         NoRows
<1>3. ASSUME NEW c \in Clients
      PROVE  ClientOK(c)
  BY DEF Init, ClientOK, Placed, ReplaceOK, PublishOK, CloneOK, ReadOK, NumberOK, PendOK,
         HoldersKnown, NoRequest, NoDefinition
<1> QED
  BY <1>1, <1>2, <1>3 DEF IInv

LEMMA SubmitInv ==
  ASSUME IInv, NEW c \in Clients, NEW r \in Request, Submit(c, r)
  PROVE  IInv'
<1>1. /\ pc[c] = "idle" /\ want' = [want EXCEPT ![c] = r] /\ UNCHANGED <<table, locks, def, pend>>
      /\ answer[c] = "none"
      /\ def[c].started = NoInvestigation
  BY DEF Submit, IInv, ClientOK, Placed
<1>2. /\ DOMAIN pc' = Clients /\ DOMAIN answer' = Clients /\ DOMAIN want' = Clients
      /\ want'[c] = r
      /\ \A d \in Clients \ {c} : pc'[d] = pc[d] /\ answer'[d] = answer[d] /\ want'[d] = want[d]
      /\ \/ /\ pc'[c] = "answered" /\ answer'[c] \in {"VALIDATION_FAILED", "RESOURCE_NOT_FOUND"}
            /\ answer'[c] = "VALIDATION_FAILED" => r.op # "clone"
         \/ /\ pc'[c] = After[r.op].begin /\ answer'[c] = "none"
            /\ r.op \in {"create", "replace"} => r.graph \in InputGraphs
  BY <1>1 DEF Submit, Refused, Request, Answer, Goto, IInv, Typed
<1>3. Typed' /\ LocksExclude'
  BY <1>1, <1>2 DEF IInv, Typed, LocksExclude, Conflict, IsRow, table, locks
<1>4. pend[c] = NoWrite
  BY <1>1 DEF IInv, ClientOK, PendOK
<1>5. PendApart'
  BY <1>1, <1>2, <1>4 DEF IInv, PendApart
<1>6. Elsewhere(c)
  BY <1>1, <1>2 DEF Elsewhere, Stays, locks
<1>7. /\ \A v \in Versions : vlock[v][c] = "none"
      /\ \A p \in Playbooks : plock[p][c] = "none"
  BY <1>1 DEF IInv, ClientOK, HoldersKnown
<1>8. ClientOK(c)'
  <2>1. CASE /\ pc'[c] = "answered" /\ answer'[c] \in {"VALIDATION_FAILED", "RESOURCE_NOT_FOUND"}
             /\ answer'[c] = "VALIDATION_FAILED" => r.op # "clone"
    BY <1>1, <1>2, <1>4, <1>7, <2>1, AnsweredOK DEF locks
  <2>2. CASE /\ pc'[c] = After[r.op].begin /\ answer'[c] = "none"
             /\ r.op \in {"create", "replace"} => r.graph \in InputGraphs
    <3>1. /\ pc'[c] \in Labels[r.op]
          /\ pc'[c] \in {"row", "create", "lockPlaybook", "lockSource", "lockVersion"}
          /\ pc'[c] = "row" => r.op \in {"get", "start"}
          /\ pc'[c] = "lockPlaybook" => r.op = "draft"
      BY <2>2, RequestFields DEF After, Labels
    <3> QED
      BY <1>1, <1>2, <1>4, <1>7, <2>2, <3>1
      DEF locks, ClientOK, Placed, ReplaceOK, PublishOK, CloneOK, ReadOK, NumberOK, PendOK,
          HoldersKnown
  <2> QED
    BY <1>2, <2>1, <2>2
<1> QED
  BY <1>1, <1>3, <1>5, <1>6, <1>8, QuietStep

LEMMA ReceiveInv ==
  ASSUME IInv, NEW c \in Clients, Receive(c)
  PROVE  IInv'
<1>1. /\ DOMAIN pc' = Clients /\ DOMAIN answer' = Clients /\ DOMAIN want' = Clients
      /\ DOMAIN def' = Clients
      /\ pc'[c] = "idle" /\ want'[c] = NoRequest /\ def'[c] = NoDefinition /\ answer'[c] = "none"
      /\ \A d \in Clients \ {c} : pc'[d] = pc[d] /\ answer'[d] = answer[d] /\ want'[d] = want[d]
                                  /\ def'[d] = def[d]
      /\ UNCHANGED <<table, locks, pend>>
      /\ pc[c] = "answered"
  BY DEF Receive, Goto, IInv, Typed
<1>2. Typed' /\ LocksExclude'
  BY <1>1 DEF IInv, Typed, LocksExclude, Conflict, IsRow, table, locks, NoDefinition
<1>3. pend[c] = NoWrite
  BY <1>1 DEF IInv, ClientOK, PendOK
<1>4. PendApart'
  BY <1>1, <1>3 DEF IInv, PendApart
<1>5. Elsewhere(c)
  BY <1>1 DEF Elsewhere, Stays, locks
<1>6. ClientOK(c)'
  BY <1>1, <1>3
  DEF IInv, locks, ClientOK, Placed, ReplaceOK, PublishOK, CloneOK, ReadOK, NumberOK, PendOK,
      HoldersKnown, NoRequest, NoDefinition
<1>7. def'[c].started = NoInvestigation
  BY <1>1 DEF NoDefinition
<1> QED
  BY <1>1, <1>2, <1>4, <1>5, <1>6, <1>7, QuietStep


----------------------------------------------------------------------------
(* Statements that lock and read.                                          *)

LEMMA LockVersionInv ==
  ASSUME IInv, NEW c \in Clients, LockVersion(c)
  PROVE  IInv'
<1> DEFINE v == want[c].version
<1>1. pc[c] = "lockVersion" /\ want[c].op \in {"replace", "publish"} /\ v \in Versions
      /\ want[c] \in Request
  BY OpsAt, RequestFields DEF LockVersion, IInv, ClientOK
<1>2. versions[v] # NoVersion /\ IsRow(versions[v])
  BY <1>1 DEF LockVersion, IInv, Typed
<1>3. CASE versions[v].status # "draft"
  BY <1>1, <1>3, RollbackInv DEF LockVersion
<1>4. CASE versions[v].status = "draft"
  <2>1. /\ Grantable(vlock[v], c, "update")
        /\ vlock' = [vlock EXCEPT ![v][c] = "update"]
        /\ def' = [def EXCEPT ![c].row = versions[v]]
        /\ Proceed(c)
        /\ UNCHANGED <<table, plock, want, pend, answer>>
    BY <1>4 DEF LockVersion
  <2>2. /\ DOMAIN vlock' = Versions /\ \A w \in Versions : DOMAIN vlock'[w] = Clients
        /\ vlock'[v][c] = "update"
        /\ \A d \in Clients \ {c}, w \in Versions : vlock'[w][d] = vlock[w][d]
        /\ \A w \in Versions : w # v => vlock'[w] = vlock[w]
    BY <1>1, <2>1 DEF IInv, Typed
  <2>3. /\ DOMAIN pc' = Clients /\ \A d \in Clients \ {c} : pc'[d] = pc[d]
        /\ want[c].op = "replace" => pc'[c] = "clear"
        /\ want[c].op = "publish" => pc'[c] = "nodes"
    BY <1>1, <2>1 DEF Proceed, Goto, After, IInv, Typed
  <2>4. /\ DOMAIN def' = Clients /\ \A d \in Clients \ {c} : def'[d] = def[d]
        /\ DOMAIN def'[c] = DOMAIN def[c] /\ def'[c].row = versions[v]
        /\ def'[c].started = def[c].started
    BY <2>1 DEF IInv, Typed
  <2>5. Typed'
    BY <2>1, <2>2, <2>3, <2>4 DEF IInv, Typed, table, IsRow
  <2>6. LocksExclude'
    BY <1>1, <2>1, <2>2 DEF IInv, LocksExclude, Conflict, Grantable
  <2>7. PendApart' /\ Elsewhere(c)
    BY <2>1, <2>2, <2>3, <2>4 DEF IInv, PendApart, Elsewhere, Stays
  <2>8. ClientOK(c)
    BY DEF IInv
  <2>9. versions' = versions /\ plock' = plock /\ pend' = pend /\ want' = want /\ answer' = answer
    BY <2>1 DEF table
  <2>10. ClientOK(c)'
    <3>1. Placed(c)'
      BY <1>1, <2>3, <2>4, <2>8, <2>9 DEF ClientOK, Placed, Labels
    <3>2. ReplaceOK(c)' /\ PublishOK(c)'
      BY <1>1, <1>2, <1>4, <2>2, <2>3, <2>4, <2>9 DEF ReplaceOK, PublishOK, HoldsDraft, IsRow
    <3>3. CloneOK(c)' /\ ReadOK(c)' /\ NumberOK(c)'
      BY <1>1, <2>3, <2>9 DEF CloneOK, ReadOK, NumberOK
    <3>4. PendOK(c)' /\ HoldersKnown(c)'
      BY <1>1, <2>2, <2>3, <2>8, <2>9 DEF ClientOK, PendOK, HoldersKnown
    <3> QED
      BY <3>1, <3>2, <3>3, <3>4 DEF ClientOK
  <2> QED
    BY <2>1, <2>4, <2>5, <2>6, <2>7, <2>10, QuietStep
<1> QED
  BY <1>3, <1>4

LEMMA LockSourceInv ==
  ASSUME IInv, NEW c \in Clients, LockSource(c)
  PROVE  IInv'
<1> DEFINE v == want[c].version
<1>1. pc[c] = "lockSource" /\ want[c].op = "clone" /\ v \in Versions /\ want[c] \in Request
  BY OpsAt, RequestFields DEF LockSource, IInv, ClientOK
<1>2. /\ Grantable(vlock[v], c, "share")
      /\ vlock' = [vlock EXCEPT ![v][c] = "share"]
      /\ Proceed(c) /\ versions[v] # NoVersion
      /\ UNCHANGED <<table, plock, want, def, pend, answer>>
  BY DEF LockSource
<1>3. /\ DOMAIN vlock' = Versions /\ \A w \in Versions : DOMAIN vlock'[w] = Clients
      /\ vlock'[v][c] = "share"
      /\ \A d \in Clients \ {c}, w \in Versions : vlock'[w][d] = vlock[w][d]
      /\ \A w \in Versions : w # v => vlock'[w] = vlock[w]
  BY <1>1, <1>2 DEF IInv, Typed
<1>4. DOMAIN pc' = Clients /\ pc'[c] = "row" /\ \A d \in Clients \ {c} : pc'[d] = pc[d]
  BY <1>1, <1>2 DEF Proceed, Goto, After, IInv, Typed
<1>5. Typed'
  BY <1>2, <1>3, <1>4 DEF IInv, Typed, table, IsRow
<1>6. LocksExclude'
  BY <1>1, <1>2, <1>3 DEF IInv, LocksExclude, Conflict, Grantable
<1>7. PendApart' /\ Elsewhere(c)
  BY <1>2, <1>3, <1>4 DEF IInv, PendApart, Elsewhere, Stays
<1>8. ClientOK(c)'
  BY <1>1, <1>2, <1>3, <1>4
  DEF IInv, table, ClientOK, Placed, Labels, ReplaceOK, PublishOK, CloneOK, ReadOK, NumberOK,
      PendOK, HoldersKnown
<1> QED
  BY <1>2, <1>5, <1>6, <1>7, <1>8, QuietStep

LEMMA LockPlaybookInv ==
  ASSUME IInv, NEW c \in Clients, LockPlaybook(c)
  PROVE  IInv'
<1> DEFINE q == want[c].playbook
<1>1. pc[c] = "lockPlaybook" /\ want[c].op \in {"draft", "clone"} /\ q \in Playbooks
      /\ want[c] \in Request
  BY OpsAt, RequestFields DEF LockPlaybook, IInv, ClientOK
<1>2. /\ Grantable(plock[q], c, "update")
      /\ plock' = [plock EXCEPT ![q][c] = "update"]
      /\ Proceed(c) /\ q \in playbooks
      /\ UNCHANGED <<table, vlock, want, def, pend, answer>>
  BY DEF LockPlaybook
<1>3. /\ DOMAIN plock' = Playbooks /\ \A p \in Playbooks : DOMAIN plock'[p] = Clients
      /\ plock'[q][c] = "update"
      /\ \A d \in Clients \ {c}, p \in Playbooks : plock'[p][d] = plock[p][d]
      /\ \A p \in Playbooks : p # q => plock'[p] = plock[p]
  BY <1>1, <1>2 DEF IInv, Typed
<1>4. DOMAIN pc' = Clients /\ pc'[c] = "insert" /\ \A d \in Clients \ {c} : pc'[d] = pc[d]
  BY <1>1, <1>2 DEF Proceed, Goto, After, IInv, Typed
<1>5. Typed'
  BY <1>2, <1>3, <1>4 DEF IInv, Typed, table, IsRow
<1>6. LocksExclude'
  BY <1>1, <1>2, <1>3 DEF IInv, LocksExclude, Conflict, Grantable
<1>7. PendApart' /\ Elsewhere(c)
  BY <1>2, <1>3, <1>4 DEF IInv, PendApart, Elsewhere, Stays
<1>8. ClientOK(c)'
  BY <1>1, <1>2, <1>3, <1>4
  DEF IInv, table, ClientOK, Placed, Labels, ReplaceOK, PublishOK, CloneOK, ReadOK, NumberOK,
      PendOK, HoldersKnown, NodesCurrent, EdgesCurrent
<1> QED
  BY <1>2, <1>5, <1>6, <1>7, <1>8, QuietStep


(* A statement without effect on tables, locks and written rows.           *)
Reads(c) ==
  /\ UNCHANGED <<table, locks, want, pend>>
  /\ DOMAIN pc' = Clients /\ DOMAIN def' = Clients /\ DOMAIN answer' = Clients
  /\ DOMAIN def'[c] = DOMAIN def[c] /\ def'[c].started = def[c].started
  /\ \A d \in Clients \ {c} : pc'[d] = pc[d] /\ def'[d] = def[d] /\ answer'[d] = answer[d]

LEMMA ReadsInv ==
  ASSUME IInv, NEW c \in Clients, Reads(c), ClientOK(c)'
  PROVE  IInv'
<1>1. Typed'
  BY DEF Reads, IInv, Typed, IsRow, table, locks
<1>2. LocksExclude' /\ PendApart'
  BY DEF Reads, IInv, LocksExclude, Conflict, PendApart, locks
<1>3. Elsewhere(c)
  BY DEF Reads, Elsewhere, Stays, locks
<1> QED
  BY <1>1, <1>2, <1>3, QuietStep DEF Reads

LEMMA LoadVersionInv ==
  ASSUME IInv, NEW c \in Clients, LoadVersion(c)
  PROVE  IInv'
<1> DEFINE v == want[c].version
<1>1. pc[c] = "row" /\ want[c].op \in {"get", "start", "clone"} /\ v \in Versions
      /\ want[c] \in Request
  BY OpsAt, RequestFields DEF LoadVersion, IInv, ClientOK
<1>2. Reads(c) /\ def'[c].row = versions[v] /\ pc'[c] = "nodes" /\ UNCHANGED answer
  BY <1>1 DEF LoadVersion, Reads, Proceed, Goto, After, IInv, Typed
<1>3. ClientOK(c)'
  BY <1>1, <1>2
  DEF Reads, IInv, table, locks, ClientOK, Placed, Labels, ReplaceOK, PublishOK, CloneOK, ReadOK,
      NumberOK, PendOK, HoldersKnown
<1> QED
  BY <1>2, <1>3, ReadsInv

LEMMA LoadNodesInv ==
  ASSUME IInv, NEW c \in Clients, LoadNodes(c)
  PROVE  IInv'
<1> DEFINE v == want[c].version
<1>1. pc[c] = "nodes" /\ want[c].op \in {"get", "start", "clone", "publish"} /\ v \in Versions
      /\ want[c] \in Request
  BY OpsAt, RequestFields DEF LoadNodes, IInv, ClientOK
<1>2. /\ Reads(c) /\ def'[c].nodes = nodes[v] /\ def'[c].row = def[c].row
      /\ pc'[c] = "edges" /\ UNCHANGED answer
  BY <1>1 DEF LoadNodes, Reads, Proceed, Goto, After, IInv, Typed
<1>3. ClientOK(c)'
  BY <1>1, <1>2
  DEF Reads, IInv, table, locks, ClientOK, Placed, Labels, ReplaceOK, PublishOK, CloneOK, ReadOK,
      NumberOK, PendOK, HoldersKnown, HoldsDraft, NodesCurrent, IsRow
<1> QED
  BY <1>2, <1>3, ReadsInv

LEMMA LoadEdgesInv ==
  ASSUME IInv, NEW c \in Clients, LoadEdges(c)
  PROVE  IInv'
<1> DEFINE v == want[c].version
<1>1. pc[c] = "edges" /\ want[c].op \in {"get", "start", "clone", "publish"} /\ v \in Versions
      /\ want[c] \in Request
  BY OpsAt, RequestFields DEF LoadEdges, IInv, ClientOK
<1>2. /\ Reads(c) /\ def'[c].edges = edges[v]
      /\ def'[c].row = def[c].row /\ def'[c].nodes = def[c].nodes
      /\ pc'[c] = After[want[c].op]["edges"]
      /\ answer'[c] = IF want[c].op = "get" THEN "OK" ELSE answer[c]
  BY <1>1 DEF LoadEdges, Reads, Proceed, Goto, IInv, Typed
<1>3. /\ want[c].op = "get" => pc'[c] = "answered"
      /\ want[c].op = "start" => pc'[c] = "start"
      /\ want[c].op = "clone" => pc'[c] = "lockPlaybook"
      /\ want[c].op = "publish" => pc'[c] = "flip"
  BY <1>2 DEF After
<1>4. ClientOK(c)'
  <2>1. /\ ClientOK(c)
        /\ versions' = versions /\ nodes' = nodes /\ edges' = edges /\ pend' = pend
        /\ vlock' = vlock /\ plock' = plock /\ want' = want
    BY <1>2 DEF IInv, Reads, table, locks
  <2>2. Placed(c)' /\ HoldersKnown(c)' /\ NumberOK(c)' /\ PendOK(c)'
    BY <1>1, <1>2, <1>3, <2>1
    DEF Reads, ClientOK, Placed, Labels, HoldersKnown, NumberOK, PendOK
  <2>3. ReplaceOK(c)' /\ PublishOK(c)'
    BY <1>1, <1>2, <1>3, <2>1
    DEF ClientOK, ReplaceOK, PublishOK, HoldsDraft, NodesCurrent, EdgesCurrent, IsRow
  <2>4. CloneOK(c)' /\ ReadOK(c)'
    BY <1>1, <1>2, <1>3, <2>1 DEF ClientOK, CloneOK, ReadOK, NodesCurrent, EdgesCurrent
  <2> QED
    BY <2>2, <2>3, <2>4 DEF ClientOK
<1> QED
  BY <1>2, <1>4, ReadsInv


----------------------------------------------------------------------------
(* Statements that write.                                                  *)

(* The number after 1..k is k + 1.                                         *)
LEMMA NextNumber ==
  ASSUME IInv, NEW p \in playbooks
  PROVE  /\ Cardinality(VersionsOf(p)) \in Nat
         /\ NextVersionNumber(p) = Cardinality(VersionsOf(p)) + 1
         /\ \A v \in VersionsOf(p) : versions[v].number < NextVersionNumber(p)
<1> DEFINE k == Cardinality(VersionsOf(p))
           S == {versions[v].number : v \in VersionsOf(p)}
<1>1. IsFiniteSet(VersionsOf(p)) /\ S = 1..k
  BY DEF IInv, Numbered
<1>2. k \in Nat
  BY <1>1, FS_CardinalityType
<1>3. S \cup {0} = 0..k
  BY <1>1, <1>2
<1>4. Max(S \cup {0}) = k
  <2>1. k \in 0..k /\ \A y \in 0..k : k >= y
    BY <1>2
  <2>2. \A x \in 0..k : (\A y \in 0..k : x >= y) => x = k
    BY <1>2
  <2> QED
    BY <1>3, <2>1, <2>2 DEF Max
<1>5. NextVersionNumber(p) = k + 1
  BY <1>4 DEF NextVersionNumber
<1>6. \A v \in VersionsOf(p) : versions[v].number \in S
  OBVIOUS
<1> QED
  BY <1>1, <1>2, <1>5, <1>6

(* A statement that writes rows, or takes the key share, and moves on.     *)
MovesOn(c, label) ==
  /\ UNCHANGED <<table, vlock, want, def, answer>>
  /\ pc' = [pc EXCEPT ![c] = label]
  /\ \A d \in Clients \ {c} : pend'[d] = pend[d]
  /\ DOMAIN pend' = Clients
  /\ DOMAIN plock' = Playbooks /\ \A p \in Playbooks : DOMAIN plock'[p] = Clients
  /\ \A d \in Clients \ {c}, p \in Playbooks : plock'[p][d] = plock[p][d]

LEMMA MovesOnInv ==
  ASSUME IInv, NEW c \in Clients, NEW label, MovesOn(c, label),
         LocksExclude', PendApart', ClientOK(c)'
  PROVE  IInv'
<1>1. Typed'
  BY DEF MovesOn, IInv, Typed, IsRow, table
<1>2. Elsewhere(c)
  BY DEF MovesOn, Elsewhere, Stays, IInv, Typed
<1> QED
  BY <1>1, <1>2, QuietStep DEF MovesOn

(* The row r and the rows g of a graph may be those of the version v that  *)
(* c creates or whose graph it replaces.                                   *)
MayWrite(c, v, r, g) ==
  /\ v \in Versions
  /\ IsRow(r) /\ r.status = "draft"
  /\ DOMAIN g = {"root", "nodes", "edges"}
  /\ Apart(RowIDs(g), v)
  /\ want[c].op = "replace" =>
       v = want[c].version /\ r.playbook = def[c].row.playbook /\ r.number = def[c].row.number
  /\ want[c].op = "create" =>
       /\ versions[v] = NoVersion /\ r.playbook \notin playbooks /\ r.number = 1
       /\ \A d \in Clients \ {c} : pend[d] # NoWrite /\ want[d].op \in CreatesVersion
            => pend[d].version # v /\ pend[d].row.playbook # r.playbook

(* At the statements of Create and ReplaceGraph that write.                *)
LEMMA Writer ==
  ASSUME IInv, NEW c \in Clients, pc[c] \in {"create", "clear", "rows", "root"}
  PROVE  /\ want[c] \in Request /\ want[c].op \in {"create", "replace"}
         /\ want[c].graph \in InputGraphs
         /\ want[c].op = "replace" => want[c].version \in Versions /\ HoldsDraft(c)
         /\ \A p \in Playbooks : plock[p][c] # "update"
         /\ ClientOK(c)
<1>1. ClientOK(c)
  BY DEF IInv
<1>2. want[c] \in Request /\ want[c].op \in {"create", "replace"}
      /\ (pc[c] = "create" => want[c].op = "create")
  BY <1>1, OpsAt DEF ClientOK
<1> QED
  BY <1>1, <1>2, RequestFields DEF ClientOK, Placed, ReplaceOK, HoldersKnown

(* Every such statement keeps the invariant.                               *)
LEMMA WritesInv ==
  ASSUME IInv, NEW c \in Clients, pc[c] \in {"create", "clear", "rows", "root"},
         NEW label \in {"rows", "root", "commit"}, MovesOn(c, label),
         NEW v, NEW r, NEW g, NEW x, MayWrite(c, v, r, g),
         pend'[c] = [version |-> v, row |-> r, graph |-> g, next |-> x],
         label = "rows" => x \in RowIDs(want[c].graph),
         LocksExclude', \A p \in Playbooks : plock'[p][c] # "update"
  PROVE  IInv'
<1>1. /\ want[c] \in Request /\ want[c].op \in {"create", "replace"}
      /\ want[c].graph \in InputGraphs
      /\ want[c].op = "replace" => want[c].version \in Versions /\ HoldsDraft(c)
      /\ ClientOK(c)
  BY Writer
<1>2. /\ playbooks' = playbooks /\ versions' = versions /\ want' = want /\ def' = def
      /\ answer' = answer /\ vlock' = vlock /\ pc'[c] = label
  BY DEF MovesOn, table, IInv, Typed
<1>3. /\ pend'[c].version = v /\ pend'[c].row = r /\ pend'[c].graph = g /\ pend'[c].next = x
      /\ pend'[c] # NoWrite
  BY DEF NoWrite, NoVersion, IsRow, MayWrite
<1>4. PendApart'
  <2>1. \A d \in Clients \ {c} : pend'[d] = pend[d] /\ want'[d] = want[d]
    BY <1>2 DEF MovesOn
  <2> QED
    BY <1>1, <1>2, <1>3, <2>1 DEF IInv, PendApart, MayWrite, CreatesVersion
<1>5. ClientOK(c)'
  <2>1. Placed(c)'
    BY <1>1, <1>2 DEF ClientOK, Placed, Labels
  <2>2. HoldersKnown(c)'
    BY <1>1, <1>2 DEF ClientOK, HoldersKnown
  <2>3. PendOK(c)'
    BY <1>1, <1>2, <1>3 DEF PendOK, MayWrite, IsRow, Apart
  <2>4. ReplaceOK(c)'
    BY <1>1, <1>2 DEF ReplaceOK, HoldsDraft, IsRow
  <2>5. PublishOK(c)' /\ CloneOK(c)' /\ ReadOK(c)' /\ NumberOK(c)'
    BY <1>1, <1>2 DEF PublishOK, CloneOK, ReadOK, NumberOK
  <2> QED
    BY <2>1, <2>2, <2>3, <2>4, <2>5 DEF ClientOK
<1> QED
  BY <1>4, <1>5, MovesOnInv

(* Some rows are in, and the next one goes out.                            *)
LEMMA WriteRowsInv ==
  ASSUME IInv, NEW c \in Clients, pc[c] \in {"create", "clear", "rows"},
         NEW v, NEW r, NEW g, MayWrite(c, v, r, g), WriteRows(c, v, r, g),
         UNCHANGED <<table, vlock, want, def, answer>>,
         DOMAIN plock' = Playbooks, \A p \in Playbooks : DOMAIN plock'[p] = Clients,
         \A d \in Clients \ {c}, p \in Playbooks : plock'[p][d] = plock[p][d],
         LocksExclude', \A p \in Playbooks : plock'[p][c] # "update"
  PROVE  IInv'
<1>1. PICK x, label : /\ Write(c, v, r, g, x) /\ Goto(c, label) /\ label \in {"rows", "root"}
                      /\ label = "rows" => x \in RowIDs(want[c].graph)
  <2>1. RowsLeft(want[c].graph, g) \subseteq RowIDs(want[c].graph)
    BY DEF RowsLeft, RowIDs
  <2>2. CASE RowsLeft(want[c].graph, g) = {}
    BY <2>2 DEF WriteRows
  <2>3. CASE RowsLeft(want[c].graph, g) # {}
    <3>1. PICK x \in RowsLeft(want[c].graph, g) : Write(c, v, r, g, x) /\ Goto(c, "rows")
      BY <2>3 DEF WriteRows
    <3> QED
      BY <2>1, <3>1
  <2> QED
    BY <2>2, <2>3
<1>2. /\ MovesOn(c, label)
      /\ pend'[c] = [version |-> v, row |-> r, graph |-> g, next |-> x]
  BY <1>1 DEF MovesOn, Write, Goto, IInv, Typed
<1> QED
  BY <1>1, <1>2, WritesInv

LEMMA CreatePlaybookInv ==
  ASSUME IInv, NEW c \in Clients, CreatePlaybook(c)
  PROVE  IInv'
<1>1. PICK v \in FreeVersions, p \in FreePlaybooks :
        /\ pc[c] = "create"
        /\ WriteRows(c, v, [playbook |-> p, number |-> 1, status |-> "draft", root |-> NoNode],
                     EmptyGraph)
        /\ UNCHANGED <<table, locks, want, def, answer>>
  BY DEF CreatePlaybook
<1> DEFINE r == [playbook |-> p, number |-> 1, status |-> "draft", root |-> NoNode]
<1>2. want[c].op = "create" /\ \A q \in Playbooks : plock[q][c] # "update"
  BY <1>1, OpsAt, Writer DEF IInv, ClientOK
<1>3. /\ v \in Versions /\ versions[v] = NoVersion
      /\ p \in Playbooks /\ p \notin playbooks
      /\ \A d \in Clients : pend[d] # NoWrite => pend[d].version # v /\ pend[d].row.playbook # p
  BY DEF FreeVersions, FreePlaybooks
<1>4. IsRow(r) /\ r.status = "draft" /\ r.number = 1 /\ r.playbook = p
  BY <1>3 DEF IsRow
<1>5. DOMAIN EmptyGraph = {"root", "nodes", "edges"} /\ Apart(RowIDs(EmptyGraph), v)
  BY DEF EmptyGraph, NoRows, RowIDs, NodeIDs, EdgeIDs, Apart
<1>6. MayWrite(c, v, r, EmptyGraph)
  BY <1>2, <1>3, <1>4, <1>5 DEF MayWrite
<1>7. /\ LocksExclude' /\ plock' = plock
      /\ DOMAIN plock' = Playbooks /\ \A q \in Playbooks : DOMAIN plock'[q] = Clients
      /\ UNCHANGED <<table, vlock, want, def, answer>>
  BY <1>1 DEF IInv, Typed, LocksExclude, Conflict, locks
<1> HIDE DEF r
<1>8. WriteRows(c, v, r, EmptyGraph)
  BY <1>1 DEF r
<1> QED
  BY <1>1, <1>2, <1>6, <1>7, <1>8, WriteRowsInv


(* Under the playbook lock nobody else is about to add a version to it.    *)
LEMMA NobodyElseInserts ==
  ASSUME IInv, NEW c \in Clients, NEW p \in playbooks, plock[p][c] = "update",
         NEW d \in Clients \ {c}, pend[d] # NoWrite, want[d].op # "replace"
  PROVE  pend[d].row.playbook # p
<1>1. ClientOK(d) /\ p \in Playbooks
  BY DEF IInv, Typed
<1>2. /\ want[d].op \in {"create", "draft", "clone"}
      /\ want[d].op # "create" => pc[d] = "commit"
  BY <1>1, OpsAt DEF ClientOK, PendOK
<1>3. CASE want[d].op = "create"
  BY <1>1, <1>3 DEF ClientOK, PendOK
<1>4. CASE want[d].op \in {"draft", "clone"}
  <2>1. pend[d].row.playbook = want[d].playbook /\ plock[want[d].playbook][d] = "update"
    BY <1>1, <1>2, <1>4 DEF ClientOK, PendOK, NumberOK
  <2>2. ~Conflict(plock[p][c], plock[p][d])
    BY <1>1 DEF IInv, LocksExclude
  <2> QED
    BY <2>1, <2>2 DEF Conflict
<1> QED
  BY <1>2, <1>3, <1>4

(* So the next number is free.                                             *)
LEMMA NumberFree ==
  ASSUME IInv, NEW c \in Clients, NEW p \in playbooks, plock[p][c] = "update"
  PROVE  ~NumberTaken(c, p, NextVersionNumber(p))
<1> SUFFICES ASSUME NEW d \in Clients \ {c}, pend[d] # NoWrite, pend[d].row.playbook = p,
                    pend[d].row.number = NextVersionNumber(p)
             PROVE  FALSE
  <2>1. \A v \in VersionsOf(p) : versions[v].number # NextVersionNumber(p)
    <3> SUFFICES ASSUME NEW v \in VersionsOf(p) PROVE versions[v].number # NextVersionNumber(p)
      OBVIOUS
    <3>1. versions[v].number \in Nat
      BY DEF VersionsOf, IInv, Typed, IsRow
    <3> QED
      BY <3>1, NextNumber
  <2> QED
    BY <2>1 DEF NumberTaken
<1>1. ClientOK(d)
  BY DEF IInv
<1>2. want[d].op = "replace"
  BY NobodyElseInserts
<1>3. pc[d] \in {"rows", "root", "commit"} /\ want[d].version \in Versions
  BY <1>1, <1>2, OpsAt, RequestFields DEF ClientOK, PendOK
<1>4. HoldsDraft(d) /\ pend[d].row.playbook = def[d].row.playbook
      /\ pend[d].row.number = def[d].row.number
  BY <1>1, <1>2, <1>3 DEF ClientOK, PendOK, ReplaceOK
<1>5. want[d].version \in VersionsOf(p) /\ versions[want[d].version].number \in Nat
  BY <1>3, <1>4 DEF HoldsDraft, VersionsOf, IsRow, NoVersion
<1> QED
  BY <1>4, <1>5, NextNumber DEF HoldsDraft

(* What cloneGraph makes for the version v.                                *)
LEMMA CloneApart ==
  ASSUME NEW g, NEW v
  PROVE  \A x \in RowIDs(CloneGraph(g, v)) : x[1] = v
BY DEF RowIDs, CloneGraph, CloneId, NodeIDs, EdgeIDs

(* The ids of a clone are nobody's.                                        *)
LEMMA CloneIdsFree ==
  ASSUME IInv, NEW v \in Versions, NEW g
  PROVE  ~IdTaken(CloneGraph(g, v), v) /\ ~IdTaken(EmptyGraph, v)
<1>1. \A x \in RowIDs(CloneGraph(g, v)), w \in Versions \ {v} :
        x \notin DOMAIN nodes[w] /\ x \notin DOMAIN edges[w]
  BY CloneApart DEF IInv, IdsApart, Apart
<1>2. ~IdTaken(CloneGraph(g, v), v)
  BY <1>1 DEF IdTaken, NodeTaken, EdgeTaken, RowIDs
<1>3. ~IdTaken(EmptyGraph, v)
  BY DEF IdTaken, EmptyGraph, NoRows, NodeIDs, EdgeIDs
<1> QED
  BY <1>2, <1>3

LEMMA InsertVersionInv ==
  ASSUME IInv, NEW c \in Clients, InsertVersion(c)
  PROVE  IInv'
<1> DEFINE p == want[c].playbook
           n == NextVersionNumber(p)
           g(v) == IF want[c].op = "clone" THEN CloneGraph(GraphRead(c), v) ELSE EmptyGraph
           r(v) == [playbook |-> p, number |-> n, status |-> "draft", root |-> g(v).root]
           wrong == want[c].op = "clone" /\ def[c].row.playbook # p
<1>1. /\ pc[c] = "insert" /\ want[c].op \in {"draft", "clone"} /\ want[c] \in Request
      /\ ClientOK(c) /\ p \in Playbooks
  BY OpsAt, RequestFields DEF InsertVersion, IInv, ClientOK
<1>2. plock[p][c] = "update" /\ p \in playbooks
  BY <1>1 DEF ClientOK, NumberOK
<1>3. ~NumberTaken(c, p, n)
  BY <1>2, NumberFree
<1>4. \A v \in FreeVersions : ~IdTaken(g(v), v)
  BY CloneIdsFree DEF FreeVersions
<1>5. PICK v \in FreeVersions :
        \/ wrong /\ Rollback(c, "VALIDATION_FAILED")
        \/ /\ ~wrong
           /\ Write(c, v, r(v), g(v), NoRow) /\ Proceed(c)
           /\ UNCHANGED <<table, locks, want, def, answer>>
  BY <1>3, <1>4 DEF InsertVersion
<1>6. CASE wrong /\ Rollback(c, "VALIDATION_FAILED")
  BY <1>1, <1>6, RollbackInv
<1>7. CASE /\ ~wrong
           /\ Write(c, v, r(v), g(v), NoRow) /\ Proceed(c)
           /\ UNCHANGED <<table, locks, want, def, answer>>
  <2>1. After[want[c].op][pc[c]] = "commit"
    BY <1>1 DEF After
  <2>2. /\ MovesOn(c, "commit") /\ pc'[c] = "commit"
        /\ pend'[c] = [version |-> v, row |-> r(v), graph |-> g(v), next |-> NoRow]
    BY <1>7, <2>1 DEF MovesOn, Write, Proceed, Goto, locks, IInv, Typed
  <2>3. /\ v \in Versions /\ versions[v] = NoVersion
        /\ \A d \in Clients : pend[d] # NoWrite => pend[d].version # v
    BY DEF FreeVersions
  <2>4. n \in Nat
    BY <1>2, NextNumber
  <2>5. IsRow(r(v)) /\ r(v).status = "draft" /\ r(v).number = n /\ r(v).playbook = p
        /\ r(v).root = g(v).root
    BY <1>1, <2>4 DEF IsRow
  <2>6. /\ pend'[c].version = v /\ pend'[c].row = r(v) /\ pend'[c].graph = g(v)
        /\ pend'[c] # NoWrite
    BY <2>2, <2>5 DEF NoWrite, NoVersion, IsRow
  <2>7. LocksExclude'
    BY <1>7 DEF IInv, LocksExclude, locks, Conflict
  <2>8. PendApart'
    <3>1. \A d \in Clients \ {c} : pend'[d] = pend[d] /\ want'[d] = want[d]
      BY <2>2 DEF MovesOn
    <3>2. \A d \in Clients \ {c} : pend[d] # NoWrite /\ want[d].op \in CreatesVersion
            => pend[d].row.playbook # p
      BY <1>2, NobodyElseInserts DEF CreatesVersion
    <3> QED
      BY <2>3, <2>5, <2>6, <3>1, <3>2 DEF IInv, PendApart
  <2>9. ClientOK(c)'
    <3>1. /\ playbooks' = playbooks /\ versions' = versions /\ nodes' = nodes /\ edges' = edges
          /\ want' = want /\ def' = def /\ answer' = answer /\ vlock' = vlock /\ plock' = plock
      BY <1>7 DEF table, locks
    <3>2. NextVersionNumber(p)' = n
      BY <3>1 DEF NextVersionNumber, VersionsOf
    <3>3. Placed(c)' /\ HoldersKnown(c)' /\ NumberOK(c)'
      BY <1>1, <2>2, <3>1 DEF ClientOK, Placed, Labels, HoldersKnown, NumberOK
    <3>4. ReplaceOK(c)' /\ PublishOK(c)' /\ ReadOK(c)'
      BY <1>1, <3>1 DEF ReplaceOK, PublishOK, ReadOK
    <3>5. PendOK(c)'
      <4>1. DOMAIN g(v) = {"root", "nodes", "edges"} /\ Apart(RowIDs(g(v)), v)
        <5>1. CASE want[c].op = "clone"
          <6>1. g(v) = CloneGraph(GraphRead(c), v)
            BY <5>1
          <6>2. DOMAIN CloneGraph(GraphRead(c), v) = {"root", "nodes", "edges"}
            BY DEF CloneGraph
          <6>3. Apart(RowIDs(CloneGraph(GraphRead(c), v)), v)
            BY CloneApart DEF Apart
          <6> QED
            BY <6>1, <6>2, <6>3
        <5>2. CASE want[c].op # "clone"
          BY <5>2 DEF EmptyGraph, NoRows, RowIDs, NodeIDs, EdgeIDs, Apart
        <5> QED
          BY <5>1, <5>2
      <4> HIDE DEF g
      <4> QED
        BY <1>1, <2>2, <2>3, <2>5, <2>6, <3>1, <3>2, <4>1 DEF PendOK, IsRow, Apart
    <3>6. CloneOK(c)'
      <4> SUFFICES ASSUME want[c].op = "clone" PROVE CloneOK(c)'
        BY <3>1 DEF CloneOK
      <4>1. /\ vlock[want[c].version][c] = "share" /\ versions[want[c].version] # NoVersion
            /\ def[c].row = versions[want[c].version] /\ NodesCurrent(c) /\ EdgesCurrent(c)
        BY <1>1 DEF ClientOK, CloneOK
      <4>2. def[c].row.playbook = p /\ g(v) = CloneGraph(GraphRead(c), v)
        BY <1>7
      <4>3. want[c].version \in Versions \ {v}
        BY <1>1, <2>3, <4>1, RequestFields
      <4>4. NodeIDs(g(v)) \cap DOMAIN nodes[want[c].version] = {}
        BY <1>4, <4>3 DEF IdTaken, NodeTaken
      <4>5. GraphRead(c)' = GraphRead(c)
        BY <3>1 DEF GraphRead
      <4> HIDE DEF g
      <4> QED
        BY <2>2, <2>5, <2>6, <3>1, <4>1, <4>2, <4>4, <4>5 DEF CloneOK, NodesCurrent, EdgesCurrent
    <3> QED
      BY <3>3, <3>4, <3>5, <3>6 DEF ClientOK
  <2> QED
    BY <1>1, <2>2, <2>7, <2>8, <2>9, MovesOnInv
<1> QED
  BY <1>5, <1>6, <1>7


LEMMA KeyShared ==
  ASSUME IInv, NEW c \in Clients, HoldsDraft(c), KeyShare(c), UNCHANGED vlock
  PROVE  /\ DOMAIN plock' = Playbooks /\ \A p \in Playbooks : DOMAIN plock'[p] = Clients
         /\ \A d \in Clients \ {c}, p \in Playbooks : plock'[p][d] = plock[p][d]
         /\ \A p \in Playbooks : plock'[p][c] \in {plock[p][c], "keyshare"}
         /\ LocksExclude'
<1> DEFINE q == def[c].row.playbook
<1>1. q \in Playbooks
  BY DEF HoldsDraft, IsRow
<1>2. Grantable(plock[q], c, "keyshare") /\ plock' = [plock EXCEPT ![q][c] = "keyshare"]
  BY DEF KeyShare
<1>3. /\ DOMAIN plock' = Playbooks /\ \A p \in Playbooks : DOMAIN plock'[p] = Clients
      /\ \A d \in Clients \ {c}, p \in Playbooks : plock'[p][d] = plock[p][d]
      /\ \A p \in Playbooks : p # q => plock'[p] = plock[p]
      /\ plock'[q][c] = "keyshare"
  BY <1>1, <1>2 DEF IInv, Typed
<1>4. LocksExclude'
  BY <1>1, <1>2, <1>3 DEF IInv, LocksExclude, Conflict, Grantable
<1> QED
  BY <1>3, <1>4

LEMMA ClearGraphInv ==
  ASSUME IInv, NEW c \in Clients, ClearGraph(c)
  PROVE  IInv'
<1> DEFINE v == want[c].version
           r == [def[c].row EXCEPT !.root = NoNode]
<1>1. /\ pc[c] = "clear" /\ (KeyShare(c) \/ UNCHANGED plock)
      /\ WriteRows(c, v, r, EmptyGraph)
      /\ UNCHANGED <<table, vlock, want, def, answer>>
  BY DEF ClearGraph
<1>2. want[c].op = "replace" /\ v \in Versions /\ HoldsDraft(c)
      /\ \A q \in Playbooks : plock[q][c] # "update"
  BY <1>1, OpsAt, Writer DEF IInv, ClientOK
<1>3. /\ IsRow(r) /\ r.status = "draft"
      /\ r.playbook = def[c].row.playbook /\ r.number = def[c].row.number
  BY <1>2 DEF HoldsDraft, IsRow
<1>4. DOMAIN EmptyGraph = {"root", "nodes", "edges"} /\ Apart(RowIDs(EmptyGraph), v)
  BY DEF EmptyGraph, NoRows, RowIDs, NodeIDs, EdgeIDs, Apart
<1>5. MayWrite(c, v, r, EmptyGraph)
  BY <1>2, <1>3, <1>4 DEF MayWrite
<1>6. /\ DOMAIN plock' = Playbooks /\ \A p \in Playbooks : DOMAIN plock'[p] = Clients
      /\ \A d \in Clients \ {c}, p \in Playbooks : plock'[p][d] = plock[p][d]
      /\ LocksExclude' /\ \A p \in Playbooks : plock'[p][c] # "update"
  <2>1. CASE KeyShare(c)
    BY <1>1, <1>2, <2>1, KeyShared
  <2>2. CASE UNCHANGED plock
    BY <1>1, <1>2, <2>2 DEF IInv, Typed, LocksExclude, Conflict
  <2> QED
    BY <1>1, <2>1, <2>2
<1> HIDE DEF r
<1> QED
  BY <1>1, <1>5, <1>6, WriteRowsInv

(* What a request has written so far it may write, and a row more.         *)
LEMMA MayWriteOn ==
  ASSUME IInv, NEW c \in Clients, pc[c] \in {"rows", "root"},
         NEW r, IsRow(r), r.status = "draft", r.playbook = pend[c].row.playbook,
         r.number = pend[c].row.number,
         NEW g, DOMAIN g = {"root", "nodes", "edges"},
         RowIDs(g) \subseteq RowIDs(pend[c].graph) \cup RowIDs(want[c].graph)
  PROVE  MayWrite(c, pend[c].version, r, g)
<1>1. /\ want[c].op \in {"create", "replace"} /\ want[c].graph \in InputGraphs
      /\ PendOK(c) /\ pend[c] # NoWrite
  BY Writer DEF ClientOK, PendOK
<1>2. Apart(RowIDs(g), pend[c].version)
  BY <1>1, CloneIdsApart DEF PendOK, Apart, RowIDs
<1>3. want[c].op = "create" =>
        \A d \in Clients \ {c} : pend[d] # NoWrite /\ want[d].op \in CreatesVersion
          => pend[d].version # pend[c].version /\ pend[d].row.playbook # pend[c].row.playbook
  BY <1>1 DEF IInv, PendApart, CreatesVersion
<1> QED
  BY <1>1, <1>2, <1>3 DEF MayWrite, PendOK

(* One more row goes in, and no lock with it.                              *)
LEMMA RowInv ==
  ASSUME IInv, NEW c \in Clients, pc[c] = "rows",
         NEW g, DOMAIN g = {"root", "nodes", "edges"},
         RowIDs(g) \subseteq RowIDs(pend[c].graph) \cup RowIDs(want[c].graph),
         WriteRows(c, pend[c].version, pend[c].row, g),
         UNCHANGED <<table, locks, want, def, answer>>
  PROVE  IInv'
<1>1. /\ ClientOK(c) /\ pend[c] # NoWrite /\ IsRow(pend[c].row) /\ pend[c].row.status = "draft"
      /\ \A p \in Playbooks : plock[p][c] # "update"
  BY Writer DEF ClientOK, PendOK
<1>2. /\ LocksExclude' /\ plock' = plock
      /\ DOMAIN plock' = Playbooks /\ \A q \in Playbooks : DOMAIN plock'[q] = Clients
      /\ UNCHANGED <<table, vlock, want, def, answer>>
  BY DEF IInv, Typed, LocksExclude, Conflict, locks
<1>3. PICK v, r : v = pend[c].version /\ r = pend[c].row
  OBVIOUS
<1>4. MayWrite(c, v, r, g)
  BY <1>1, <1>3, MayWriteOn
<1> QED
  BY <1>1, <1>2, <1>3, <1>4, WriteRowsInv

LEMMA InsertNodeInv ==
  ASSUME IInv, NEW c \in Clients, InsertNode(c)
  PROVE  IInv'
<1> DEFINE w == want[c].graph
           n == pend[c].next
           g == pend[c].graph
           h == [root  |-> NoNode, edges |-> g.edges,
                 nodes |-> [m \in NodeIDs(g) \cup {n} |-> w.nodes[m]]]
<1>1. pc[c] = "rows" /\ n \in NodesLeft(c)
  BY DEF InsertNode
<1>2. want[c].op \in {"create", "replace"}
  BY <1>1, Writer
<1>3. CASE Rollback(c, "VALIDATION_FAILED")
  BY <1>1, <1>2, <1>3, RollbackInv
<1>4. CASE /\ WriteRows(c, pend[c].version, pend[c].row, h)
           /\ UNCHANGED <<table, locks, want, def, answer>>
  <2>1. DOMAIN h = {"root", "nodes", "edges"}
    OBVIOUS
  <2>2. RowIDs(h) \subseteq RowIDs(g) \cup RowIDs(w)
    BY <1>1 DEF RowIDs, NodeIDs, EdgeIDs, NodesLeft
  <2> HIDE DEF h
  <2> QED
    BY <1>1, <1>4, <2>1, <2>2, RowInv
<1> QED
  BY <1>3, <1>4 DEF InsertNode

LEMMA InsertEdgeInv ==
  ASSUME IInv, NEW c \in Clients, InsertEdge(c)
  PROVE  IInv'
<1> DEFINE w == want[c].graph
           e == pend[c].next
           g == pend[c].graph
           h == [root  |-> NoNode, nodes |-> g.nodes,
                 edges |-> [f \in EdgeIDs(g) \cup {e} |-> w.edges[f]]]
<1>1. pc[c] = "rows"
  BY DEF InsertEdge
<1>2. want[c].op \in {"create", "replace"} /\ e \in RowIDs(w)
  BY <1>1, Writer DEF ClientOK, PendOK
<1>3. CASE Rollback(c, "VALIDATION_FAILED")
  BY <1>1, <1>2, <1>3, RollbackInv
<1>4. CASE /\ WriteRows(c, pend[c].version, pend[c].row, h)
           /\ UNCHANGED <<table, locks, want, def, answer>>
  <2>1. DOMAIN h = {"root", "nodes", "edges"}
    OBVIOUS
  <2>2. RowIDs(h) \subseteq RowIDs(g) \cup RowIDs(w)
    BY <1>2 DEF RowIDs, NodeIDs, EdgeIDs
  <2> HIDE DEF h
  <2> QED
    BY <1>1, <1>4, <2>1, <2>2, RowInv
<1> QED
  BY <1>3, <1>4 DEF InsertEdge

LEMMA SetRootInv ==
  ASSUME IInv, NEW c \in Clients, SetRoot(c)
  PROVE  IInv'
<1> DEFINE r == [pend[c].row EXCEPT !.root = want[c].graph.root]
           g == [pend[c].graph EXCEPT !.root = want[c].graph.root]
<1>1. /\ pc[c] = "root" /\ want[c].op \in {"create", "replace"}
      /\ ClientOK(c) /\ pend[c] # NoWrite
      /\ \A p \in Playbooks : plock[p][c] # "update"
      /\ want[c].op = "replace" => HoldsDraft(c)
  BY Writer DEF SetRoot, ClientOK, PendOK
<1>2. CASE Rollback(c, "VALIDATION_FAILED")
  BY <1>1, <1>2, RollbackInv
<1>3. CASE /\ IF RechecksPlaybook(c) THEN KeyShare(c) ELSE UNCHANGED plock
           /\ Write(c, pend[c].version, r, g, NoRow)
           /\ Proceed(c)
           /\ UNCHANGED <<table, vlock, want, def, answer>>
  <2>1. /\ DOMAIN plock' = Playbooks /\ \A p \in Playbooks : DOMAIN plock'[p] = Clients
        /\ \A d \in Clients \ {c}, p \in Playbooks : plock'[p][d] = plock[p][d]
        /\ LocksExclude' /\ \A p \in Playbooks : plock'[p][c] # "update"
    <3>1. CASE RechecksPlaybook(c)
      BY <1>1, <1>3, <3>1, KeyShared DEF RechecksPlaybook
    <3>2. CASE ~RechecksPlaybook(c)
      BY <1>1, <1>3, <3>2 DEF IInv, Typed, LocksExclude, Conflict
    <3> QED
      BY <3>1, <3>2
  <2>2. After[want[c].op][pc[c]] = "commit"
    BY <1>1 DEF After
  <2>3. /\ IsRow(pend[c].row) /\ pend[c].row.status = "draft"
        /\ DOMAIN pend[c].graph = {"root", "nodes", "edges"}
    BY <1>1 DEF ClientOK, PendOK
  <2>4. /\ IsRow(r) /\ r.status = "draft" /\ r.playbook = pend[c].row.playbook
        /\ r.number = pend[c].row.number
        /\ DOMAIN g = {"root", "nodes", "edges"} /\ RowIDs(g) = RowIDs(pend[c].graph)
    BY <2>3 DEF IsRow, RowIDs, NodeIDs, EdgeIDs
  <2>5. /\ MovesOn(c, "commit")
        /\ pend'[c] = [version |-> pend[c].version, row |-> r, graph |-> g, next |-> NoRow]
    BY <1>3, <2>1, <2>2 DEF MovesOn, Write, Proceed, Goto, IInv, Typed
  <2> HIDE DEF r, g
  <2>6. MayWrite(c, pend[c].version, r, g)
    BY <1>1, <2>4, MayWriteOn
  <2>7. PICK v : v = pend[c].version
    OBVIOUS
  <2> QED
    BY <1>1, <2>1, <2>5, <2>6, <2>7, WritesInv
<1> QED
  BY <1>2, <1>3 DEF SetRoot

LEMMA FlipStatusInv ==
  ASSUME IInv, NEW c \in Clients, FlipStatus(c)
  PROVE  IInv'
<1>1. /\ pc[c] = "flip" /\ want[c].op = "publish" /\ want[c] \in Request
      /\ want[c].version \in Versions
      /\ ClientOK(c) /\ HoldsDraft(c) /\ pend[c] = NoWrite
  BY OpsAt, RequestFields DEF FlipStatus, IInv, ClientOK, PublishOK, PendOK
<1>2. CASE ~Publishable(GraphRead(c))
  BY <1>1, <1>2, RollbackInv DEF FlipStatus
<1>3. CASE Publishable(GraphRead(c))
  <2>1. KeyShare(c) /\ Proceed(c) /\ UNCHANGED <<table, vlock, want, def, pend, answer>>
    BY <1>3 DEF FlipStatus
  <2>2. After[want[c].op][pc[c]] = "commit"
    BY <1>1 DEF After
  <2>3. MovesOn(c, "commit") /\ pc'[c] = "commit"
    BY <1>1, <2>1, <2>2, KeyShared DEF MovesOn, Proceed, Goto, IInv, Typed
  <2>4. LocksExclude' /\ PendApart'
    BY <1>1, <2>1, KeyShared DEF IInv, PendApart
  <2>5. /\ versions' = versions /\ nodes' = nodes /\ edges' = edges /\ pend' = pend
        /\ want' = want /\ def' = def /\ answer' = answer /\ vlock' = vlock
    BY <2>1 DEF table
  <2>6. ClientOK(c)'
    <3>1. Placed(c)' /\ HoldersKnown(c)' /\ PendOK(c)'
      BY <1>1, <2>3, <2>5 DEF ClientOK, Placed, Labels, HoldersKnown, PendOK
    <3>2. PublishOK(c)'
      BY <1>1, <1>3, <2>5 DEF ClientOK, PublishOK, HoldsDraft, NodesCurrent, EdgesCurrent, IsRow,
                              GraphRead
    <3>3. ReplaceOK(c)' /\ CloneOK(c)' /\ ReadOK(c)' /\ NumberOK(c)'
      BY <1>1, <2>5 DEF ReplaceOK, CloneOK, ReadOK, NumberOK
    <3> QED
      BY <3>1, <3>2, <3>3 DEF ClientOK
  <2> QED
    BY <1>1, <2>3, <2>4, <2>6, MovesOnInv
<1> QED
  BY <1>2, <1>3

----------------------------------------------------------------------------
(* Service.Start.                                                          *)

(* What StartInvestigation inserts is what InvestigationEngine assumes:    *)
(* the row was published when it was read, so it still is, with the graph  *)
(* that was read after it.                                                 *)
LEMMA StartsOnPublished ==
  ASSUME IInv, NEW c \in Clients, pc[c] = "start", StartCode(c) = "OK"
  PROVE  LET v == NewInvestigation(c).version
         IN  v \in Versions /\ RunsOn(NewInvestigation(c), versions[v], GraphAt(v))
<1> DEFINE v == want[c].version
           i == NewInvestigation(c)
<1>1. want[c].op = "start" /\ v \in Versions /\ ClientOK(c)
  BY OpsAt, RequestFields DEF IInv, ClientOK
<1>2. def[c].row.status = "published" /\ TypeOf[def[c].row.playbook] = want[c].alert
  BY DEF StartCode
<1>3. def[c].row = versions[v] /\ def[c].nodes = nodes[v] /\ def[c].edges = edges[v]
  BY <1>1, <1>2 DEF ClientOK, ReadOK, NodesCurrent, EdgesCurrent
<1>4. Publishable(GraphAt(v))
  BY <1>1, <1>2, <1>3 DEF IInv, PublishedIsPublishable
<1>5. /\ GraphAt(v).root = versions[v].root /\ GraphAt(v).nodes = nodes[v]
      /\ GraphAt(v).root \in NodeIDs(GraphAt(v))
  BY <1>4 DEF GraphAt, Publishable, RootUsable
<1>6. WellFormedNode(GraphAt(v), GraphAt(v).root)
  BY <1>4, <1>5 DEF Publishable
<1>7. /\ i.version = v /\ i.alert = want[c].alert /\ i.current = versions[v].root
      /\ i.status = "completed" <=> nodes[v][versions[v].root].kind = KindTerminal
      /\ i.resolution = IF nodes[v][versions[v].root].kind = KindTerminal
                        THEN nodes[v][versions[v].root].resolution ELSE NoResolution
  BY <1>3 DEF NewInvestigation
<1>8. nodes[v][versions[v].root].kind # KindTerminal
        => nodes[v][versions[v].root].resolution = NoResolution
  BY <1>5, <1>6 DEF WellFormedNode
<1> QED
  BY <1>1, <1>2, <1>3, <1>4, <1>5, <1>7, <1>8 DEF RunsOn

LEMMA StartInvestigationInv ==
  ASSUME IInv, NEW c \in Clients, NEW code \in {"OK", "INTERNAL_ERROR"},
         StartInvestigation(c, code)
  PROVE  IInv'
<1>1. /\ pc[c] = "start" /\ StartCode(c) = "OK" /\ want[c].op = "start"
      /\ want[c] \in Request /\ ClientOK(c)
  BY OpsAt DEF StartInvestigation, IInv, ClientOK
<1>2. /\ def'[c].started = NewInvestigation(c) /\ DOMAIN def'[c] = DOMAIN def[c]
      /\ def'[c].row = def[c].row /\ def'[c].nodes = def[c].nodes /\ def'[c].edges = def[c].edges
      /\ DOMAIN def' = Clients /\ DOMAIN pc' = Clients /\ DOMAIN answer' = Clients
      /\ pc'[c] = "answered" /\ answer'[c] = code
      /\ \A d \in Clients \ {c} : def'[d] = def[d] /\ pc'[d] = pc[d] /\ answer'[d] = answer[d]
      /\ UNCHANGED <<table, locks, want, pend>>
  BY DEF StartInvestigation, Answer, Goto, IInv, Typed
<1>3. /\ playbooks' = playbooks /\ versions' = versions /\ nodes' = nodes /\ edges' = edges
      /\ vlock' = vlock /\ plock' = plock /\ want' = want /\ pend' = pend
  BY <1>2 DEF table, locks
<1>4. Typed' /\ LocksExclude' /\ PendApart' /\ Numbered' /\ PublishedIsPublishable' /\ IdsApart'
  <2>1. Typed' /\ LocksExclude'
    BY <1>2, <1>3 DEF IInv, Typed, IsRow, LocksExclude, Conflict
  <2>2. PendApart'
    BY <1>3 DEF IInv, PendApart
  <2>3. Numbered'
    <3>1. Numbered /\ \A p : VersionsOf(p)' = VersionsOf(p)
      BY <1>3 DEF IInv, VersionsOf
    <3> QED
      BY <1>3, <3>1 DEF Numbered
  <2>4. PublishedIsPublishable' /\ IdsApart'
    BY <1>3 DEF IInv, PublishedIsPublishable, GraphAt, IdsApart
  <2> QED
    BY <2>1, <2>2, <2>3, <2>4
<1>5. \A v : GraphAt(v)' = GraphAt(v)
  BY <1>3 DEF GraphAt
<1>6. ASSUME NEW d \in Clients, def'[d].started # NoInvestigation, NEW v,
             v = def'[d].started.version
      PROVE  v \in Versions /\ RunsOn(def'[d].started, versions[v], GraphAt(v))
  <2>1. CASE d = c
    BY <1>1, <1>2, <1>6, <2>1, StartsOnPublished
  <2>2. CASE d # c
    BY <1>2, <1>6, <2>2 DEF IInv, Running
  <2> QED
    BY <2>1, <2>2
<1>7. Running'
  BY <1>3, <1>5, <1>6 DEF Running, GraphAt
<1>8. ClientOK(c)'
  <2>1. Placed(c)' /\ HoldersKnown(c)' /\ PendOK(c)'
    BY <1>1, <1>2, <1>3 DEF ClientOK, Placed, HoldersKnown, PendOK
  <2>2. ReplaceOK(c)' /\ PublishOK(c)' /\ CloneOK(c)' /\ NumberOK(c)'
    BY <1>1, <1>3 DEF ReplaceOK, PublishOK, CloneOK, NumberOK
  <2>3. ReadOK(c)'
    BY <1>1, <1>2, <1>3 DEF ClientOK, ReadOK, NodesCurrent, EdgesCurrent
  <2> QED
    BY <2>1, <2>2, <2>3 DEF ClientOK
<1>9. Elsewhere(c)
  BY <1>2 DEF Elsewhere, Stays, locks
<1>10. \A d \in Clients : ClientOK(d)'
  BY <1>2, <1>8, <1>9, ClientStays DEF IInv, Elsewhere
<1> QED
  BY <1>4, <1>7, <1>10 DEF IInv


----------------------------------------------------------------------------
(* Commits.                                                                *)

(* The rows of the version x change, and x was not published.              *)
ChangesOnly(x) ==
  /\ versions[x].status # "published"
  /\ DOMAIN versions' = Versions /\ DOMAIN nodes' = Versions /\ DOMAIN edges' = Versions
  /\ \A w \in Versions \ {x} :
       versions'[w] = versions[w] /\ nodes'[w] = nodes[w] /\ edges'[w] = edges[w]

(* Nobody but the committing client c has a claim on the version x, nor on *)
(* the numbers of the playbook it belongs to.                              *)
Unclaimed(c, x) ==
  \A d \in Clients \ {c} :
    /\ vlock[x][d] = "none" \/ versions[x] = NoVersion
    /\ pend[d] # NoWrite /\ want[d].op \in CreatesVersion =>
         /\ pend[d].version # x
         /\ \A p \in Playbooks : p = pend[d].row.playbook =>
              /\ p \in playbooks' => p \in playbooks
              /\ NextVersionNumber(p)' = NextVersionNumber(p)

LEMMA CommitLeavesOthers ==
  ASSUME IInv, NEW c \in Clients, NEW x \in Versions, NEW d \in Clients \ {c},
         ChangesOnly(x), Unclaimed(c, x), Elsewhere(c),
         playbooks \subseteq playbooks'
  PROVE  ClientOK(d)'
<1>1. /\ pc'[d] = pc[d] /\ want'[d] = want[d] /\ def'[d] = def[d]
      /\ pend'[d] = pend[d] /\ answer'[d] = answer[d]
      /\ \A v \in Versions : vlock'[v][d] = vlock[v][d]
      /\ \A p \in Playbooks : plock'[p][d] = plock[p][d]
      /\ ClientOK(d)
  BY DEF Elsewhere, Stays, IInv
<1>2. /\ versions[x].status # "published"
      /\ \A w \in Versions \ {x} :
           versions'[w] = versions[w] /\ nodes'[w] = nodes[w] /\ edges'[w] = edges[w]
      /\ vlock[x][d] = "none" \/ versions[x] = NoVersion
  BY DEF ChangesOnly, Unclaimed
<1>3. Placed(d)' /\ HoldersKnown(d)'
  BY <1>1 DEF ClientOK, Placed, HoldersKnown
<1>4. want[d].op \in {"replace", "publish", "clone", "get", "start"} /\ pc[d] # "idle"
        => want[d].version \in Versions
  BY <1>1, RequestFields DEF ClientOK, Placed
<1>5. want[d].op \in {"draft", "clone"} /\ pc[d] \notin {"idle", "answered"}
        => want[d].playbook \in Playbooks
  BY <1>1, OpsAt, RequestFields DEF ClientOK
<1>6. HoldsDraft(d) => want[d].version # x
  BY <1>2 DEF HoldsDraft, IsRow, NoVersion
<1>7. ReplaceOK(d)' /\ PublishOK(d)'
  BY <1>1, <1>2, <1>4, <1>6
  DEF ClientOK, ReplaceOK, PublishOK, HoldsDraft, NodesCurrent, EdgesCurrent, IsRow, GraphRead
<1>8. CloneOK(d)'
  BY <1>1, <1>2, <1>4 DEF ClientOK, CloneOK, NodesCurrent, EdgesCurrent, GraphRead
<1>9. ReadOK(d)'
  <2>1. want[d].op \in {"get", "start"} /\ (answer[d] = "OK" \/ pc[d] # "idle")
          => want[d].version \in Versions
    BY <1>1, <1>4 DEF ClientOK, Placed
  <2> QED
    BY <1>1, <1>2, <2>1 DEF ClientOK, ReadOK, NodesCurrent, EdgesCurrent
<1>10. NumberOK(d)'
  BY <1>1, <1>5 DEF ClientOK, NumberOK
<1>11. PendOK(d)'
  <2>1. CASE pend[d] = NoWrite
    BY <1>1, <2>1 DEF ClientOK, PendOK
  <2>2. CASE pend[d] # NoWrite
    <3>1. want[d].op \in {"create", "draft", "clone", "replace"}
      BY <1>1, <2>2, OpsAt DEF ClientOK, PendOK
    <3>2. want[d].op # "replace" =>
            /\ versions'[pend[d].version] = versions[pend[d].version]
            /\ pend[d].row.playbook \in playbooks' => pend[d].row.playbook \in playbooks
      BY <1>1, <1>2, <2>2, <3>1 DEF ClientOK, PendOK, Unclaimed, CreatesVersion, IsRow
    <3>3. want[d].op \in {"draft", "clone"} =>
            /\ pend[d].row.playbook = want[d].playbook
            /\ pend[d].row.playbook \in Playbooks
      BY <1>1, <2>2 DEF ClientOK, PendOK, IsRow
    <3>4. want[d].op \in {"draft", "clone"} =>
            NextVersionNumber(want[d].playbook)' = NextVersionNumber(want[d].playbook)
      <4>1. \A p \in Playbooks : want[d].op \in {"draft", "clone"} /\ p = pend[d].row.playbook
              => NextVersionNumber(p)' = NextVersionNumber(p)
        BY <2>2 DEF Unclaimed, CreatesVersion
      <4> QED
        BY <1>1, <3>3, <4>1
    <3> QED
      BY <1>1, <3>1, <3>2, <3>4 DEF ClientOK, PendOK, IsRow
  <2> QED
    BY <2>1, <2>2
<1> QED
  BY <1>3, <1>7, <1>8, <1>9, <1>10, <1>11 DEF ClientOK


(* A commit keeps the invariant if what it makes visible is in order.      *)
LEMMA CommitKeeps ==
  ASSUME IInv, NEW c \in Clients, NEW code \in {"OK", "INTERNAL_ERROR"}, Commit(c, code),
         NEW x \in Versions, ChangesOnly(x), Unclaimed(c, x),
         playbooks \subseteq playbooks', playbooks' \subseteq Playbooks,
         IsRow(versions'[x]), Numbered', Apart(DOMAIN nodes'[x] \cup DOMAIN edges'[x], x),
         versions'[x].status = "published" => Publishable(GraphAt(x)')
  PROVE  IInv'
<1>1. pc[c] = "commit" /\ EndTransaction(c) /\ UNCHANGED <<want, def>>
  BY DEF Commit
<1>2. /\ DOMAIN pc' = Clients /\ DOMAIN answer' = Clients
      /\ pc'[c] = "answered" /\ answer'[c] = code
      /\ \A d \in Clients \ {c} : pc'[d] = pc[d] /\ answer'[d] = answer[d]
  BY DEF Commit, Answer, Goto, IInv, Typed
<1>3. want[c] \in Request /\ want[c].op \notin {"get", "start"}
  BY <1>1, OpsAt DEF IInv, ClientOK
<1>4. Typed' /\ IdsApart'
  <2>1. \A v \in Versions : versions'[v] = NoVersion \/ IsRow(versions'[v])
    BY DEF ChangesOnly, IInv, Typed
  <2>2. IdsApart'
    BY DEF ChangesOnly, IInv, IdsApart, Apart
  <2> QED
    BY <1>1, <1>2, <2>1, <2>2, EndedTransaction DEF IInv, Typed, IsRow, ChangesOnly
<1>5. LocksExclude'
  BY <1>1, EndedTransaction
<1>6. PendApart'
  BY <1>1, EndedTransaction DEF IInv, PendApart
<1>7. Elsewhere(c)
  BY <1>1, <1>2, EndedTransaction DEF Elsewhere, Stays
<1>8. ClientOK(c)'
  BY <1>1, <1>2, <1>3, EndedTransaction, AnsweredOK
<1>9. \A d \in Clients : ClientOK(d)'
  BY <1>7, <1>8, CommitLeavesOthers
<1>10. \A w \in Versions \ {x} : versions'[w] = versions[w] /\ GraphAt(w)' = GraphAt(w)
  BY DEF ChangesOnly, GraphAt
<1>11. PublishedIsPublishable'
  BY <1>10 DEF IInv, PublishedIsPublishable
<1>12. Running'
  <2>1. \A d \in Clients : def'[d].started = def[d].started
    BY <1>1
  <2>2. \A d \in Clients : def[d].started # NoInvestigation =>
          def[d].started.version \in Versions \ {x}
    BY DEF IInv, Running, RunsOn, ChangesOnly
  <2> QED
    BY <2>1, <2>2 DEF IInv, Running, ChangesOnly, GraphAt
<1> QED
  BY <1>4, <1>5, <1>6, <1>9, <1>11, <1>12 DEF IInv

(* While the owner and the number of every version stay, so do the counts. *)
LEMMA SameNumbers ==
  ASSUME IInv, NEW x \in Versions, ChangesOnly(x), UNCHANGED playbooks,
         IsRow(versions[x]), IsRow(versions'[x]),
         versions'[x].playbook = versions[x].playbook, versions'[x].number = versions[x].number
  PROVE  /\ Numbered'
         /\ \A p : NextVersionNumber(p)' = NextVersionNumber(p)
<1>1. \A v \in Versions :
        /\ versions'[v] # NoVersion <=> versions[v] # NoVersion
        /\ versions[v] # NoVersion =>
             versions'[v].playbook = versions[v].playbook /\ versions'[v].number = versions[v].number
  BY DEF ChangesOnly, IsRow, NoVersion
<1>2. \A p : VersionsOf(p)' = VersionsOf(p)
  BY <1>1 DEF VersionsOf
<1>3. \A p : \A v \in VersionsOf(p) : versions'[v].number = versions[v].number
  BY <1>1 DEF VersionsOf
<1>4. \A p : {versions'[v].number : v \in VersionsOf(p)'} = {versions[v].number : v \in VersionsOf(p)}
  BY <1>2, <1>3
<1>5. Numbered'
  BY <1>1, <1>2, <1>4 DEF IInv, Numbered
<1>6. \A p : NextVersionNumber(p)' = NextVersionNumber(p)
  BY <1>4 DEF NextVersionNumber
<1> QED
  BY <1>5, <1>6

(* FOR UPDATE leaves nobody else with a claim.                             *)
LEMMA DraftUnclaimed ==
  ASSUME IInv, NEW c \in Clients, want[c].version \in Versions, HoldsDraft(c),
         UNCHANGED playbooks, \A p : NextVersionNumber(p)' = NextVersionNumber(p)
  PROVE  Unclaimed(c, want[c].version)
<1> DEFINE x == want[c].version
<1> SUFFICES ASSUME NEW d \in Clients \ {c}
             PROVE  /\ vlock[x][d] = "none"
                    /\ pend[d] # NoWrite /\ want[d].op \in CreatesVersion => pend[d].version # x
  BY DEF Unclaimed
<1>1. vlock[x][c] = "update" /\ versions[x] # NoVersion
  BY DEF HoldsDraft, IsRow, NoVersion
<1>2. vlock[x][d] = "none"
  BY <1>1 DEF IInv, LocksExclude, Conflict
<1>3. pend[d] # NoWrite /\ want[d].op \in CreatesVersion => versions[pend[d].version] = NoVersion
  BY DEF IInv, ClientOK, PendOK, CreatesVersion
<1> QED
  BY <1>1, <1>2, <1>3

LEMMA CommitPublishInv ==
  ASSUME IInv, NEW c \in Clients, NEW code \in {"OK", "INTERNAL_ERROR"}, Commit(c, code),
         CommitPublish(c)
  PROVE  IInv' /\ ChangesOnly(want[c].version) /\ Unclaimed(c, want[c].version)
<1>1. pc[c] = "commit" /\ want[c].op = "publish" /\ ClientOK(c) /\ want[c].version \in Versions
  BY OpsAt, RequestFields DEF Commit, CommitPublish, IInv, ClientOK
<1> PICK x \in Versions : x = want[c].version
  BY <1>1
<1>2. /\ HoldsDraft(c) /\ NodesCurrent(c) /\ EdgesCurrent(c) /\ Publishable(GraphRead(c))
  BY <1>1 DEF ClientOK, PublishOK
<1>3. /\ versions' = [versions EXCEPT ![x].status = "published"]
      /\ UNCHANGED <<playbooks, nodes, edges>>
  BY DEF CommitPublish
<1>4. IsRow(versions[x]) /\ versions[x].status = "draft"
  BY <1>2 DEF HoldsDraft
<1>5. /\ IsRow(versions'[x]) /\ versions'[x].status = "published"
      /\ versions'[x].playbook = versions[x].playbook /\ versions'[x].number = versions[x].number
      /\ versions'[x].root = versions[x].root
  BY <1>1, <1>3, <1>4 DEF IsRow, IInv, Typed
<1>6. ChangesOnly(x)
  BY <1>1, <1>3, <1>4 DEF ChangesOnly, IInv, Typed
<1>7. Numbered' /\ \A p : NextVersionNumber(p)' = NextVersionNumber(p)
  BY <1>1, <1>3, <1>4, <1>5, <1>6, SameNumbers
<1>8. Unclaimed(c, x)
  BY <1>1, <1>2, <1>3, <1>7, DraftUnclaimed
<1>9. GraphAt(x)' = GraphRead(c)
  BY <1>2, <1>3, <1>5 DEF GraphAt, GraphRead, HoldsDraft, NodesCurrent, EdgesCurrent
<1>10. playbooks' \subseteq Playbooks /\ playbooks \subseteq playbooks'
  BY <1>3 DEF IInv, Typed
<1>11. Apart(DOMAIN nodes'[x] \cup DOMAIN edges'[x], x)
  BY <1>3 DEF IInv, IdsApart
<1> QED
  BY <1>1, <1>2, <1>5, <1>6, <1>7, <1>8, <1>9, <1>10, <1>11, CommitKeeps

LEMMA CommitReplaceInv ==
  ASSUME IInv, NEW c \in Clients, NEW code \in {"OK", "INTERNAL_ERROR"}, Commit(c, code),
         CommitReplace(c)
  PROVE  IInv' /\ ChangesOnly(want[c].version) /\ Unclaimed(c, want[c].version)
<1>1. pc[c] = "commit" /\ want[c].op = "replace" /\ ClientOK(c) /\ want[c].version \in Versions
  BY OpsAt, RequestFields DEF Commit, CommitReplace, IInv, ClientOK
<1> PICK x \in Versions : x = want[c].version
  BY <1>1
<1>2. HoldsDraft(c)
  BY <1>1 DEF ClientOK, ReplaceOK
<1>3. /\ versions' = [versions EXCEPT ![x].root = pend[c].graph.root]
      /\ nodes' = [nodes EXCEPT ![x] = pend[c].graph.nodes]
      /\ edges' = [edges EXCEPT ![x] = pend[c].graph.edges]
      /\ UNCHANGED playbooks
  BY DEF CommitReplace
<1>4. IsRow(versions[x]) /\ versions[x].status = "draft"
  BY <1>2 DEF HoldsDraft
<1>5. /\ IsRow(versions'[x]) /\ versions'[x].status = "draft"
      /\ versions'[x].playbook = versions[x].playbook /\ versions'[x].number = versions[x].number
  BY <1>1, <1>3, <1>4 DEF IsRow, IInv, Typed
<1>6. ChangesOnly(x)
  BY <1>1, <1>3, <1>4 DEF ChangesOnly, IInv, Typed
<1>7. Numbered' /\ \A p : NextVersionNumber(p)' = NextVersionNumber(p)
  BY <1>1, <1>3, <1>4, <1>5, <1>6, SameNumbers
<1>8. Unclaimed(c, x)
  BY <1>1, <1>2, <1>3, <1>7, DraftUnclaimed
<1>9. playbooks' \subseteq Playbooks /\ playbooks \subseteq playbooks'
  BY <1>3 DEF IInv, Typed
<1>10. Apart(DOMAIN nodes'[x] \cup DOMAIN edges'[x], x)
  <2>1. pend[c] # NoWrite /\ Apart(RowIDs(pend[c].graph), x)
    BY <1>1 DEF ClientOK, PendOK
  <2> QED
    BY <1>3, <2>1 DEF IInv, Typed, RowIDs, NodeIDs, EdgeIDs
<1> QED
  BY <1>1, <1>5, <1>6, <1>7, <1>8, <1>9, <1>10, CommitKeeps


(* An insert adds one version to one playbook.                             *)
LEMMA CommitInsertFacts ==
  ASSUME IInv, NEW c \in Clients, NEW code, Commit(c, code), CommitInsert(c),
         NEW x, x = pend[c].version, NEW p, p = pend[c].row.playbook
  PROVE  /\ x \in Versions /\ p \in Playbooks /\ versions[x] = NoVersion
         /\ IsRow(versions'[x]) /\ versions'[x] = pend[c].row /\ versions'[x].status = "draft"
         /\ ChangesOnly(x)
         /\ playbooks' = playbooks \cup {p}
         /\ \A q : q # p => VersionsOf(q)' = VersionsOf(q)
         /\ VersionsOf(p)' = VersionsOf(p) \cup {x}
         /\ x \notin VersionsOf(p)
         /\ want[c].op \in CreatesVersion /\ pend[c] # NoWrite
<1>1. pc[c] = "commit" /\ want[c].op \in CreatesVersion /\ ClientOK(c)
  BY DEF Commit, CommitInsert, IInv
<1>2. pend[c] # NoWrite
  BY <1>1 DEF ClientOK, PendOK, CreatesVersion
<1>3. /\ x \in Versions /\ IsRow(pend[c].row) /\ pend[c].row.status = "draft"
      /\ versions[x] = NoVersion /\ p \in Playbooks
  BY <1>1, <1>2 DEF ClientOK, PendOK, CreatesVersion, IsRow
<1>4. /\ versions' = [versions EXCEPT ![x] = pend[c].row]
      /\ nodes' = [nodes EXCEPT ![x] = pend[c].graph.nodes]
      /\ edges' = [edges EXCEPT ![x] = pend[c].graph.edges]
      /\ playbooks' = playbooks \cup {p}
  BY DEF CommitInsert
<1>5. versions'[x] = pend[c].row /\ ChangesOnly(x)
  BY <1>3, <1>4 DEF ChangesOnly, NoVersion, IInv, Typed
<1>6. versions'[x] # NoVersion /\ versions'[x].playbook = p
  BY <1>3, <1>5 DEF IsRow, NoVersion
<1>7. \A q : q # p => VersionsOf(q)' = VersionsOf(q)
  BY <1>3, <1>5, <1>6 DEF VersionsOf, ChangesOnly
<1>8. VersionsOf(p)' = VersionsOf(p) \cup {x} /\ x \notin VersionsOf(p)
  BY <1>3, <1>5, <1>6 DEF VersionsOf, ChangesOnly
<1> QED
  BY <1>1, <1>2, <1>3, <1>4, <1>5, <1>7, <1>8 DEF IsRow

(* Its ids are its own.                                                    *)
LEMMA CommitInsertApart ==
  ASSUME IInv, NEW c \in Clients, NEW code, Commit(c, code), CommitInsert(c),
         NEW x \in Versions, x = pend[c].version
  PROVE  Apart(DOMAIN nodes'[x] \cup DOMAIN edges'[x], x)
<1>1. pc[c] = "commit" /\ want[c].op \in CreatesVersion /\ ClientOK(c)
  BY DEF Commit, CommitInsert, IInv
<1>2. Apart(RowIDs(pend[c].graph), x)
  BY <1>1 DEF ClientOK, PendOK, CreatesVersion
<1>3. nodes'[x] = pend[c].graph.nodes /\ edges'[x] = pend[c].graph.edges
  BY DEF CommitInsert, IInv, Typed
<1> QED
  BY <1>2, <1>3 DEF RowIDs, NodeIDs, EdgeIDs

(* The number a new version gets is one past the count.                    *)
LEMMA InsertNumber ==
  ASSUME IInv, NEW c \in Clients, pend[c] # NoWrite, want[c].op \in CreatesVersion,
         NEW p, p = pend[c].row.playbook
  PROVE  /\ IsFiniteSet(VersionsOf(p)) /\ Cardinality(VersionsOf(p)) \in Nat
         /\ pend[c].row.number = Cardinality(VersionsOf(p)) + 1
         /\ {versions[v].number : v \in VersionsOf(p)} = 1..Cardinality(VersionsOf(p))
<1>1. ClientOK(c) /\ (want[c].op # "create" => pc[c] = "commit")
  BY OpsAt DEF IInv, ClientOK, PendOK, CreatesVersion
<1>2. CASE want[c].op = "create"
  <2>1. p \notin playbooks /\ pend[c].row.number = 1
    BY <1>1, <1>2 DEF ClientOK, PendOK
  <2>2. VersionsOf(p) = {}
    BY <2>1 DEF IInv, Numbered, VersionsOf
  <2>3. Cardinality(VersionsOf(p)) = 0 /\ IsFiniteSet(VersionsOf(p))
    BY <2>2, FS_EmptySet
  <2>4. {versions[v].number : v \in VersionsOf(p)} = {}
    BY <2>2
  <2>5. 1..Cardinality(VersionsOf(p)) = {}
    BY <2>3
  <2>6. {versions[v].number : v \in VersionsOf(p)} = 1..Cardinality(VersionsOf(p))
    BY <2>4, <2>5, Zenon
  <2>7. Cardinality(VersionsOf(p)) \in Nat /\ pend[c].row.number = Cardinality(VersionsOf(p)) + 1
    BY <2>1, <2>3
  <2> QED
    BY <2>3, <2>6, <2>7
<1>3. CASE want[c].op \in {"draft", "clone"}
  <2>1. p \in playbooks /\ pend[c].row.number = NextVersionNumber(p)
    BY <1>1, <1>3 DEF ClientOK, PendOK, NumberOK
  <2> QED
    BY <2>1, NextNumber DEF IInv, Numbered
<1> QED
  BY <1>2, <1>3 DEF CreatesVersion

LEMMA InsertNumbered ==
  ASSUME IInv, NEW c \in Clients, NEW code, Commit(c, code), CommitInsert(c)
  PROVE  Numbered'
<1>0. PICK x, p : x = pend[c].version /\ p = pend[c].row.playbook
  OBVIOUS
<1>1. /\ x \in Versions /\ p \in Playbooks /\ versions[x] = NoVersion
      /\ versions'[x] = pend[c].row /\ ChangesOnly(x)
      /\ playbooks' = playbooks \cup {p}
      /\ \A q : q # p => VersionsOf(q)' = VersionsOf(q)
      /\ VersionsOf(p)' = VersionsOf(p) \cup {x} /\ x \notin VersionsOf(p)
      /\ want[c].op \in CreatesVersion /\ pend[c] # NoWrite
  BY <1>0, CommitInsertFacts
<1>2. PICK k \in Nat : k = Cardinality(VersionsOf(p))
  BY <1>0, <1>1, InsertNumber
<1>3. /\ IsFiniteSet(VersionsOf(p)) /\ pend[c].row.number = k + 1
      /\ {versions[v].number : v \in VersionsOf(p)} = 1..k
  BY <1>0, <1>1, <1>2, InsertNumber
<1>4. IsFiniteSet(VersionsOf(p)') /\ Cardinality(VersionsOf(p)') = k + 1 /\ VersionsOf(p)' # {}
  BY <1>1, <1>2, <1>3, FS_AddElement
<1>5. {versions'[v].number : v \in VersionsOf(p)'} = 1..(k + 1)
  <2>1. \A v \in VersionsOf(p) : versions'[v].number = versions[v].number
    BY <1>1 DEF ChangesOnly, VersionsOf
  <2>2. {versions'[v].number : v \in VersionsOf(p)'}
          = {versions[v].number : v \in VersionsOf(p)} \cup {k + 1}
    <3>1. \A v \in VersionsOf(p)' : v = x \/ v \in VersionsOf(p)
      BY <1>1
    <3>2. versions'[x].number = k + 1 /\ x \in VersionsOf(p)' /\ VersionsOf(p) \subseteq VersionsOf(p)'
      BY <1>1, <1>3
    <3> QED
      BY <2>1, <3>1, <3>2
  <2>3. 1..(k + 1) = (1..k) \cup {k + 1}
    OBVIOUS
  <2> QED
    BY <1>3, <2>2, <2>3
<1>6. ASSUME NEW q \in playbooks, q # p
      PROVE  /\ IsFiniteSet(VersionsOf(q)') /\ VersionsOf(q)' # {}
             /\ {versions'[v].number : v \in VersionsOf(q)'} = 1..Cardinality(VersionsOf(q)')
  <2>1. VersionsOf(q)' = VersionsOf(q)
    BY <1>1, <1>6
  <2>2. \A v \in VersionsOf(q) : versions'[v].number = versions[v].number
    BY <1>1 DEF ChangesOnly, VersionsOf
  <2>3. {versions'[v].number : v \in VersionsOf(q)'} = {versions[v].number : v \in VersionsOf(q)}
    BY <2>1, <2>2
  <2> QED
    BY <2>1, <2>3 DEF IInv, Numbered
<1>7. \A v \in Versions : versions'[v] # NoVersion => versions'[v].playbook \in playbooks'
  BY <1>0, <1>1 DEF ChangesOnly, IInv, Numbered
<1> QED
  BY <1>1, <1>2, <1>4, <1>5, <1>6, <1>7 DEF Numbered

LEMMA CommitInsertInv ==
  ASSUME IInv, NEW c \in Clients, NEW code \in {"OK", "INTERNAL_ERROR"}, Commit(c, code),
         CommitInsert(c)
  PROVE  IInv' /\ ChangesOnly(pend[c].version) /\ Unclaimed(c, pend[c].version)
<1>0. PICK x, p : x = pend[c].version /\ p = pend[c].row.playbook
  OBVIOUS
<1>1. /\ x \in Versions /\ p \in Playbooks /\ versions[x] = NoVersion
      /\ IsRow(versions'[x]) /\ versions'[x].status = "draft" /\ ChangesOnly(x)
      /\ playbooks' = playbooks \cup {p}
      /\ \A q : q # p => VersionsOf(q)' = VersionsOf(q)
      /\ want[c].op \in CreatesVersion /\ pend[c] # NoWrite
  BY <1>0, CommitInsertFacts
<1>2. \A q : q # p => NextVersionNumber(q)' = NextVersionNumber(q)
  <2> SUFFICES ASSUME NEW q, q # p PROVE NextVersionNumber(q)' = NextVersionNumber(q)
    OBVIOUS
  <2>1. VersionsOf(q)' = VersionsOf(q)
    BY <1>1
  <2>2. \A v \in VersionsOf(q) : versions'[v].number = versions[v].number
    BY <1>1 DEF ChangesOnly, VersionsOf
  <2>3. {versions'[v].number : v \in VersionsOf(q)'} = {versions[v].number : v \in VersionsOf(q)}
    BY <2>1, <2>2
  <2> QED
    BY <2>3 DEF NextVersionNumber
<1>3. \A d \in Clients \ {c} : pend[d] # NoWrite /\ want[d].op \in CreatesVersion =>
        pend[d].version # x /\ pend[d].row.playbook # p
  BY <1>0, <1>1 DEF IInv, PendApart
<1>4. Unclaimed(c, x)
  BY <1>1, <1>2, <1>3 DEF Unclaimed
<1>5. Numbered'
  BY InsertNumbered
<1>6. playbooks' \subseteq Playbooks /\ playbooks \subseteq playbooks'
  BY <1>1 DEF IInv, Typed
<1>7. Apart(DOMAIN nodes'[x] \cup DOMAIN edges'[x], x)
  BY <1>0, <1>1, CommitInsertApart
<1> QED
  BY <1>0, <1>1, <1>4, <1>5, <1>6, <1>7, CommitKeeps

LEMMA CommitInv ==
  ASSUME IInv, NEW c \in Clients, NEW code \in {"OK", "INTERNAL_ERROR"}, Commit(c, code)
  PROVE  IInv'
BY CommitPublishInv, CommitReplaceInv, CommitInsertInv DEF Commit

LEMMA UnchangedInv ==
  ASSUME IInv, UNCHANGED vars
  PROVE  IInv'
<1>1. /\ playbooks' = playbooks /\ versions' = versions /\ nodes' = nodes /\ edges' = edges
      /\ vlock' = vlock /\ plock' = plock /\ pc' = pc /\ want' = want /\ def' = def
      /\ pend' = pend /\ answer' = answer
  BY DEF vars, table, locks
<1>2. Typed' /\ LocksExclude'
  BY <1>1 DEF IInv, Typed, IsRow, LocksExclude, Conflict
<1>3. PendApart'
  BY <1>1 DEF IInv, PendApart
<1>4. PublishedIsPublishable' /\ Running' /\ IdsApart'
  BY <1>1 DEF IInv, PublishedIsPublishable, Running, GraphAt, IdsApart
<1>5. Numbered'
  <2>1. Numbered /\ \A p : VersionsOf(p)' = VersionsOf(p)
    BY <1>1 DEF IInv, VersionsOf
  <2> QED
    BY <1>1, <2>1 DEF Numbered
<1>6. \A d \in Clients : ClientOK(d)'
  BY <1>1, ClientStays DEF IInv, Stays, vars
<1> QED
  BY <1>2, <1>3, <1>4, <1>5, <1>6 DEF IInv

----------------------------------------------------------------------------
(* Deadlocks.                                                              *)

(* Who waits for a lock waits for a transaction that has come further:     *)
(* past its version lock, past its playbook lock, or past every lock but   *)
(* ids.                                                                    *)
LEMMA AwaitsForward ==
  ASSUME IInv, NEW c \in Clients, NEW d \in Clients, Awaits(c, d)
  PROVE  /\ pc[c] \in {"lockVersion", "lockSource", "lockPlaybook", "rows", "flip", "root"}
         /\ pc[d] \notin {"lockVersion", "lockSource"}
         /\ pc[c] \in {"lockPlaybook", "rows"} => pc[d] \in {"rows", "root", "insert", "commit"}
         /\ pc[c] \in {"flip", "root"} => pc[d] \in {"insert", "commit"}
<1>1. ClientOK(c) /\ ClientOK(d)
  BY DEF IInv
<1>2. CASE pc[c] \in {"lockVersion", "lockSource"}
  <2>1. want[c].version \in Versions
    BY <1>1, <1>2, OpsAt, RequestFields DEF ClientOK
  <2>2. vlock[want[c].version][d] # "none"
    BY <1>2 DEF Awaits, AwaitsLock, AwaitsId, Conflict
  <2> QED
    BY <1>1, <1>2, <2>1, <2>2 DEF ClientOK, HoldersKnown
<1>3. CASE pc[c] = "lockPlaybook"
  <2>1. want[c].playbook \in Playbooks
    BY <1>1, <1>3, OpsAt, RequestFields DEF ClientOK
  <2>2. plock[want[c].playbook][d] # "none"
    BY <1>3 DEF Awaits, AwaitsLock, AwaitsId, Conflict
  <2> QED
    BY <1>1, <1>3, <2>1, <2>2 DEF ClientOK, HoldersKnown
<1>4. CASE pc[c] \in {"flip", "root"}
  <2>1. /\ plock[def[c].row.playbook][d] = "update"
        /\ pc[c] = "root" => want[c].op = "replace"
    BY <1>4 DEF Awaits, AwaitsLock, AwaitsId, RechecksPlaybook, Conflict
  <2>2. HoldsDraft(c)
    BY <1>1, <1>4, <2>1, OpsAt DEF ClientOK, ReplaceOK, PublishOK
  <2> QED
    BY <1>1, <1>4, <2>1, <2>2 DEF ClientOK, HoldersKnown, HoldsDraft, IsRow
<1>5. CASE pc[c] = "rows"
  <2>1. pend[d] # NoWrite
    BY <1>5 DEF Awaits, AwaitsLock, AwaitsId, NodesHeld, EdgesHeld
  <2> QED
    BY <1>1, <1>5, <2>1 DEF ClientOK, PendOK
<1> QED
  BY <1>2, <1>3, <1>4, <1>5 DEF Awaits, AwaitsLock, AwaitsId

(* A client outside a set that waits only within it is in no deadlock.     *)
LEMMA OutOfDeadlock ==
  ASSUME NEW c \in Clients, NEW S \in SUBSET Clients, c \notin S,
         \A d \in S \cup {c}, e \in Clients : Awaits(d, e) => e \in S
  PROVE  ~Deadlocked(c)
BY DEF Deadlocked

(* So those that are further on than c, at whatever it waits for, wait     *)
(* only for one another, and c is not among them.                          *)
LEMMA DeadlockOverIds ==
  ASSUME IInv, NEW c \in Clients, Deadlocked(c)
  PROVE  pc[c] = "rows"
<1> SUFFICES ASSUME pc[c] # "rows" PROVE FALSE
  OBVIOUS
<1>1. CASE pc[c] \in {"lockVersion", "lockSource"}
  <2>1. PICK S \in SUBSET Clients :
          \A d \in Clients : d \in S <=> pc[d] \notin {"lockVersion", "lockSource"}
    <3> WITNESS {d \in Clients : pc[d] \notin {"lockVersion", "lockSource"}} \in SUBSET Clients
    <3> QED
      OBVIOUS
  <2> QED
    BY <1>1, <2>1, AwaitsForward, OutOfDeadlock
<1>2. CASE pc[c] = "lockPlaybook"
  <2>1. PICK S \in SUBSET Clients :
          \A d \in Clients : d \in S <=> pc[d] \in {"rows", "root", "insert", "commit"}
    <3> WITNESS {d \in Clients : pc[d] \in {"rows", "root", "insert", "commit"}} \in SUBSET Clients
    <3> QED
      OBVIOUS
  <2> QED
    BY <1>2, <2>1, AwaitsForward, OutOfDeadlock
<1>3. CASE pc[c] \in {"flip", "root"}
  <2>1. PICK S \in SUBSET Clients : \A d \in Clients : d \in S <=> pc[d] \in {"insert", "commit"}
    <3> WITNESS {d \in Clients : pc[d] \in {"insert", "commit"}} \in SUBSET Clients
    <3> QED
      OBVIOUS
  <2> QED
    BY <1>3, <2>1, AwaitsForward, OutOfDeadlock
<1>4. CASE pc[c] \notin {"lockVersion", "lockSource", "lockPlaybook", "flip", "root"}
  <2>1. \A e \in Clients : ~Awaits(c, e)
    BY <1>4, AwaitsForward
  <2>2. PICK S \in SUBSET Clients : S = {}
    OBVIOUS
  <2> QED
    BY <2>1, <2>2, OutOfDeadlock
<1> QED
  BY <1>1, <1>2, <1>3, <1>4

----------------------------------------------------------------------------
LEMMA NextInv == IInv /\ [Next]_vars => IInv'
<1> SUFFICES ASSUME IInv, [Next]_vars PROVE IInv'
  OBVIOUS
<1>1. CASE UNCHANGED vars
  BY <1>1, UnchangedInv
<1>2. ASSUME NEW c \in Clients, NEW r \in Request, Submit(c, r) PROVE IInv'
  BY <1>2, SubmitInv
<1>3. ASSUME NEW c \in Clients, VersionNotFound(c) \/ PlaybookNotFound(c) \/ Abort(c) PROVE IInv'
  BY <1>3, RollbackInv DEF VersionNotFound, PlaybookNotFound, Abort
<1>4. ASSUME NEW c \in Clients, StartRefused(c) PROVE IInv'
  <2>1. pc[c] = "start" /\ StartCode(c) \notin {"OK", "CONFLICT"} /\ Rollback(c, StartCode(c))
    BY <1>4 DEF StartRefused, StartCode
  <2>0. want[c].op = "start"
    BY <2>1, OpsAt DEF IInv, ClientOK
  <2>2. PICK code : code = StartCode(c)
    OBVIOUS
  <2> QED
    BY <2>0, <2>1, <2>2, RollbackInv
<1>5. ASSUME NEW c \in Clients, Receive(c) PROVE IInv'
  BY <1>5, ReceiveInv
<1>6. ASSUME NEW c \in Clients, NEW code \in {"OK", "INTERNAL_ERROR"},
             Commit(c, code) \/ StartInvestigation(c, code) PROVE IInv'
  BY <1>6, CommitInv, StartInvestigationInv
<1>7. ASSUME NEW c \in Clients,
             LockVersion(c) \/ LockSource(c) \/ LoadVersion(c) \/ LoadNodes(c) \/ LoadEdges(c)
             \/ LockPlaybook(c) \/ CreatePlaybook(c) \/ InsertVersion(c) \/ FlipStatus(c)
             \/ ClearGraph(c) \/ InsertNode(c) \/ InsertEdge(c) \/ SetRoot(c)
      PROVE IInv'
  BY <1>7, LockVersionInv, LockSourceInv, LoadVersionInv, LoadNodesInv, LoadEdgesInv,
     LockPlaybookInv, CreatePlaybookInv, InsertVersionInv, FlipStatusInv, ClearGraphInv,
     InsertNodeInv, InsertEdgeInv, SetRootInv
<1>8. ASSUME NEW c \in Clients, DeadlockVictim(c) PROVE IInv'
  <2>1. pc[c] = "rows" /\ Rollback(c, "INTERNAL_ERROR")
    BY <1>8, DeadlockOverIds DEF DeadlockVictim
  <2> QED
    BY <2>1, RollbackInv
<1> QED
  BY <1>1, <1>2, <1>3, <1>4, <1>5, <1>6, <1>7, <1>8 DEF Next, Step

LEMMA SpecInv == Spec => []IInv
BY InitInv, NextInv, PTL DEF Spec

----------------------------------------------------------------------------
(* The properties.                                                         *)

(* Whatever edits race with its publication, and however many there are, a *)
(* published version satisfies every publish-time rule.                    *)
THEOREM StorePublishable == Spec => []PublishedIsPublishable
<1>1. IInv => PublishedIsPublishable
  BY DEF IInv
<1> QED
  BY <1>1, SpecInv, PTL

(* A response of GetVersion that says "published" shows the stored graph.  *)
THEOREM StoreReadWhole == Spec => []PublishedReadWhole
<1>1. IInv => PublishedReadWhole
  BY DEF IInv, ClientOK, ReadOK, NodesCurrent, EdgesCurrent, PublishedReadWhole, GraphRead, GraphAt
<1> QED
  BY <1>1, SpecInv, PTL

(* Every investigation runs on a published version that satisfies every    *)
(* rule, on its root, and is of its alert's type: what InvestigationEngine *)
(* assumes of its graphs.                                                  *)
THEOREM StoreStartsSound == Spec => []InvestigationsRunPublished
<1>1. IInv => InvestigationsRunPublished
  BY DEF IInv, Running, RunsOn, InvestigationsRunPublished
<1> QED
  BY <1>1, SpecInv, PTL

(* Versions are numbered 1, 2, ... per playbook without gap or repetition, *)
(* and no request is ever refused for a number that is taken.              *)
THEOREM StoreNumbered == Spec => []VersionsNumbered
<1>1. IInv => VersionsNumbered
  BY DEF IInv, Numbered, ClientOK, Placed, VersionsNumbered
<1> QED
  BY <1>1, SpecInv, PTL

(* Row locks are in no deadlock: only ids that requests share are, which   *)
(* the order of the locks cannot help.                                     *)
THEOREM StoreDeadlocksOnlyOverIds == Spec => []DeadlocksOnlyOverIds
<1>1. IInv => DeadlocksOnlyOverIds
  BY DeadlockOverIds DEF DeadlocksOnlyOverIds
<1> QED
  BY <1>1, SpecInv, PTL

(* A clone is never refused for its ids.                                   *)
THEOREM StoreCloneNeverCollides == Spec => []CloneNeverCollides
<1>1. IInv => CloneNeverCollides
  BY DEF IInv, ClientOK, Placed, CloneNeverCollides
<1> QED
  BY <1>1, SpecInv, PTL

(* Only a commit changes the tables.                                       *)
LEMMA OnlyCommitsChange ==
  ASSUME IInv, [Next]_vars
  PROVE  \/ UNCHANGED table
         \/ \E c \in Clients, code \in {"OK", "INTERNAL_ERROR"} : Commit(c, code)
<1>1. CASE UNCHANGED vars
  BY <1>1 DEF vars
<1>2. ASSUME NEW c \in Clients, NEW r \in Request, Submit(c, r) PROVE UNCHANGED table
  BY <1>2 DEF Submit
<1>3. ASSUME NEW c \in Clients,
             LockVersion(c) \/ LockSource(c) \/ VersionNotFound(c) \/ LoadVersion(c)
             \/ LoadNodes(c) \/ LoadEdges(c) \/ LockPlaybook(c) \/ PlaybookNotFound(c)
             \/ CreatePlaybook(c) \/ FlipStatus(c) \/ StartRefused(c)
             \/ ClearGraph(c) \/ InsertNode(c) \/ InsertEdge(c) \/ SetRoot(c)
             \/ DeadlockVictim(c) \/ Abort(c) \/ Receive(c)
      PROVE  UNCHANGED table
  BY <1>3 DEF LockVersion, LockSource, VersionNotFound, LoadVersion, LoadNodes, LoadEdges,
              LockPlaybook, PlaybookNotFound, CreatePlaybook, FlipStatus, ClearGraph,
              InsertNode, InsertEdge, SetRoot, StartRefused, DeadlockVictim, Abort, Receive,
              Rollback
<1>4. ASSUME NEW c \in Clients, InsertVersion(c) PROVE UNCHANGED table
  BY <1>4 DEF InsertVersion, Rollback
<1>5. ASSUME NEW c \in Clients, NEW code, StartInvestigation(c, code) PROVE UNCHANGED table
  BY <1>5 DEF StartInvestigation
<1> QED
  BY <1>1, <1>2, <1>3, <1>4, <1>5 DEF Next, Step

(* A commit changes one version, which was not published and which no      *)
(* other transaction has a claim on.                                       *)
LEMMA CommitChangesOne ==
  ASSUME IInv, NEW c \in Clients, NEW code \in {"OK", "INTERNAL_ERROR"}, Commit(c, code)
  PROVE  \E x : ChangesOnly(x) /\ Unclaimed(c, x)
BY CommitPublishInv, CommitReplaceInv, CommitInsertInv DEF Commit

(* A published version and its graph never change again.                   *)
THEOREM StoreFrozen == Spec => PublishedFrozen
<1> DEFINE A == \A v \in Versions : versions[v].status = "published"
                  => versions'[v] = versions[v] /\ nodes'[v] = nodes[v] /\ edges'[v] = edges[v]
<1>1. IInv /\ [Next]_vars => A
  <2> SUFFICES ASSUME IInv, [Next]_vars PROVE A
    OBVIOUS
  <2>1. CASE UNCHANGED table
    BY <2>1 DEF table
  <2>2. ASSUME NEW c \in Clients, NEW code \in {"OK", "INTERNAL_ERROR"}, Commit(c, code) PROVE A
    BY <2>2, CommitChangesOne DEF ChangesOnly
  <2> QED
    BY <2>1, <2>2, OnlyCommitsChange
<1> HIDE DEF A
<1>2. Spec => [][A]_vars
  BY <1>1, SpecInv, PTL DEF Spec
<1> QED
  BY <1>2 DEF A, PublishedFrozen

(* A clone is a copy of its source as it stands at the commit, with ids of *)
(* its own and under the same playbook.                                    *)
THEOREM StoreCloneIsCopy == Spec => CloneIsCopy
<1> DEFINE A == \A c \in Clients, v \in Versions :
                  /\ pc[c] = "commit" /\ want[c].op = "clone"
                  /\ v = pend[c].version /\ versions'[v] # NoVersion
                  => /\ GraphAt(v)' = CloneGraph(GraphAt(want[c].version), v)
                     /\ versions'[v].playbook = versions[want[c].version].playbook
                     /\ DOMAIN nodes'[v] \cap DOMAIN nodes[want[c].version] = {}
<1>1. IInv /\ [Next]_vars => A
  <2> SUFFICES ASSUME IInv, [Next]_vars, NEW c \in Clients, NEW v \in Versions,
                      pc[c] = "commit", want[c].op = "clone",
                      v = pend[c].version, versions'[v] # NoVersion
               PROVE  /\ GraphAt(v)' = CloneGraph(GraphAt(want[c].version), v)
                      /\ versions'[v].playbook = versions[want[c].version].playbook
                      /\ DOMAIN nodes'[v] \cap DOMAIN nodes[want[c].version] = {}
    OBVIOUS
  <2>1. /\ ClientOK(c) /\ pend[c] # NoWrite /\ versions[v] = NoVersion
        /\ pend[c].row.playbook = want[c].playbook
        /\ pend[c].row.root = pend[c].graph.root
    BY DEF IInv, ClientOK, PendOK, CloneOK
  <2>2. PICK d \in Clients, code \in {"OK", "INTERNAL_ERROR"} : Commit(d, code)
    BY <2>1, OnlyCommitsChange DEF table
  <2>3. d = c
    <3> SUFFICES ASSUME d # c PROVE FALSE
      OBVIOUS
    <3>1. PICK x : ChangesOnly(x) /\ Unclaimed(d, x)
      BY <2>2, CommitChangesOne
    <3>2. v # x
      BY <2>1, <3>1 DEF Unclaimed, CreatesVersion
    <3> QED
      BY <2>1, <3>1, <3>2 DEF ChangesOnly
  <2>4. CommitInsert(c)
    BY <2>2, <2>3 DEF Commit, CommitPublish, CommitReplace
  <2>5. /\ versions'[v] = pend[c].row /\ nodes'[v] = pend[c].graph.nodes
        /\ edges'[v] = pend[c].graph.edges
    BY <2>4 DEF CommitInsert, IInv, Typed
  <2>6. /\ def[c].row = versions[want[c].version] /\ NodesCurrent(c) /\ EdgesCurrent(c)
        /\ def[c].row.playbook = want[c].playbook
        /\ pend[c].graph = CloneGraph(GraphRead(c), v)
        /\ NodeIDs(pend[c].graph) \cap DOMAIN nodes[want[c].version] = {}
    BY <2>1 DEF ClientOK, CloneOK
  <2>7. GraphRead(c) = GraphAt(want[c].version)
    BY <2>6 DEF GraphRead, GraphAt, NodesCurrent, EdgesCurrent
  <2>8. GraphAt(v)' = [root |-> pend[c].graph.root, nodes |-> pend[c].graph.nodes,
                       edges |-> pend[c].graph.edges]
    BY <2>1, <2>5 DEF GraphAt
  <2>9. pend[c].graph = [root |-> pend[c].graph.root, nodes |-> pend[c].graph.nodes,
                         edges |-> pend[c].graph.edges]
    BY <2>6 DEF CloneGraph
  <2> QED
    BY <2>1, <2>5, <2>6, <2>7, <2>8, <2>9 DEF NodeIDs
<1> HIDE DEF A
<1>2. Spec => [][A]_vars
  BY <1>1, SpecInv, PTL DEF Spec
<1> QED
  BY <1>2 DEF A, CloneIsCopy

=============================================================================
