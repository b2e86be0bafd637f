------------------------ MODULE InvestigationEngine ------------------------
(***************************************************************************)
(* The investigation engine: the decision rule of                          *)
(* internal/domain/investigation, the transactions of                      *)
(* internal/repository/postgres/investigation.go and the request flow of   *)
(* internal/service/investigationservice.                                  *)
(*                                                                         *)
(* A client is a human or an agent with at most one request in flight.  A  *)
(* request runs one SQL statement per step; what a transaction wrote is    *)
(* seen by others only from its commit on.  The published graphs are       *)
(* constant here: that a published version never changes and is valid is   *)
(* the business of PlaybookStore and GraphValidation.                      *)
(*                                                                         *)
(* Left out: timestamps, titles and the alert.  A request's actor,         *)
(* rationale and evidence are one value, its body, compared as the JSONB   *)
(* and IS NOT DISTINCT FROM comparisons of the code do: by meaning.        *)
(***************************************************************************)
EXTENDS PlaybookGraph, FiniteSetsExt

CONSTANTS Clients,         \* humans and agents
          Investigations,  \* investigation ids
          Versions,        \* published playbook versions
          Graph,           \* the graph of each version
          EdgeRefs,        \* edge ids a request may name
          Keys, NoKey,     \* idempotency keys, and a request without one
          Bodies,          \* actor, rationale and evidence of a request
          InvalidBody,     \* one of them, which SubmitDecision refuses
          NoRow, NoStep, NoRequest, NoClient  \* nothing there

ASSUME GraphsPublishable == \A v \in Versions : Publishable(Graph[v])

(* Rows of the two tables.  A step is never without an edge: arriving at a *)
(* terminal root is no step.                                               *)
Nodes == UNION {NodeIDs(Graph[v]) : v \in Versions}

Resolutions ==
  UNION {{Graph[v].nodes[n].resolution : n \in NodeIDs(Graph[v])} : v \in Versions}

InvestigationRow ==
  [version : Versions, status : {"in_progress", "completed"},
   current : Nodes, resolution : Resolutions \cup {NoResolution}]

StepRow == [seq : Nat, node : Nodes, edge : EdgeRefs, body : Bodies, key : Keys \cup {NoKey}]

ASSUME NothingIsDistinct ==
  /\ NoKey \notin Keys
  /\ NoClient \notin Clients
  /\ NoRow \notin InvestigationRow
  /\ NoStep \notin StepRow

VARIABLES investigations,  \* table investigations: id -> row or NoRow
          steps,           \* table investigation_steps: id -> set of rows
          lock,            \* row lock of an investigation: its holder
          pc,              \* the statement a client's request is at
          want,            \* the request in flight
          row,             \* the investigation as lockInvestigation read it
          next,            \* what Decide made of it
          step,            \* the inserted, not yet committed step
          view,            \* what the reading transaction returns
          answer           \* the response's code

vars == <<investigations, steps, lock, pc, want, row, next, step, view, answer>>

table == <<investigations, steps>>

----------------------------------------------------------------------------
(* The domain rules: Start and Decide.                                     *)

(* Mutant: the resolution is not copied.                                   *)
ArriveUnresolved(r) ==
  LET node == Graph[r.version].nodes[r.current]
  IN  IF node.kind = KindTerminal THEN [r EXCEPT !.status = "completed"] ELSE r

(* Arriving at a terminal node completes the investigation with that       *)
(* node's resolution.                                                      *)
Arrive(r) ==
  LET node == Graph[r.version].nodes[r.current]
  IN  IF node.kind = KindTerminal
      THEN [r EXCEPT !.status = "completed", !.resolution = node.resolution]
      ELSE r

StartRow(v) ==
  Arrive([version |-> v, status |-> "in_progress",
          current |-> Graph[v].root, resolution |-> NoResolution])

IsCompleted(r) == r.status = "completed"

EdgeOf(r, e) == Graph[r.version].edges[e]

(* Mutant: the edge need not leave the current node.                       *)
LegalFromAnywhere(r, e) == e \in EdgeIDs(Graph[r.version])

(* The edge belongs to the investigation's version and leaves its node.    *)
Legal(r, e) == e \in EdgeIDs(Graph[r.version]) /\ EdgeOf(r, e).from = r.current

DecideRow(r, e) == Arrive([r EXCEPT !.current = EdgeOf(r, e).to])

(* The edges a response offers.                                            *)
ChoicesFor(r) == IF IsCompleted(r) THEN {} ELSE OutgoingEdges(Graph[r.version], r.current)

NextSequenceNumber(rows) == Max({s.seq : s \in rows} \cup {0}) + 1

----------------------------------------------------------------------------
Request ==
  [op : {"decide"}, inv : Investigations, edge : EdgeRefs,
   key : Keys \cup {NoKey}, body : Bodies]
  \cup [op : {"read"}, inv : Investigations]

Inv(c) == want[c].inv

(* Mutant: keys scoped to the current node.                                *)
StepsUnderKeyHere(c) ==
  {s \in steps[Inv(c)] : s.key = want[c].key /\ s.node = investigations[Inv(c)].current}

(* The step already recorded under the request's key, and whether it is    *)
(* the same request.                                                       *)
StepsUnderKey(c) == {s \in steps[Inv(c)] : s.key = want[c].key}

(* Mutant: rationale and evidence are not compared.                        *)
EquivalentByEdge(c, s) == s.edge = want[c].edge

Equivalent(c, s) == s.edge = want[c].edge /\ s.body = want[c].body

Init ==
  /\ investigations = [i \in Investigations |-> NoRow]
  /\ steps = [i \in Investigations |-> {}]
  /\ lock = [i \in Investigations |-> NoClient]
  /\ pc = [c \in Clients |-> "idle"]
  /\ want = [c \in Clients |-> NoRequest]
  /\ row = [c \in Clients |-> NoRow]
  /\ next = [c \in Clients |-> NoRow]
  /\ step = [c \in Clients |-> NoStep]
  /\ view = [c \in Clients |-> NoRow]
  /\ answer = [c \in Clients |-> "none"]

(* Service.Start's last statement: one INSERT of the domain's Start.       *)
StartInvestigation(i, v) ==
  /\ investigations[i] = NoRow
  /\ investigations' = [investigations EXCEPT ![i] = StartRow(v)]
  /\ UNCHANGED <<steps, lock, pc, want, row, next, step, view, answer>>

----------------------------------------------------------------------------
(* A request's life.  It ends "answered"; the client takes the answer, or  *)
(* never sees it, and may then send anything, the same request included.   *)

Goto(c, label) == pc' = [pc EXCEPT ![c] = label]

Answer(c, code) ==
  /\ Goto(c, "answered")
  /\ answer' = [answer EXCEPT ![c] = code]

(* Mutant: the transaction is never closed.                                *)
EndTransactionKeepingLock(c) ==
  /\ row' = [row EXCEPT ![c] = NoRow]
  /\ next' = [next EXCEPT ![c] = NoRow]
  /\ step' = [step EXCEPT ![c] = NoStep]
  /\ UNCHANGED lock

(* The transaction is over: the lock is released and its locals are gone.  *)
EndTransaction(c) ==
  /\ lock' = [i \in Investigations |-> IF lock[i] = c THEN NoClient ELSE lock[i]]
  /\ row' = [row EXCEPT ![c] = NoRow]
  /\ next' = [next EXCEPT ![c] = NoRow]
  /\ step' = [step EXCEPT ![c] = NoStep]

(* inTx's deferred Rollback.                                               *)
Rollback(c, code) ==
  /\ Answer(c, code)
  /\ EndTransaction(c)
  /\ UNCHANGED <<investigations, steps, want, view>>

(* GET /investigations/{id} and its report: straight to the read.          *)
Get(c, r) ==
  /\ pc[c] = "idle" /\ r.op = "read"
  /\ want' = [want EXCEPT ![c] = r]
  /\ Goto(c, "read")
  /\ UNCHANGED <<investigations, steps, lock, row, next, step, view, answer>>

(* SubmitDecision checks the input before it touches the database.         *)
SubmitDecision(c, r) ==
  /\ pc[c] = "idle" /\ r.op = "decide"
  /\ want' = [want EXCEPT ![c] = r]
  /\ IF r.body = InvalidBody
     THEN Answer(c, "VALIDATION_FAILED")
     ELSE Goto(c, "lock") /\ UNCHANGED answer
  /\ UNCHANGED <<investigations, steps, lock, row, next, step, view>>

(* Mutant: a plain SELECT instead of FOR UPDATE.                           *)
LockWithoutWaiting(c) ==
  /\ pc[c] = "lock"
  /\ investigations[Inv(c)] # NoRow
  /\ lock' = [lock EXCEPT ![Inv(c)] = c]
  /\ row' = [row EXCEPT ![c] = investigations[Inv(c)]]
  /\ Goto(c, "find")
  /\ UNCHANGED <<investigations, steps, want, next, step, view, answer>>

(* SELECT ... FOR UPDATE waits for the holder and then reads the row as    *)
(* the holder left it.                                                     *)
LockInvestigation(c) ==
  /\ pc[c] = "lock"
  /\ investigations[Inv(c)] # NoRow
  /\ lock[Inv(c)] = NoClient
  /\ lock' = [lock EXCEPT ![Inv(c)] = c]
  /\ row' = [row EXCEPT ![c] = investigations[Inv(c)]]
  /\ Goto(c, "find")
  /\ UNCHANGED <<investigations, steps, want, next, step, view, answer>>

(* Mutant: the driver's error reaches the client.                          *)
LockNotTranslated(c) ==
  /\ pc[c] = "lock"
  /\ investigations[Inv(c)] = NoRow
  /\ Rollback(c, "no rows in result set")

LockNotFound(c) ==
  /\ pc[c] = "lock"
  /\ investigations[Inv(c)] = NoRow
  /\ Rollback(c, "RESOURCE_NOT_FOUND")

(* findStepByIdempotencyKey: a recorded key ends the transaction, with a   *)
(* replay if the request is the same one.                                  *)
FindReplay(c) ==
  /\ pc[c] = "find" /\ want[c].key # NoKey
  /\ \E s \in StepsUnderKey(c) : Equivalent(c, s)
  /\ EndTransaction(c)
  /\ Goto(c, "read")
  /\ UNCHANGED <<investigations, steps, want, view, answer>>

FindKeyReused(c) ==
  /\ pc[c] = "find" /\ want[c].key # NoKey
  /\ \E s \in StepsUnderKey(c) : ~Equivalent(c, s)
  /\ Rollback(c, "IDEMPOTENCY_KEY_REUSED")

(* Mutant: completion is checked before the key.                           *)
FindNothingOnceCompleted(c) ==
  /\ pc[c] = "find"
  /\ want[c].key = NoKey \/ StepsUnderKey(c) = {} \/ IsCompleted(row[c])
  /\ Goto(c, "decide")
  /\ UNCHANGED <<investigations, steps, lock, want, row, next, step, view, answer>>

FindNothing(c) ==
  /\ pc[c] = "find"
  /\ want[c].key = NoKey \/ StepsUnderKey(c) = {}
  /\ Goto(c, "decide")
  /\ UNCHANGED <<investigations, steps, lock, want, row, next, step, view, answer>>

(* Completion first, then the edge of this version, then Decide.           *)
RejectCompleted(c) ==
  /\ pc[c] = "decide" /\ IsCompleted(row[c])
  /\ Rollback(c, "INVESTIGATION_ALREADY_COMPLETED")

RejectTransition(c) ==
  /\ pc[c] = "decide" /\ ~IsCompleted(row[c])
  /\ ~Legal(row[c], want[c].edge)
  /\ Rollback(c, "INVALID_TRANSITION")

Decide(c) ==
  /\ pc[c] = "decide" /\ ~IsCompleted(row[c])
  /\ Legal(row[c], want[c].edge)
  /\ next' = [next EXCEPT ![c] = DecideRow(row[c], want[c].edge)]
  /\ Goto(c, "insert")
  /\ UNCHANGED <<investigations, steps, lock, want, row, step, view, answer>>

(* The unique indexes of investigation_steps, in the order they are made:  *)
(* the sequence number of another transaction's uncommitted step (counted  *)
(* as a collision even if that one were to fail), and a key already there. *)
SequenceTaken(c) == \E d \in Clients \ {c} : step[d] # NoStep /\ Inv(d) = Inv(c)

KeyTaken(c) == want[c].key # NoKey /\ StepsUnderKey(c) # {}

InsertStep(c) ==
  /\ pc[c] = "insert"
  /\ IF SequenceTaken(c) \/ KeyTaken(c)
     THEN Rollback(c, IF SequenceTaken(c) THEN "CONFLICT" ELSE "IDEMPOTENCY_KEY_REUSED")
     ELSE /\ step' = [step EXCEPT ![c] =
                        [seq  |-> NextSequenceNumber(steps[Inv(c)]),
                         node |-> row[c].current, edge |-> want[c].edge,
                         body |-> want[c].body, key |-> want[c].key]]
          /\ Goto(c, "commit")
          /\ UNCHANGED <<investigations, steps, lock, want, row, next, view, answer>>

(* Mutant: the insert overwrites a step with the same key.                 *)
CommitUpsert(c) ==
  /\ pc[c] = "commit"
  /\ investigations' = [investigations EXCEPT ![Inv(c)] = next[c]]
  /\ steps' = [steps EXCEPT ![Inv(c)] = {s \in @ : s.key # step[c].key} \cup {step[c]}]
  /\ EndTransaction(c)
  /\ UNCHANGED <<want, view>>

(* updateInvestigationState and COMMIT: until the commit nobody sees the   *)
(* update, so the two are one step.                                        *)
CommitWrites(c) ==
  /\ pc[c] = "commit"
  /\ investigations' = [investigations EXCEPT ![Inv(c)] = next[c]]
  /\ steps' = [steps EXCEPT ![Inv(c)] = @ \cup {step[c]}]
  /\ EndTransaction(c)
  /\ UNCHANGED <<want, view>>

Commit(c) ==
  /\ CommitWrites(c)
  /\ Goto(c, "read")
  /\ UNCHANGED answer

(* The commit happened and its acknowledgement did not arrive.             *)
CommitUnacknowledged(c) ==
  /\ CommitWrites(c)
  /\ Answer(c, "INTERNAL_ERROR")

(* Any statement of the transaction may fail, by a lost connection or a    *)
(* cancelled request.                                                      *)
AbortTransaction(c) ==
  /\ pc[c] \in {"lock", "find", "decide", "insert", "commit"}
  /\ Rollback(c, "INTERNAL_ERROR")

----------------------------------------------------------------------------
(* GetWithSteps: a REPEATABLE READ transaction pins its snapshot at the    *)
(* first statement.                                                        *)

ReadInvestigation(c) ==
  /\ pc[c] = "read"
  /\ IF investigations[Inv(c)] = NoRow
     THEN Answer(c, "RESOURCE_NOT_FOUND") /\ UNCHANGED view
     ELSE /\ view' = [view EXCEPT ![c] = [inv   |-> investigations[Inv(c)],
                                          steps |-> steps[Inv(c)]]]
          /\ Goto(c, "steps")
          /\ UNCHANGED answer
  /\ UNCHANGED <<investigations, steps, lock, want, row, next, step>>

(* Mutant: READ COMMITTED instead of a snapshot.                           *)
LatestSteps(c) == steps[Inv(c)]

SnapshotSteps(c) == view[c].steps

(* loadSteps and buildState, which finds the current node in the graph.    *)
LoadSteps(c) ==
  /\ pc[c] = "steps"
  /\ view' = [view EXCEPT ![c].steps = SnapshotSteps(c)]
  /\ Answer(c, IF view[c].inv.current \in NodeIDs(Graph[view[c].inv.version])
               THEN "OK" ELSE "INTERNAL_ERROR")
  /\ UNCHANGED <<investigations, steps, lock, want, row, next, step>>

(* The read fails, after a decision that may have been committed.          *)
FailRead(c) ==
  /\ pc[c] \in {"read", "steps"}
  /\ Answer(c, "INTERNAL_ERROR")
  /\ UNCHANGED <<investigations, steps, lock, want, row, next, step, view>>

(* The response is delivered or lost.                                      *)
Receive(c) ==
  /\ pc[c] = "answered"
  /\ Goto(c, "idle")
  /\ want' = [want EXCEPT ![c] = NoRequest]
  /\ view' = [view EXCEPT ![c] = NoRow]
  /\ answer' = [answer EXCEPT ![c] = "none"]
  /\ UNCHANGED <<investigations, steps, lock, row, next, step>>

----------------------------------------------------------------------------
(* What a request does when nothing fails.                                 *)
Proceed(c) ==
  \/ LockNotFound(c)
  \/ FindReplay(c) \/ FindKeyReused(c) \/ FindNothing(c)
  \/ RejectCompleted(c) \/ RejectTransition(c) \/ Decide(c)
  \/ InsertStep(c) \/ Commit(c)
  \/ ReadInvestigation(c) \/ LoadSteps(c)

Fail(c) == AbortTransaction(c) \/ CommitUnacknowledged(c) \/ FailRead(c)

Next ==
  \/ \E i \in Investigations, v \in Versions : StartInvestigation(i, v)
  \/ \E c \in Clients :
       \/ \E r \in Request : Get(c, r) \/ SubmitDecision(c, r)
       \/ LockInvestigation(c)
       \/ Proceed(c)
       \/ Fail(c)
       \/ Receive(c)

Spec == Init /\ [][Next]_vars

(* A handler runs on until it answers, and PostgreSQL hands a row lock to  *)
(* its waiters in turn, so a waiter gets it after finitely many others.    *)
(* Clients promise nothing, and no failure is ever relied upon.            *)
Fairness == \A c \in Clients : WF_vars(Proceed(c)) /\ SF_vars(LockInvestigation(c))

FairSpec == Spec /\ Fairness

----------------------------------------------------------------------------
(* Properties.                                                             *)

Labels == {"idle", "lock", "find", "decide", "insert", "commit", "read", "steps", "answered"}

Codes == {"none", "OK", "VALIDATION_FAILED", "RESOURCE_NOT_FOUND", "IDEMPOTENCY_KEY_REUSED",
          "INVESTIGATION_ALREADY_COMPLETED", "INVALID_TRANSITION", "CONFLICT", "INTERNAL_ERROR"}

(* The rows stay rows of the schema, whatever a request carried, and every *)
(* answer is a code the API knows (translate, notFound).                   *)
TypeOK ==
  /\ investigations \in [Investigations -> InvestigationRow \cup {NoRow}]
  /\ steps \in [Investigations -> SUBSET StepRow]
  /\ lock \in [Investigations -> Clients \cup {NoClient}]
  /\ pc \in [Clients -> Labels]
  /\ want \in [Clients -> Request \cup {NoRequest}]
  /\ row \in [Clients -> InvestigationRow \cup {NoRow}]
  /\ next \in [Clients -> InvestigationRow \cup {NoRow}]
  /\ step \in [Clients -> StepRow \cup {NoStep}]
  /\ view \in [Clients -> [inv : InvestigationRow, steps : SUBSET StepRow] \cup {NoRow}]
  /\ answer \in [Clients -> Codes]

(***************************************************************************)
(* An investigation row and a set of steps that tell one story: the steps  *)
(* are numbered 1, 2, ... without gap or repetition, the first leaves the  *)
(* root, each leaves the node its predecessor led to, and the row stands   *)
(* where the last one led.                                                 *)
(***************************************************************************)
Numbered(trail) ==
  /\ \A s, t \in trail : s.seq = t.seq => s = t
  /\ \A s \in trail : s.seq >= 1 /\ \A k \in 1..s.seq : \E t \in trail : t.seq = k

Connected(r, trail) ==
  /\ \A s \in trail : s.edge \in EdgeIDs(Graph[r.version]) /\ EdgeOf(r, s.edge).from = s.node
  /\ \A s \in trail : s.seq = 1 => s.node = Graph[r.version].root
  /\ \A s, t \in trail : t.seq = s.seq + 1 => t.node = EdgeOf(r, s.edge).to

EndsAt(r, trail) ==
  \/ trail = {} /\ r.current = Graph[r.version].root
  \/ \E s \in trail : /\ \A t \in trail : t.seq <= s.seq
                       /\ r.current = EdgeOf(r, s.edge).to

OneStory(r, trail) == Numbered(trail) /\ Connected(r, trail) /\ EndsAt(r, trail)

(* At every moment the committed steps and the current_node_id projection  *)
(* of an investigation agree, however submissions interleave, fail or are  *)
(* retried (ApplyDecision's row lock and single transaction).              *)
TrailMatchesPointer ==
  \A i \in Investigations :
    IF investigations[i] = NoRow THEN steps[i] = {}
    ELSE OneStory(investigations[i], steps[i])

Settled(r) ==
  LET node == Graph[r.version].nodes[r.current]
  IN  /\ r.current \in NodeIDs(Graph[r.version])
      /\ IF IsCompleted(r)
         THEN node.kind = KindTerminal /\ r.resolution = node.resolution
         ELSE node.kind = KindDecision /\ r.resolution = NoResolution /\ ChoicesFor(r) # {}

(* A completed investigation stands on a terminal node and carries that    *)
(* node's resolution; one in progress stands on a decision node and always *)
(* has a choice to offer: no investigation is stuck.                       *)
CompletedExactlyAtTerminal ==
  \A i \in Investigations : investigations[i] # NoRow => Settled(investigations[i])

(* An idempotency key stands for one decision of an investigation, however *)
(* often and by whomever the request is sent.                              *)
OneStepPerKey ==
  \A i \in Investigations : \A s, t \in steps[i] :
    s.key = t.key /\ s.key # NoKey => s = t

(* No trail visits a node twice, so that even without a key a decision     *)
(* sent twice is applied once.  It rests on the graph being acyclic.       *)
NeverRevisits ==
  \A i \in Investigations : \A s, t \in steps[i] : s.node = t.node => s = t

(* A response shows a row and a trail of one instant (GetWithSteps).       *)
ResponseIsOneStory ==
  \A c \in Clients : answer[c] = "OK" => OneStory(view[c].inv, view[c].steps)

(* A decision answered with success is in the trail the response shows,    *)
(* as the request stated it, and in the table for good.                    *)
SuccessMeansRecorded ==
  \A c \in Clients : answer[c] = "OK" /\ want[c].op = "decide" =>
    \E s \in view[c].steps : /\ s \in steps[Inv(c)] /\ s.key = want[c].key
                             /\ s.edge = want[c].edge /\ s.body = want[c].body

(* The unique indexes are a second line of defence no request ever meets   *)
(* (postgres.go: "Two decisions raced past the row lock - should be        *)
(* impossible").                                                           *)
BackstopNeverHit ==
  \A c \in Clients : pc[c] = "insert" => ~SequenceTaken(c) /\ ~KeyTaken(c)

(* The audit trail is append-only, and a completed investigation and its   *)
(* playbook version never change.                                          *)
AppendOnly ==
  [][\A i \in Investigations :
       /\ steps[i] \subseteq steps'[i]
       /\ investigations[i] # NoRow =>
            /\ investigations'[i].version = investigations[i].version
            /\ IsCompleted(investigations[i]) =>
                 investigations'[i] = investigations[i] /\ steps'[i] = steps[i]]_vars

(* The retry of a decision that was applied under a key is never refused,  *)
(* not even once the investigation is completed or has moved on.           *)
RetryNeverRejected ==
  [][\A c \in Clients :
       /\ pc[c] \notin {"idle", "answered"} /\ pc'[c] = "answered"
       /\ want[c].op = "decide" /\ want[c].key # NoKey
       /\ \E s \in StepsUnderKey(c) : Equivalent(c, s)
       => answer'[c] \in {"OK", "INTERNAL_ERROR"}]_vars

(* Every request is answered: nobody waits for a row lock forever.         *)
EveryRequestAnswered == \A c \in Clients : pc[c] # "idle" ~> pc[c] = "answered"

=============================================================================
