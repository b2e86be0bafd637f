# Interbellum: a verification development

Interbellum investigates security alerts along *playbooks*: a designer draws a
decision graph, publishes it, and people and automated agents walk through it,
one decision at a time, leaving an audit trail. The program is a Go API over
PostgreSQL (`internal/`, `cmd/`, `migrations/`) and a Next.js console
(`frontend/`).

This directory holds TLA+ models of its core, TLC configurations that check
them on small instances, and TLAPS proofs, for instances of any size, of every
safety property the passing runs check. `PROJECT.json` lists the runs, the
correspondence of every definition with the source lines it models, the
hazards and the findings.

## 1. The system

| Part | State it keeps | Operations | Talks to |
|---|---|---|---|
| Playbook domain (`internal/domain/playbook`) | none: graphs are values | `Validate`, `OutgoingEdges`, `NodeByID` | used by store and engine |
| Playbook store (`postgres/playbook.go`, `playbookservice`) | `playbooks`, `playbook_versions`, `playbook_nodes`, `playbook_edges` | `Create`, `CreateVersion` (empty or clone), `GetVersion`, `ReplaceGraph`, `Publish` | PostgreSQL row locks; `Validate` |
| Alert ingestion (`postgres/alert.go`, `alertservice`) | `alerts` | `Create` (insert or read), `Get` | PostgreSQL |
| Investigation engine (`domain/investigation`, `postgres/investigation.go`, `investigationservice`) | `investigations`, `investigation_steps` | `Start`, `SubmitDecision`/`ApplyDecision`, `Get`, `Report` | store and alerts (reads), PostgreSQL |
| Errors and transactions (`postgres.go`, `apperror`) | none | `inTx`, `translate`, `notFound` | every repository |
| HTTP (`internal/http`) | the server's life | one handler per endpoint, `writeError`, shutdown | services |
| Console (`frontend/src`) | page state only: what was loaded, what is typed, what is awaited | decision page and evidence, start screen, playbook viewer, playbook editor, report; all load through `useResource` | the API, through a proxy route; the URL |

What is hard here. Any number of handlers run at once, so every transaction
meets others half way. Clients lose responses and send again: an agent retries
a decision after a timeout, an upstream system delivers an alert at least once.
A transaction can fail before its commit, at it (with the outcome unknown) and
after it, when the state is read back for the response. Reads of more than one
statement can straddle somebody else's commit. Locks are taken explicitly, by
`FOR UPDATE` and `FOR SHARE`, and implicitly, by foreign keys and unique
indexes. In the browser, responses come late, out of order, or never.

What makes each part correct:

* *Graph rules*: `Validate` accepts exactly the publishable graphs, in any order
  of its input, and ends.
* *Store*: what is published is valid and never changes; a clone is a copy of
  one state of its source and shares nothing with it; versions are numbered
  without gaps; transactions deadlock over ids that two requests share, never
  over row locks, and even then every request is answered.
* *Alerts*: one alert per external id; the first delivery wins; every accepted
  delivery is answered with what is stored.
* *Engine*: the steps of an investigation are one walk from the root to the
  current node; completed means terminal; nothing is taken back; a retry
  changes nothing and is not refused; a response describes one instant.
* *Decision page*: it never goes back to an older state; a decision is
  submitted for the question on display; retrying is safe; the evidence it sends
  is evidence the server takes.
* *Start screen*: what it offers, the service accepts; the page alone never
  starts an investigation twice; it lists versions for the alert it is about.
* *Playbook viewer*: it comes to rest, and on what the URL names.
* *Report*: the graph lights up exactly the walk the response tells.
* *Playbook editor*: the form never holds a dangling reference, marks the right
  rows, and keeps every rule of the service and every constraint of the schema;
  no answer takes unsaved edits away; nothing is called saved that was not
  stored.

## 2. The modules

| Module | Models | State | Actions |
|---|---|---|---|
| `PlaybookGraph` | graph type and rules | none | operators; reference definitions of reachability, acyclicity and `Publishable` without an algorithm |
| `GraphValidation` | `Graph.Validate` | colours, stack, queue, issues | `CheckRules`, `PushStart`, `Explore`, `Finish`, `EndCycles`, `Dequeue`, `EndReach` |
| `InvestigationEngine` | `Start`, `Decide`, `ApplyDecision`, `GetWithSteps`, `SubmitDecision`, `Get` | the two tables, row locks, and per client the statement it is at and what it has read | one per SQL statement, early return and failure |
| `AuditTrail` | what the engine promises | the walk of each investigation | `Begin`, `Advance` |
| `InvestigationRefinement` | refinement mapping | the walk is read off the step rows by sequence number | |
| `PlaybookStore` | the store's transactions, and `Service.Start` beside them | four tables, row locks by mode, and per request its statement, what it read, the rows it has written and the one it is inserting | one per locking, reading or writing statement, one per row inserted, commit, failure, deadlock |
| `AlertIngestion` | `Create` | table, deliveries | `Deliver`, `Insert`, `InsertNothing`, `ReadExisting`, failures |
| `UseResource` | the console's loading hook | none: operators on the record a screen holds of a resource | `Mount`, `Trigger`, `ServerRead`, `Loaded`, `Failed`, `Set` |
| `StartScreen` | the start screen over `AlertIngestion`, and `Service.Start`'s answers | published versions, page, its two resources, starts in flight | one per event: ingestion and its answers, loads, a start, its handling and its answers, navigation, other people's deliveries and publications |
| `PlaybookLibrary` | the playbook viewer | versions on the server, URL, three resources, two writes | the two effects, loads, selection, links, publication, installation of the demo |
| `DemoPlaybook` | the demo playbook and its suggested decisions | none | constants, with the assumption that they are publishable and lie on the graph |
| `ReportOverlay` | `report-path.ts`, the flags of `PlaybookGraph.tsx`, the panels of the report | none: operators on a response of the engine | |
| `Evidence` | evidence rows, their serialization, the server's rules | none | operators |
| `DecisionConsole` | investigation page, decision form, evidence editor | the server's walk, calls in flight, page and form | one per event: load, answer, failure, choice, edit, evidence row, submission, another client's decision |
| `PlaybookDraft` | the editor's form and `serializePlaybookDraft` | the lists of nodes and choices, errors on display, the save in flight | `AddNode`, `UpdateNode`, `RemoveNode`, the same for edges, `ChooseRoot`, `SaveRefused`, `SaveSent`, `SaveLanded`, `SaveFailed` |
| `PlaybookEditor` | the editor's page: `PlaybookEditorScreen` with `useResource` | the server's versions, calls in flight, route, loaded version, draft, what is awaited | one per event: opening a route, load, edit, save, publish, clone, retry, each answer and failure, another designer's save and publication |
| `MC...` | instances of the above | | |
| `InvestigationEngineProofs` | theorems about the engine, its refinement of `AuditTrail`, and the drawing of its responses | | |
| `PlaybookStoreProofs`, `GraphValidationProofs`, `DecisionConsoleProofs`, `PlaybookDraftProofs`, `PlaybookEditorProofs`, `PlaybookLibraryProofs` | theorems about the module they are named after | | |
| `StartScreenProofs` | theorems about alert ingestion and the start screen | | |

`InvestigationEngine` and `PlaybookStore` extend `PlaybookGraph`. The engine
takes its graphs as constants and assumes `Publishable` of them; that this is
so, and stays so, is what `PublishedIsPublishable` and `PublishedFrozen` show of
the store, whose `Publish` uses `Publishable` in the place of `Validate`; and
that `Validate` decides just that is `DecidesPublishable`. The store also has
the starts: an investigation stands on a published version only
(`InvestigationsRunPublished`), which is the engine's premise. `StartScreen`
extends `AlertIngestion`: the page is one of the senders, and upstream's
deliveries go on behind it. `ReportOverlay` extends the engine and is evaluated
on every response it gives. `DecisionConsole`
uses as its server what the engine is proved to be: a walk that grows by one
decision and replays a known key. That its server is that of `AuditTrail` is
proved as well (`ServerIsAuditTrail`). `PlaybookEditor` uses the store's transactions
as atomic calls, loads a version in `GetVersion`'s three statements, and takes
each of root, nodes and edges as one value, whose inside is `PlaybookDraft`;
`PlaybookDraft` checks what it sends against `validateGraphInput`, the schema's
constraints and its column types.

Definitions whose comment starts with `Mutant:` are deliberately broken
variants of the definition after them, each a plausible mistake in the code: a
lock not taken, a check dropped, an order swapped. None is used by a
specification. They are there to show that the properties notice: with the
variant in the place of the original, the property named in `PROJECT.json` is
violated.

### How the code becomes actions

A handler runs SQL statements one after the other; each is atomic, and others
run in between. So a request is a program counter (`pc`), and every statement
whose effect or wait another request can notice is a step. Statements whose
effect is invisible until commit are joined with it (`updateInvestigationState`
with the commit; the deletes of `clearGraph` with one another). `writeGraph`
inserts its rows under ids that come from the client, so another transaction may
hold one of them: each row is a step that waits for its id, and since a request
lists its rows in any order, they are inserted in any order. A clone's ids are
fresh: its rows, which nobody can wait for, are one step. An early return
is an action with the corresponding guard; `inTx`'s deferred rollback is
`Rollback`, part of every action that returns an error. `AbortTransaction`,
`Abort`, `FailRead`, `FailStatement` are a lost connection, a cancelled request
or a crash of the process before commit; `CommitUnacknowledged` and
`Commit(c, "INTERNAL_ERROR")` are a commit whose acknowledgement is lost. PostgreSQL
rolls back the rest, so a crash of the API is nothing but such failures of all
open requests.

From the database we take: row-lock modes and their conflicts; READ COMMITTED
(a statement sees what is committed when it starts) and REPEATABLE READ (the
snapshot of the first statement); an insert waits for an uncommitted row with
the same unique key, or for an uncommitted delete of it; and when transactions
wait for one another in a circle, one of them fails with 40P01 (`Deadlocked`,
`DeadlockVictim`), an error that `translate` does not know and turns into a 500.
That an UPDATE of a version takes FOR KEY SHARE on the playbook follows
`CreateVersion`'s own comment; whether the first UPDATE of an edit takes it, or
only the one that sets the root, is left open. Taking more locks than the
database does can only make more deadlocks, so `DeadlocksOnlyOverIds` is safe on
that side.

In the browser a step is an event: a click, an answer, a failure. State set in
one handler is rendered before the next event, and its effects have run. A call is a slot that the server
may serve at any time; a page that has given up, or has been left, no longer
hears the answer, but the server may still act on the call. Two facts are taken
from outside the repository. Next.js mounts a page anew when its route changes,
so the state of the page before is gone (`Blank`). And in HTML a button without
a `type` inside a form submits it: `Try again` of `ErrorNotice` is one (`Button`
in `primitives.tsx` adds no type), so in the editor it calls `reload` and then
`save` in one click; the effect that starts the load runs before or after the
submission, and neither order disables the form, since `loading` does not lock
it.

Data is abstracted to what is compared. A request's actor, rationale and
evidence are one *body*, equal or not as JSONB and `IS NOT DISTINCT FROM` say.
Timestamps are left out and, but for `PlaybookDraft`, so are titles, labels,
metadata and sort orders: no other modelled rule reads them. `PlaybookDraft`
keeps of them what a rule or a column tells apart: blank or not, too long for
the index on labels, an object that JSONB holds or refuses, a number that fits 32
bits or does not. It does not compare sort keys, so the order in which the
database returns the rows of a graph is any order (`StoredOrders`). All ways an input can be refused before the database are one invalid
body, content or graph.

## 3. The runs

| Run | Instance | Shows | States |
|---|---|---|---|
| `engine` | 2 clients, 1 investigation, 2 graphs (one with a terminal root), 1 key, 2 valid bodies, 1 foreign edge | the engine's invariants and action properties, the refinement of `AuditTrail`, that the report draws the walk of every response (`OverlayTellsWalk`), and that every request is answered | 324 k |
| `graph_validation` | all 2-node graphs over 5 node shapes, 3 roots, edges also to an unknown node; all 4-node graphs with at most 5 edges | `Validate` decides the rules; the searches are sound, exact and end. The demo playbook is publishable (an assumption TLC evaluates) | 174 k |
| `graph_cycle_nodes` | all 3-node graphs | **violation**, finding 1 | |
| `playbook_store` | 2 requests, 1 playbook, 2 versions, a valid and an unfinished graph, an alert that fits and one that does not exist | publish, edit, read and start races, rows inserted one by one; what can deadlock; every request is answered | 626 k |
| `playbook_versions` | 2 requests, 2 playbooks, 3 versions, also a graph that cannot be stored | numbering, clones | 3.9 M |
| `start_screen` | 2 senders (the page or upstream), 2 alerts, 1 external id, none, and empty, 2 alert types with a version each, 1 start in flight | idempotent ingestion; the page's offers are accepted; no second start without a failure | 2.0 M |
| `start_list` | the same | **violation**, finding 3 | |
| `console` | 2 keys, 2 calls in flight, 2 actors, 2 rationales, up to 1 evidence row (blank, faulty or filled), a graph with two ways to the end | the page under loss, delay and competition | 1.9 M |
| `playbook_draft` | forms of up to 2 nodes and 2 choices, 1 text or blank, orders that fit and orders that do not | every order of edits, saves and loads | 2.1 M |
| `playbook_editor` | 2 playbooks, 2 versions, 2 calls in flight, an empty, a finished and an unfit draft, loads in three statements | edits survive, saved means stored | 2.0 M |
| `editor_route` | the same | **violation**, finding 2 | |
| `library` | a playbook of 2 versions and the demo, 3 clicks | the screen rests on what the URL names, and it does come to rest | 1.8 M |

What the less obvious properties say:

* `RetryNeverRejected`: whoever sends a recorded decision again, with its key and
  unchanged, gets a success or an internal error, whatever happened since.
* `ResponseIsOneStory`: a response is one state of the investigation, although
  it takes two statements to read. `OverlayTellsWalk`: from such a response both
  pages light the walk from the root to its end and nothing else, number it in
  the order it was taken, and say "completed" where it is; an investigation born
  completed on a terminal root included.
* `PublishedReadWhole`: `GetVersion` reads in three statements outside a
  transaction; what it returns as published is nevertheless one graph.
* `DeadlocksOnlyOverIds`: a transaction that waits for itself, directly or over
  others, is inserting a row under an id that another open transaction holds.
  Such deadlocks do happen: two requests that carry the same ids in opposite
  orders each insert one and wait for the other. Row locks are in none of them,
  which is what `CreateVersion`'s order of locks is for; and since one of the two
  fails, `EveryRequestAnswered` holds of both.
* `CloneNeverCollides`: a clone is refused only as the clone of another
  playbook's version. `CloneIsCopy` says what a committed clone holds; a clone
  that kept an id would never be committed, and this is the property it breaks.
* `RefusedOnlyForColumns`: the form's rules miss none of the service's and none of
  the schema's constraints. They do miss the column types: see the remarks.
* `OfferedNeverRefused`: the list of versions was loaded for the alert on
  display then; by the time of the click the alert may be another, the list
  stale, or a second ingestion under way. The service still accepts the start.
* `DuplicatesOnlyAfterFailure`: `Start` has no idempotency key, so a visit that
  goes on after a failed start may make a second investigation. Nothing else
  does: investigations made by a visit never outnumber the failures it was told
  of, but for the one it is about to open.
* `RefusedMeansNotRecorded`: when the form says that a submission was refused, no
  decision of that submission is in the trail; it is what the form's handling of
  keys is for. The form remembers the key of one content, so a submission is all
  attempts at one content since other content was last submitted: whoever submits
  A, then B, then A again decides anew, under a new key.
* `ShownIsSelected`: once nothing is in flight and nothing failed, the playbook,
  the version and the URL agree. `ComesToRest`: the two effects that correct the
  URL do not chase each other.
* `EditsSurvive`: no answer takes unsaved edits away. `CleanWasStored`: a form that
  counts as saved holds what the server stored. A load is three statements, and
  if others save between them the form may be seeded with the root of one stored
  draft, the nodes of another and the edges of a third; the property allows that
  for such a load only (`mixed`), and then every part was still stored. A mix
  whose parts do not fit together does not serialize, so it cannot be saved as it
  is.

**Bounds.** The hazards are between two transactions: every property speaks of
one row, one pair of rows or one request, and two clients on one row give every
order of their statements. What a third could add to a row lock is waiting. One
investigation suffices because no statement touches two; the proofs do not rely
on it. One key suffices to be repeated, reused for something else, and absent.
The engine's counters are bounded by the graph, which is acyclic. `Versions`,
`Playbooks`, `AlertIDs` and `Keys` bound what is ever created, `Slots` and
`Calls` what is in flight, `MaxFailures` how often a visit goes on after a failed
start, `MaxRows` the evidence and `MaxClicks` the clicks in the viewer; the
guards `Room` keep ids in reserve for requests already admitted, so that the
bound never shows up as a request that cannot go on. Four nodes and five edges
hold two overlapping cycles, a cycle off the root's component and both ways to
reach a node; three suffice for the violation. Two rows of a list can be equal
in every field a rule compares, and a removal shifts one of them. Of the
values that a column cannot hold, the run has orders of more than 32 bits; metadata
and labels of that kind are in the proof, which has no bound.
Two ids in two requests are a deadlock; longer circles are left to the proof. Two versions
and two playbooks give a right and a wrong route; two calls in flight give a
load with a save, and a save given up with its successor. Two alerts of two
types are what a list can be wrong about. Three clicks let a reviewer select,
publish, and select again before the answer comes. On the start screen one
start is in flight at a time: a start given up and its successor overlap only
in the proof, which has no bound.

**Symmetry** is used in runs without liveness properties only: clients run the
same code; bodies, keys, ids and call slots are only compared.

**Deadlock** is checked, except for `GraphValidation`, which ends, and
`PlaybookLibrary`, whose screen comes to rest and whose clicks are bounded.

**Fairness.** A Go handler runs on until it has answered (weak fairness of its
steps), and PostgreSQL queues the waiters of a row lock, so a waiter's turn
comes (strong fairness of the locking step; in `PlaybookStore` of every step,
as inserts wait too), and it looks for deadlocks (the victim's failure is one of
those steps). Clients promise nothing and no other failure is relied on.
`Validate` is a loop in one goroutine (weak fairness of its steps). In
`PlaybookLibrary` the browser settles every request and React runs the effects
of every render (weak fairness of `Screen`); whether a call succeeds or fails is
left open, and so is what the reviewer does.

## 4. The proofs

All theorems are of the form `Spec => []Inv` or `Spec => [][A]_vars`, the
refinements apart, and hold for any values of the constants that satisfy the
assumptions named below; TLC evaluates each assumption in some run. The bounds
of the runs (how many clients, keys, calls, rows, clicks) are no bounds here.
Each proof has one inductive invariant `IInv`, a conjunction of named parts,
shown to be preserved action by action; what follows says what is in it and why
it is needed.

### The engine

`InvestigationEngineProofs` proves the type invariant and each of the safety
properties of the engine that the `engine` run checks, that the engine
implements `AuditTrail` (`Implements`), and `OverlayTellsWalk`.

Assumptions: `GraphsPublishable` (every version's graph is publishable; the
store's properties), `NothingIsDistinct` (the markers for "nothing there" are
no rows, keys or clients) and, for the drawing, `GraphsFinite` (a graph has
finitely many edges, since the legend counts them, and null is no node).

    IInv == TypeOK /\ TablesOK /\ \A c : TransactionOK(c) /\ ResponseOK(c)

* `TablesOK`: for each investigation the trail is a numbered, connected walk
  that ends at the row's node, the row is settled (completed exactly on a
  terminal node), and keys are not repeated;
* `TransactionOK(c)`: past `lock`, the client holds the row lock and what it has
  read is what is committed; past `find`, its key is unused; past `decide`,
  `next` is a legal step from the row; past `insert`, its step continues the
  trail. Without this a commit could not be seen to preserve `TablesOK`: the
  trail is right because what was read under the lock is still true at commit;
* `ResponseOK(c)`: what a reader holds is a state of the tables at one instant,
  settled as the tables are, and contained in them ever since; for a decision
  past its commit, it includes the step. It rests on trails only growing.

`WalkNeverReturns` needs more than the invariant: in an acyclic graph a connected
walk does not visit a node twice. `Acyclic` is stated as "every non-empty set of
nodes has a member with no successor in the set", so that the nodes of the walk
between two visits are such a set and give the contradiction without an induction
over paths. The refinement proof maps a commit to `Advance` and everything else
to a stutter, `Begin` aside; its work is that appending a row with the next
sequence number appends to the sequence read off the rows.

*The drawing* (`DrawingIsTrue`). A response that tells one story is, by the same
argument, a `Walk`: n numbered steps from the root to the row's node, no node or
edge twice, and none of them where the walk stands now. For such a response the
two maps of step numbers that `buildPathOverlay` fills are one number per node
and per edge, so that "first visit" and "last visit" are the same (`StampsAre`);
the landing of the last step is the row's node (`LandedIs`); and the legend's
counts, taken from the overlay's sets, are those of the walk (`LegendCounts`,
by the bijection of steps and nodes).

### The store

`PlaybookStoreProofs` proves the six invariants and the two action properties of
the store, from `CloneIdsApart` (`uuid.New` returns no id that a client
supplies). Three facts carry them.

* *A row is changed only under FOR UPDATE.* `LocksExclude` says that locks held
  by two transactions do not conflict, so what `ReplaceOK`, `PublishOK` and
  `CloneOK` say was read under a lock is still stored. At the commit of
  `Publish` the graph that was validated is the graph that becomes published
  (`StorePublishable`), and no row of a published version is written again
  (`StoreFrozen`). `GetVersion` and `Start` read without a lock: `ReadOK` says
  that once a published row was seen the rest is stored for good
  (`StoreReadWhole`, `StoreStartsSound`).
* *Locks are taken in one order*, versions before playbooks. `HoldersKnown` says
  where in its statements a holder of each kind is, so a transaction that waits
  for a row lock waits for one that is further on (`AwaitsForward`). `Deadlocked`
  is stated with sets closed under waiting, so no induction over the circle is
  needed: for a transaction that is not inserting rows, those further on are such
  a set, and it is not among them (`StoreDeadlocksOnlyOverIds`).
* *A clone's ids name its version* (`IdsApart`), which is new, so they are in no
  version and no open transaction (`StoreCloneNeverCollides`).

`Numbered` and `NumberOK` give `VersionsNumbered`: the next number is computed
and inserted under FOR UPDATE on the playbook (`PendApart`: at most one uncommitted
version per playbook). The unique index on the number is thus never hit.

### Validate

`GraphValidationProofs` proves, for graphs of any size and any order in which the
searches take edges, that reported nodes lie on cycles and that `Validate` ends
without an issue exactly for publishable graphs. The one assumption,
`KindsValid`, is what `validateGraphInput` and the column's CHECK let through.

* `StackIsPath`: grey nodes are those on the stack, and the stack is a path; so
  an edge to a grey node closes a cycle.
* `NoCycleSoFar`: while none was met, an edge already taken leads to a black node
  or up the stack, and every non-empty set of black nodes has a member without a
  successor in the set. When all are black that is `Acyclic`. Conversely a
  reported node refutes `Acyclic` (`CycleRefutes`).
* `SearchOK`: what is seen is reachable, and what is seen and not queued is
  expanded; so with an empty queue what is seen is a closed set that holds the
  root, and reachability is the least one.

`ValidateProgresses` is the safety half of `Terminates`: the work ahead is five
sets (phases, white nodes, edges not taken, nodes not finished, nodes not
expanded), and every step takes a member out of one and adds none to any. On N
nodes and E edges that allows at most 3 + 3N + E steps, for cyclic graphs too.

Reachability is defined by closed sets, not by paths, and that again takes the
place of inductions; the lemmas about it come first in the module, for any graph.

### The investigation page

`DecisionConsoleProofs` proves the four safety properties of the page, and that
its server is one walk of `AuditTrail`, from `PlaybookPublishable`, `BlankFormTyped` and `NothingApart` (null is no key and no
call).

    IInv == Typed /\ PathOK(path) /\ KeysOK /\ PageOK /\ SelectionIsOffered

`PathOK` says what the server's walk means to everyone who waits for it or shows
it: states in flight and on display are behind it, under a key only the content
it was made for is recorded, and a refused submission takes an edge the walk has
*passed*: it has left the node of that edge. This is the strengthening that
`RefusedMeansNotRecorded` needs: that the decision is not recorded now is not
enough, it must not be recorded later by a copy still under way, and in an
acyclic graph the walk does not come back to a node it has left (`NeverReturns`:
the nodes in between would each have a successor among them). `KeysOK`
says that a key is for one content; `PageOK`, that a load is in flight only on a
page that shows nothing, which is what `ShownNeverGoesBack` needs.

`ServerIsAuditTrail` closes the seam between page and engine: every change of the
walk in `DecisionConsole`, by the page's own submissions and by other clients, is
`Advance` of `AuditTrail`, which the engine implements. So the page is not judged
against a server that promises more than the engine. The walk begins before the
page is opened, so the theorem is about the steps and not the initial state.

`EvidenceNeverRefused` is about `serializeEvidence`, a recursive function of the
rows. The library's induction theorems cannot be used here, since they take an
operator as a parameter. `LeastNumber` takes the place of induction: a set of
numbers that is not empty has a least member, from the well-foundedness of the
naturals, which is about sets. `PushedUnfolds` shows with it that the recursive
function exists and unfolds as it is written, and `SerializedRows`, what it
computes for any number of rows.

### The editor's form

`PlaybookDraftProofs` proves the three properties of the form that passing runs
check, for lists of any length, from `NullApart` (neither an id nor a text is
null) and `Typable` (which kinds of metadata and orders there are).

    IInv == Typed /\ NoDanglingReference /\ ErrorsDescribeDraft /\ InFlight

`InFlight` rests on the fields being disabled during a save: the payload is the
serialization of the draft still on the screen, in which there was no error. It
is what `ErrorsDescribeDraft` needs when an answer replaces the draft, and
`NoDanglingReference`, when it replaces it by what was sent.

* The errors are found row by row, looking at earlier rows only. `NoErrorsIsClean`
  shows that their absence is `Clean`, which does not speak of an order; `Clean`
  gives every rule of `validateGraphInput` and every constraint of the schema
  (`CleanBreaksNoRule`, hence `FormNoLaxer`, which states
  `RefusedOnlyForColumns`). It says nothing of the column types.
* The rows come back in any order. `LandedIsClean` shows that whichever it is the
  form gets back its rows, and `Clean` again: `SaveRoundTrip`, a theorem without a
  run of its own, says that of every save that lands, so that what was saved can
  be saved again as it is.
* Removing a node keeps the ids of all others (`RemovalKeepsRest`), and the
  choices that stay do not refer to it (`FilterHoldsWhatStays`). `Array.filter` is
  `InOrder` in the model, the increasing enumeration of the positions that stay,
  and not `SelectSeq`, of which the prover knows no facts. That an enumeration of
  a finite set misses none of its members is counting (`OrderHoldsAll`).

### The playbook editor

`PlaybookEditorProofs` proves `CleanWasStored` and `EditsSurvive` from
`GraphsTyped`, `GraphsShaped` (a graph is its root, nodes and edges) and
`NothingApart`. `Stored` and `CallsOK`: the graph a version holds is among those
it has held; the row a call has read or was answered with has such a graph too,
or, for a load that saves came between, one whose root, nodes and edges were
held; and the row in the answer to a save has the graph that was sent. `PageWaits` and `NewPage`: a slot the page
waits for holds a call of that kind. `SavesDraft` is the lock of the form: while
a save is in flight there is no edit but what it carries, which is why its answer
may call the form clean.

### The playbook viewer

`PlaybookLibraryProofs` proves `ShownIsSelected` from `LibraryTyped` and
`AnswersAreData` (an answer is not null). For each of the three resources the
invariant says: what was read for the load in flight is what the URL names, and
so is what is shown when nothing is in flight and nothing failed. It holds
because every action that changes the URL starts the load of what the change
concerns, and starting a load drops the answer to the one before.

### Alert ingestion

`StartScreenProofs` proves both properties of ingestion that the `start_screen`
run checks, and that the first delivery wins (`FirstWriteStays`, which has no run
of its own: to whoever holds a reply `ReplyIsStored` says the same), from
`NoneIsDistinct` and `NoAlertIsNoRow` (the markers are no ids and no rows). The
invariant is

    IInv == Typed /\ RowsKnowTheirID /\ OneAlertPerExternalID /\ InFlight /\ Replied

The insert and the read that follows it are two statements. What joins them is
in `InFlight`: a delivery that the insert passed over has an external id
somebody holds. It stays true because no action changes or removes a row
(`RowsStay`), which is also why the read finds the alert and why a reply, once
given, remains the stored row (`Replied`).

### The start screen

`StartScreenProofs` then shows that the screen is a user of ingestion,
`StartSpec => Spec`: each of its steps is a step of `AlertIngestion` or leaves
the alerts alone. So the theorems above hold of the composition that the
`start_screen` run checks. Its own invariant is

    SInv == IInv /\ Fields /\ AlertHeld /\ ListHeld /\ CallsHeld

The alert the page holds is stored; a list that may be shown, neither loading
nor failed, contains only published versions of that alert's type, because
another type always triggers a load (`ListOf`); and a start in flight names such
a pair. What is stored and published stays so, so `Service.Start` finds nothing
to refuse: `OfferedNeverRefused`. For `DuplicatesOnlyAfterFailure` the invariant
`Tallied` counts a start that has not been handled as one that was made: a start
the page has given up may still reach the server. The only assumption is
`TypesKnown` (versions have types, requests in flight are finitely many).

### Only model-checked

Liveness (`EveryRequestAnswered` of engine and store, `Terminates`,
`ComesToRest`): the prover handles neither fairness nor `ENABLED`. Of
`Terminates`, that the steps run out is proved (`ValidateProgresses`); that a step
is possible until `Validate` is done is left to TLC.

## 5. Findings

1. **`detectCycles` does not report every node on a cycle.** Its comment says
   that nodes that participate in a cycle are reported individually "so a
   designer can see exactly which part of the graph loops". With edges a->b,
   a->c, b->a, c->b the search finishes b before it comes to c; c lies on
   a->c->b->a, finds b black, and is not reported. Cyclic graphs are still
   always rejected (`DecidesPublishable`) and no node is reported wrongly
   (`CycleReportsSound`).
2. **A failed load defeats the editor's route check.** The comment in
   `PlaybookEditorScreen` says that returning before the form exists makes a
   write to a version of another playbook impossible. The check reads
   `version.data`, which is null after a failed load, and then the empty form is
   shown and editable. Saving it, or pressing `Try again`, which also submits the
   form, PUTs an empty graph to the version of the route. With a right route the
   same steps replace the designer's own draft by an empty one.
3. **The start screen lists versions for an alert it has left.** "Ingest a
   different alert" takes the alert out of the URL, which disables the resource;
   `useResource` keeps the data of a disabled resource, and the panel looks at
   the data. Beside the empty form the versions for the earlier alert stay
   listed, each with a button that starts an investigation of it, where the
   panel's text would say "Ingest an alert first".

Remarks, without a run:

* The loser of a race for a decision may get another code than
  `Repository.ApplyDecision` documents (`internal/domain/investigation/repository.go:41`):
  if the winner's edge led to a terminal node it gets
  `INVESTIGATION_ALREADY_COMPLETED`, not `CodeInvalidTransition`.
* In the editor, edits made after a failed load are dropped by the load that
  succeeds later: the guard that keeps a reload from seeding again
  (`PlaybookEditorScreen.tsx:93`) has nothing to compare with until a first load
  has seeded the form. Once it has, edits do survive (`EditsSurvive`).
* The report's text for a walk without steps speaks of an investigation that
  completed at its root; it is also shown for one in progress that nobody has
  decided upon (`InvestigationReportScreen.tsx:103`).
* A decision sent again *without* a key is applied at most once, thanks to
  acyclicity (`NeverRevisits`), but its retry is refused.
* `GetVersion` of a draft may show a mix of two drafts, which the editor takes for
  a clean form. Publishing from it publishes what is stored, and leaves the mix
  on display.
* The comment on `serializePlaybookDraft` (`playbook-draft.ts:115`) says that its
  rules are exactly the write-time table of `docs/domain-model.md`, which is about
  whether a draft is "storable at all" and promises a 400 for one that is not.
  `parseSortOrder` passes on any number; 2147483648 is refused by the column
  `sort_order INTEGER` and answered with a 500. U+0000 within metadata, which
  JSONB refuses, and a label too long for an entry of the index behind
  `UNIQUE (from_node_id, label)` go the same way. Of everything else the comment
  is right (`RefusedOnlyForColumns`).
* Two creations or edits that carry the same ids in different orders can
  deadlock; the loser gets a 500 where, a moment later, it would get the 400 for
  an id that is taken.
* The console keeps stale choices on display after a refusal; the key of an
  unanswered submission is gone after a page refresh.
* `publish` in the editor leaves the draft on display as it is, so that after
  another designer's save the page shows a graph that is not the one it has just
  published; a created or cloned version takes the designer to its page even if
  they have gone elsewhere meanwhile, and so does an ingested alert.
* Creating a playbook or a version has no idempotency key: saving again after a
  lost answer creates a second one, and so does installing the demo again after a
  failure between its two calls.
* In the viewer a failed load of a playbook is rendered nowhere: the versions of
  the playbook selected before stay on display.
* Errors under evidence fields name positions; removing a row above marks
  another row until the next submission.
* In the viewer, the answer to a publication that comes after the reviewer has
  selected another version shows the published one under the other's URL;
  `ShownIsSelected` names this as its one exception (`overtaken`).

## 6. Not modelled

Start-up, configuration, logging, the migration runner and the router are
wiring. Formatting, layout and the presentational components have no state.
`List` and `Get` of summaries are single reads. The status-code table and the
JSON forms are one-to-one mappings. The server's shutdown is not modelled: for a
client it is one more lost answer. Of the editor, descriptions are left out, and
so are texts with U+0000 in them, which no field lets a designer type, and
requests beyond the limit on their size (`middleware.go`); `previewGraph` only
draws; of the viewer, the inspected node; of the start
screen, the version preselected by the link, which only highlights a row.

## 7. Plan

Done: the graph rules, the engine with its refinement, the store with the starts,
the alerts, the start screen, the decision page with evidence, the playbook
viewer and editor, the report; and the proofs of section 4.

Next: *server life*, shutdown against requests in flight.
