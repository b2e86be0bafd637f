---------------------------- MODULE StartScreen ----------------------------
(***************************************************************************)
(* The start screen (app/investigations/new/StartInvestigationScreen.tsx)  *)
(* over alert ingestion: an analyst ingests an alert, the page reads it    *)
(* back and lists the published versions written for its type, and the     *)
(* analyst starts an investigation with one of them.  Meanwhile upstream   *)
(* systems deliver alerts, designers publish, and any call is answered     *)
(* late or never.                                                          *)
(*                                                                         *)
(* An alert's content is its type.  React's effects run with the change    *)
(* that triggers them: a click is handled after the effects before it.     *)
(***************************************************************************)
EXTENDS AlertIngestion, UseResource

CONSTANTS Versions,     \* playbook versions
          TypeOf,       \* version -> the alert type of its playbook
          Calls,        \* start requests that can be open at once
          NoCall,       \* no request
          MaxFailures   \* bound: failed starts a visit goes on after

ASSUME TypesKnown ==
  /\ TypeOf \in [Versions -> Contents]
  /\ IsFiniteSet(Calls) /\ NoCall \notin Senders \cup Calls

VARIABLES published,      \* versions with status "published"
          page,           \* where the tab is, and the page's own state
          alert,          \* useResource: the alert of the URL
          list,           \* useResource: the candidate versions
          calls,          \* POST /alerts/{id}/investigations
          tally           \* of this visit: investigations made, failures shown

server == <<alerts, pc, want, reply, answer>>
startVars == <<server, published, page, alert, list, calls, tally>>

Url == AlertIDs \cup {NoAlert}

(* useState's initial values.                                              *)
FreshPage(u) ==
  [at |-> "start", url |-> u, ingesting |-> NoCall, existing |-> FALSE,
   ingestError |-> FALSE, starting |-> NoCall, startError |-> FALSE]

(* useResource, enabled by an alert in the URL.                            *)
FreshAlert(u) == Mount(u # NoAlert)

NotMounted == Mount(FALSE)
FreshTally == [made |-> 0, failed |-> 0]

StartInit ==
  /\ Init
  /\ published = {}
  /\ page = FreshPage(NoAlert)
  /\ alert = FreshAlert(NoAlert)
  /\ list = NotMounted
  /\ calls = [k \in Calls |-> NoCall]
  /\ tally = FreshTally

OnScreen == page.at \in {"start", "leaving"}

(* The screen is mounted anew: what was in flight is forgotten by the      *)
(* page, not by the server.                                                *)
Visit(u) ==
  /\ page' = FreshPage(u)
  /\ alert' = FreshAlert(u)
  /\ list' = NotMounted
  /\ tally' = FreshTally
  /\ calls' = [k \in Calls |-> IF calls[k] = NoCall \/ calls[k].code # "none" THEN NoCall
                               ELSE [calls[k] EXCEPT !.visit = FALSE]]

----------------------------------------------------------------------------
(* Everybody else.                                                         *)

(* The server's side of every delivery, the page's included.               *)
ServeDelivery(s) ==
  /\ Insert(s) \/ InsertNothing(s) \/ ReadExisting(s) \/ FailStatement(s) \/ InsertUnacknowledged(s)
  /\ UNCHANGED <<published, page, alert, list, calls, tally>>

(* An upstream delivery, and an answer nobody on the page waits for.       *)
Upstream(s) ==
  /\ s # page.ingesting
  /\ Receive(s) \/ \E d \in Delivery : Room(d) /\ Deliver(s, d)
  /\ UNCHANGED <<published, page, alert, list, calls, tally>>

Publish(v) ==
  /\ v \notin published
  /\ published' = published \cup {v}
  /\ UNCHANGED <<server, page, alert, list, calls, tally>>

----------------------------------------------------------------------------
(* Ingestion.                                                              *)

(* A form as typed: a delivery and what JSON.parse makes of the payload.   *)
Form == [external : ExternalIDs \cup {EmptyExternalID}, content : Contents \cup {InvalidContent},
         payload : {"object", "not an object"}]

(* An external id left blank is sent as null.                              *)
Body(f) == [external |-> IF f.external = EmptyExternalID THEN NoExternalID ELSE f.external,
            content |-> f.content]

LoadDemo ==
  /\ OnScreen /\ page.url = NoAlert
  /\ page' = [page EXCEPT !.ingestError = FALSE]
  /\ UNCHANGED <<server, published, alert, list, calls, tally>>

Ingest(s, f) ==
  /\ OnScreen /\ page.url = NoAlert /\ page.ingesting = NoCall
  /\ IF f.payload # "object"
     THEN page' = [page EXCEPT !.ingestError = TRUE] /\ UNCHANGED server
     ELSE /\ Room(Body(f)) /\ Deliver(s, Body(f))
          /\ page' = [page EXCEPT !.ingestError = FALSE, !.ingesting = s]
  /\ UNCHANGED <<published, alert, list, calls, tally>>

(* router.replace to an alert: on the screen the page keeps its state and  *)
(* loads the alert, from elsewhere the screen is mounted anew.  A          *)
(* navigation under way gives way to a later one.                          *)
GoToAlert(u, existing) ==
  IF OnScreen
  THEN /\ page' = [page EXCEPT !.at = "start", !.url = u, !.ingesting = NoCall,
                               !.existing = existing]
       /\ alert' = Trigger(alert, TRUE)
       /\ UNCHANGED <<list, calls, tally>>
  ELSE Visit(u)

IngestFailed ==
  /\ page' = [page EXCEPT !.ingesting = NoCall, !.ingestError = @ \/ OnScreen]
  /\ UNCHANGED <<alert, list, calls, tally>>

IngestAnswered ==
  LET s == page.ingesting
  IN  /\ s # NoCall /\ pc[s] = "answered"
      /\ Receive(s)
      /\ IF answer[s] \in {"created", "existing"}
         THEN GoToAlert(reply[s].id, answer[s] = "existing")
         ELSE IngestFailed
      /\ UNCHANGED published

IngestLost ==
  /\ page.ingesting # NoCall
  /\ IngestFailed
  /\ UNCHANGED <<server, published>>

(* "Ingest a different alert", offered beside the alert that was loaded:   *)
(* the alert leaves the URL, and the resource keeps it.                    *)
IngestAnother ==
  /\ OnScreen /\ page.url # NoAlert
  /\ ~Loading(alert) /\ ~alert.failed /\ alert.data # NoData
  /\ page' = [page EXCEPT !.url = NoAlert, !.existing = FALSE, !.startError = FALSE]
  /\ alert' = Trigger(alert, FALSE)
  /\ UNCHANGED <<server, published, list, calls, tally>>

----------------------------------------------------------------------------
(* The two resources.                                                      *)

(* Mutant: the list is not loaded again for another type.                  *)
ListOfOnce(a) == IF alert.data = NoData THEN Mount(TRUE) ELSE list

(* The list once the page has read the alert a: CandidateVersions is       *)
(* mounted with the first alert and loads again when the type is another.  *)
ListOf(a) ==
  IF alert.data = NoData THEN Mount(TRUE)
  ELSE IF alerts[a].content # alerts[alert.data].content THEN Trigger(list, TRUE) ELSE list

(* An alert never changes: reading and answering are one step.             *)
AlertLoaded ==
  /\ OnScreen /\ Loading(alert) /\ alerts[page.url] # NoAlert
  /\ alert' = Loaded(ServerRead(alert, page.url))
  /\ list' = ListOf(page.url)
  /\ UNCHANGED <<server, published, page, calls, tally>>

(* A failure, RESOURCE_NOT_FOUND included.                                 *)
AlertFailed ==
  /\ OnScreen /\ Loading(alert)
  /\ alert' = Failed(alert)
  /\ UNCHANGED <<server, published, page, list, calls, tally>>

AlertReload ==
  /\ OnScreen /\ page.url # NoAlert /\ alert.failed
  /\ alert' = Trigger(alert, TRUE)
  /\ UNCHANGED <<server, published, page, list, calls, tally>>

Mounted == OnScreen /\ alert.data # NoData

(* listPlaybooks filters by type, the page by status.                      *)
Candidates(type) == {v \in published : TypeOf[v] = type}

(* listPlaybooks and the getPlaybooks.  Reading and answering are one step *)
(* here too: an answer that travels is a list that is older when it shows. *)
ListLoaded ==
  /\ Mounted /\ Loading(list)
  /\ list' = Loaded(ServerRead(list, Candidates(alerts[alert.data].content)))
  /\ UNCHANGED <<server, published, page, alert, calls, tally>>

ListFailed ==
  /\ Mounted /\ Loading(list)
  /\ list' = Failed(list)
  /\ UNCHANGED <<server, published, page, alert, calls, tally>>

ListReload ==
  /\ Mounted /\ list.failed
  /\ list' = Trigger(list, TRUE)
  /\ UNCHANGED <<server, published, page, alert, calls, tally>>

(* The versions on the screen, each with its button.                       *)
Listed ==
  IF Mounted /\ ~Loading(list) /\ ~list.failed /\ list.data # NoData THEN list.data ELSE {}

----------------------------------------------------------------------------
(* Starting an investigation.                                              *)

(* The button is disabled while any start is under way.                    *)
Start(k, v) ==
  /\ v \in Listed /\ page.starting = NoCall
  /\ calls[k] = NoCall /\ tally.failed <= MaxFailures
  /\ calls' = [calls EXCEPT ![k] = [alert |-> alert.data, version |-> v, code |-> "none",
                                    visit |-> TRUE]]
  /\ page' = [page EXCEPT !.starting = k, !.startError = FALSE]
  /\ UNCHANGED <<server, published, alert, list, tally>>

(* Service.Start: the alert, the version, the type, the status, the row.   *)
StartCode(a, v) ==
  IF alerts[a] = NoAlert THEN "RESOURCE_NOT_FOUND"
  ELSE IF TypeOf[v] # alerts[a].content THEN "ALERT_TYPE_MISMATCH"
  ELSE IF v \notin published THEN "VERSION_NOT_PUBLISHED" ELSE "OK"

(* The server handles a start; an answer nobody waits for is dropped.      *)
ServeStart(k) ==
  /\ calls[k] # NoCall /\ calls[k].code = "none"
  /\ LET code == StartCode(calls[k].alert, calls[k].version)
     IN  /\ tally' = [tally EXCEPT !.made = @ + IF code = "OK" /\ calls[k].visit THEN 1 ELSE 0]
         /\ calls' = [calls EXCEPT ![k] = IF k = page.starting THEN [@ EXCEPT !.code = code]
                                          ELSE NoCall]
  /\ UNCHANGED <<server, published, page, alert, list>>

(* Mutant: the buttons are enabled again when the answer is there.         *)
StartAnsweredFinally ==
  LET k == page.starting
  IN  /\ k # NoCall /\ calls[k] # NoCall /\ calls[k].code = "OK"
      /\ calls' = [calls EXCEPT ![k] = NoCall]
      /\ page' = [page EXCEPT !.at = "leaving", !.starting = NoCall]
      /\ UNCHANGED <<server, published, alert, list, tally>>

(* router.push to the investigation: the page stays until it is there, its *)
(* buttons still disabled.                                                 *)
StartAnswered ==
  LET k == page.starting
  IN  /\ k # NoCall /\ calls[k] # NoCall /\ calls[k].code = "OK"
      /\ calls' = [calls EXCEPT ![k] = NoCall]
      /\ page' = [page EXCEPT !.at = "leaving"]
      /\ UNCHANGED <<server, published, alert, list, tally>>

Arrive ==
  /\ page.at = "leaving"
  /\ page' = [page EXCEPT !.at = "investigation"]
  /\ UNCHANGED <<server, published, alert, list, calls, tally>>

(* A refusal, or no answer: the request may reach the server all the same. *)
StartFailed ==
  LET k == page.starting
  IN  /\ k # NoCall /\ calls[k] # NoCall
      /\ calls' = [calls EXCEPT ![k] = IF @.code = "none" THEN @ ELSE NoCall]
      /\ page' = [page EXCEPT !.starting = NoCall, !.startError = TRUE]
      /\ tally' = [tally EXCEPT !.failed = @ + 1]
      /\ UNCHANGED <<server, published, alert, list>>

(* The screen is opened by a link, or loaded again.                        *)
Open(u) == Visit(u) /\ UNCHANGED <<server, published>>

StartNext ==
  \/ \E s \in Senders : ServeDelivery(s) \/ Upstream(s) \/ \E f \in Form : Ingest(s, f)
  \/ \E v \in Versions : Publish(v) \/ \E k \in Calls : Start(k, v)
  \/ \E k \in Calls : ServeStart(k)
  \/ \E u \in Url : Open(u)
  \/ LoadDemo \/ IngestAnswered \/ IngestLost \/ IngestAnother
  \/ AlertLoaded \/ AlertFailed \/ AlertReload
  \/ ListLoaded \/ ListFailed \/ ListReload
  \/ StartAnswered \/ Arrive \/ StartFailed

StartSpec == StartInit /\ [][StartNext]_startVars

----------------------------------------------------------------------------
(* Properties.                                                             *)

(* A start the page offers is one the service accepts: whatever alerts     *)
(* come and go on the page and however old its list is, the version listed *)
(* is published and written for the type of the alert the start names.     *)
OfferedNeverRefused ==
  \A k \in Calls : calls[k] # NoCall => calls[k].code \in {"none", "OK"}

(* The API has no idempotency key for a start.  The page alone never makes *)
(* a second investigation: one visit has made no more of them than it has  *)
(* been told of failures, apart from the one it is about to open.          *)
DuplicatesOnlyAfterFailure ==
  tally.made <= tally.failed + (IF page.starting # NoCall THEN 1 ELSE 0)

(* "Ingest an alert first": versions are listed only for the alert the     *)
(* page is about.                                                          *)
ListedForPageAlert == Listed # {} => page.url = alert.data

=============================================================================
