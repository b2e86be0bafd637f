------------------------- MODULE StartScreenProofs -------------------------
(***************************************************************************)
(* Proofs about alert ingestion and the start screen that calls it, for    *)
(* any number of alerts, external ids, versions, upstream senders and      *)
(* start requests in flight.  The unique index alone carries the           *)
(* ingestion: the insert and the read that follows it are not one          *)
(* transaction.                                                            *)
(***************************************************************************)
EXTENDS StartScreen, FiniteSetTheorems, TLAPS

----------------------------------------------------------------------------
(* Alert ingestion.                                                        *)

(* What the tables and the requests in flight hold.                        *)
Typed ==
  /\ alerts \in [AlertIDs -> AlertRow \cup {NoAlert}]
  /\ pc \in [Senders -> {"idle", "insert", "read", "answered"}]
  /\ want \in [Senders -> Delivery \cup {NoRequest}]
  /\ reply \in [Senders -> AlertRow \cup {NoAlert}]
  /\ answer \in [Senders -> {"none", "created", "existing", "VALIDATION_FAILED",
                             "RESOURCE_NOT_FOUND", "INTERNAL_ERROR"}]

RowsKnowTheirID == \A a \in AlertIDs : alerts[a] # NoAlert => alerts[a].id = a

(* A delivery past its validation is valid; one that the insert passed     *)
(* over has an external id somebody holds, for good.                       *)
InFlight ==
  \A s \in Senders :
    /\ pc[s] \in {"insert", "read"} => want[s] \in Delivery /\ ~Invalid(want[s])
    /\ pc[s] = "read" => want[s].external # NoExternalID /\ Held(want[s].external) # {}
    /\ pc[s] # "answered" => answer[s] = "none"

(* A reply shows the row that is stored, under the external id asked for.  *)
Replied ==
  \A s \in Senders :
    /\ answer[s] \in {"created", "existing"} =>
         /\ reply[s] \in AlertRow
         /\ reply[s] = alerts[reply[s].id]
         /\ reply[s].external = want[s].external
    /\ answer[s] # "RESOURCE_NOT_FOUND"

IInv == Typed /\ RowsKnowTheirID /\ OneAlertPerExternalID /\ InFlight /\ Replied

(* A delivery that Create accepts makes a row.                             *)
LEMMA AcceptedIsRow ==
  ASSUME NEW d \in Delivery, ~Invalid(d), NEW a \in AlertIDs
  PROVE  Row(d, a) \in AlertRow
BY DEF Delivery, Invalid, Row, AlertRow

LEMMA InitInv == Init => IInv
BY DEF Init, IInv, Typed, RowsKnowTheirID, OneAlertPerExternalID, Held, InFlight, Replied

(* The step that stores a row, whatever is answered.                       *)
Store(s, a) ==
  /\ pc[s] = "insert" /\ ~Taken(want[s])
  /\ a \in Free
  /\ alerts' = [alerts EXCEPT ![a] = Row(want[s], a)]

(* A stored row takes a free id and an external id nobody holds, and       *)
(* leaves the other rows alone.                                            *)
LEMMA StoreKeepsTable ==
  ASSUME IInv, NEW s \in Senders, NEW a \in AlertIDs, Store(s, a)
  PROVE  /\ Row(want[s], a) \in AlertRow
         /\ alerts' \in [AlertIDs -> AlertRow \cup {NoAlert}]
         /\ RowsKnowTheirID'
         /\ OneAlertPerExternalID'
         /\ alerts'[a] = Row(want[s], a)
         /\ \A b \in AlertIDs : alerts[b] # NoAlert => alerts'[b] = alerts[b]
<1>1. Row(want[s], a) \in AlertRow
  BY AcceptedIsRow DEF IInv, InFlight, Store
<1>2. /\ alerts' \in [AlertIDs -> AlertRow \cup {NoAlert}]
      /\ alerts'[a] = Row(want[s], a)
      /\ \A b \in AlertIDs : b # a => alerts'[b] = alerts[b]
      /\ alerts[a] = NoAlert
  BY <1>1 DEF IInv, Typed, Store, Free
<1>3. RowsKnowTheirID'
  BY <1>2 DEF IInv, RowsKnowTheirID, Row
<1>4. OneAlertPerExternalID'
  <2> SUFFICES ASSUME NEW x \in ExternalIDs, NEW b \in Held(x)', NEW c \in Held(x)'
               PROVE  b = c
    BY DEF OneAlertPerExternalID
  <2>1. b \in AlertIDs /\ c \in AlertIDs /\ alerts'[b].external = x /\ alerts'[c].external = x
        /\ alerts'[b] # NoAlert /\ alerts'[c] # NoAlert
    BY DEF Held
  <2>2. \A e \in AlertIDs : e # a /\ alerts'[e] # NoAlert /\ alerts'[e].external = x => e \in Held(x)
    BY <1>2 DEF Held
  <2>3. x # NoExternalID
    BY NoneIsDistinct
  <2>4. want[s].external = x => Held(x) = {}
    BY <2>3 DEF Store, Taken
  <2>5. Row(want[s], a).external = want[s].external
    BY DEF Row
  <2> QED
    BY <1>2, <2>1, <2>2, <2>4, <2>5 DEF IInv, OneAlertPerExternalID
<1> QED
  BY <1>1, <1>2, <1>3, <1>4

(* While no row changes or goes, the requests of the others stay as they   *)
(* are described.                                                          *)
LEMMA HeldStays ==
  ASSUME NEW x, alerts' \in [AlertIDs -> AlertRow \cup {NoAlert}],
         \A b \in AlertIDs : alerts[b] # NoAlert => alerts'[b] = alerts[b]
  PROVE  Held(x) \subseteq Held(x)'
BY DEF Held

LEMMA NextInv == IInv /\ [Next]_vars => IInv'
<1> SUFFICES ASSUME IInv, [Next]_vars PROVE IInv'
  OBVIOUS
<1> USE DEF IInv
<1>1. CASE UNCHANGED vars
  BY <1>1 DEF vars, Typed, RowsKnowTheirID, OneAlertPerExternalID, Held, InFlight, Replied
<1>2. ASSUME NEW s \in Senders, NEW d \in Delivery, Deliver(s, d) PROVE IInv'
  <2>1. Typed'
    BY <1>2 DEF Typed, Deliver, Reply
  <2>2. RowsKnowTheirID' /\ OneAlertPerExternalID'
    BY <1>2 DEF Deliver, RowsKnowTheirID, OneAlertPerExternalID, Held
  <2>3. InFlight'
    BY <1>2, <2>1 DEF Typed, Deliver, Reply, InFlight, Held
  <2>4. Replied'
    BY <1>2, <2>1 DEF Typed, Deliver, Reply, Replied, InFlight
  <2> QED BY <2>1, <2>2, <2>3, <2>4
<1>3. ASSUME NEW s \in Senders, Insert(s) PROVE IInv'
  <2>1. PICK a \in AlertIDs : Store(s, a) /\ Reply(s, "created", Row(want[s], a))
    BY <1>3 DEF Insert, Store, Free
  <2>2. /\ Row(want[s], a) \in AlertRow
        /\ alerts' \in [AlertIDs -> AlertRow \cup {NoAlert}]
        /\ alerts'[a] = Row(want[s], a)
        /\ \A b \in AlertIDs : alerts[b] # NoAlert => alerts'[b] = alerts[b]
    BY <2>1, StoreKeepsTable
  <2>3. Typed'
    BY <1>3, <2>1, <2>2 DEF Typed, Insert, Reply
  <2>4. RowsKnowTheirID' /\ OneAlertPerExternalID'
    BY <2>1, StoreKeepsTable
  <2>5. InFlight'
    <3> SUFFICES ASSUME NEW t \in Senders
                 PROVE  /\ pc'[t] \in {"insert", "read"} => want[t] \in Delivery /\ ~Invalid(want[t])
                        /\ pc'[t] = "read" => want[t].external # NoExternalID /\ (Held(want[t].external) # {})'
                        /\ pc'[t] # "answered" => answer'[t] = "none"
      BY <1>3 DEF InFlight, Insert
    <3>1. Held(want[t].external) \subseteq
            {b \in AlertIDs : alerts'[b] # NoAlert /\ alerts'[b].external = want[t].external}
      BY <2>2, HeldStays DEF Held
    <3> QED
      BY <1>3, <2>1, <3>1 DEF Typed, Insert, Reply, InFlight, Held
  <2>6. Replied'
    BY <1>3, <2>1, <2>2, NoAlertIsNoRow DEF Typed, Insert, Reply, Replied, Row, AlertRow
  <2> QED BY <2>3, <2>4, <2>5, <2>6
<1>4. ASSUME NEW s \in Senders, InsertNothing(s) PROVE IInv'
  <2>1. Typed'
    BY <1>4 DEF Typed, InsertNothing
  <2>2. RowsKnowTheirID' /\ OneAlertPerExternalID'
    BY <1>4 DEF InsertNothing, RowsKnowTheirID, OneAlertPerExternalID, Held
  <2>3. InFlight'
    BY <1>4, <2>1 DEF Typed, InsertNothing, InFlight, Held, Taken
  <2>4. Replied'
    BY <1>4 DEF InsertNothing, Replied
  <2> QED BY <2>1, <2>2, <2>3, <2>4
<1>5. ASSUME NEW s \in Senders, ReadExisting(s) PROVE IInv'
  <2>1. pc[s] = "read" /\ Held(want[s].external) # {}
    BY <1>5 DEF ReadExisting, InFlight
  <2>2. PICK a \in Held(want[s].external) : Reply(s, "existing", alerts[a])
    BY <1>5, <2>1 DEF ReadExisting
  <2>3. a \in AlertIDs /\ alerts[a] \in AlertRow /\ alerts[a].id = a
        /\ alerts[a].external = want[s].external
    BY <2>2 DEF Held, Typed, RowsKnowTheirID
  <2>4. UNCHANGED <<alerts, want>>
    BY <1>5 DEF ReadExisting
  <2>5. Typed'
    BY <2>2, <2>3, <2>4 DEF Typed, Reply
  <2>6. RowsKnowTheirID' /\ OneAlertPerExternalID'
    BY <2>4 DEF RowsKnowTheirID, OneAlertPerExternalID, Held
  <2>7. InFlight'
    BY <2>2, <2>4 DEF Typed, Reply, InFlight, Held
  <2>8. Replied'
    BY <2>2, <2>3, <2>4 DEF Typed, Reply, Replied
  <2> QED BY <2>5, <2>6, <2>7, <2>8
<1>6. ASSUME NEW s \in Senders, FailStatement(s) PROVE IInv'
  <2>1. Typed'
    BY <1>6 DEF Typed, FailStatement, Reply
  <2>2. RowsKnowTheirID' /\ OneAlertPerExternalID'
    BY <1>6 DEF FailStatement, RowsKnowTheirID, OneAlertPerExternalID, Held
  <2>3. InFlight' /\ Replied'
    BY <1>6 DEF Typed, FailStatement, Reply, InFlight, Held, Replied
  <2> QED BY <2>1, <2>2, <2>3
<1>7. ASSUME NEW s \in Senders, InsertUnacknowledged(s) PROVE IInv'
  <2>1. PICK a \in AlertIDs : Store(s, a)
    BY <1>7 DEF InsertUnacknowledged, Store, Free
  <2>2. /\ alerts' \in [AlertIDs -> AlertRow \cup {NoAlert}]
        /\ \A b \in AlertIDs : alerts[b] # NoAlert => alerts'[b] = alerts[b]
        /\ RowsKnowTheirID' /\ OneAlertPerExternalID'
    BY <2>1, StoreKeepsTable
  <2>3. Reply(s, "INTERNAL_ERROR", NoAlert) /\ UNCHANGED want /\ pc[s] = "insert"
    BY <1>7 DEF InsertUnacknowledged
  <2>4. Typed'
    BY <2>2, <2>3 DEF Typed, Reply
  <2>5. InFlight'
    <3> SUFFICES ASSUME NEW t \in Senders
                 PROVE  /\ pc'[t] \in {"insert", "read"} => want[t] \in Delivery /\ ~Invalid(want[t])
                        /\ pc'[t] = "read" => want[t].external # NoExternalID /\ (Held(want[t].external) # {})'
                        /\ pc'[t] # "answered" => answer'[t] = "none"
      BY <2>3 DEF InFlight
    <3>1. Held(want[t].external) \subseteq
            {b \in AlertIDs : alerts'[b] # NoAlert /\ alerts'[b].external = want[t].external}
      BY <2>2, HeldStays DEF Held
    <3> QED
      BY <2>3, <3>1 DEF Typed, Reply, InFlight, Held
  <2>6. Replied'
    BY <2>2, <2>3, NoAlertIsNoRow DEF Typed, Reply, Replied, AlertRow
  <2> QED BY <2>2, <2>4, <2>5, <2>6
<1>8. ASSUME NEW s \in Senders, Receive(s) PROVE IInv'
  <2>1. Typed'
    BY <1>8 DEF Typed, Receive
  <2>2. RowsKnowTheirID' /\ OneAlertPerExternalID'
    BY <1>8 DEF Receive, RowsKnowTheirID, OneAlertPerExternalID, Held
  <2>3. InFlight' /\ Replied'
    BY <1>8 DEF Typed, Receive, InFlight, Held, Replied
  <2> QED BY <2>1, <2>2, <2>3
<1> QED
  BY <1>1, <1>2, <1>3, <1>4, <1>5, <1>6, <1>7, <1>8 DEF Next

(* Every step keeps the rows there are: no action of ingestion updates or  *)
(* deletes an alert.                                                       *)
LEMMA RowsStay ==
  IInv /\ [Next]_vars => \A a \in AlertIDs : alerts[a] # NoAlert => alerts'[a] = alerts[a]
<1> SUFFICES ASSUME IInv, [Next]_vars, NEW a \in AlertIDs, alerts[a] # NoAlert
             PROVE  alerts'[a] = alerts[a]
  OBVIOUS
<1>1. ASSUME NEW s \in Senders, NEW b \in Free, alerts' = [alerts EXCEPT ![b] = Row(want[s], b)]
      PROVE  alerts'[a] = alerts[a]
  BY <1>1 DEF Free, IInv, Typed
<1>2. CASE UNCHANGED vars
  BY <1>2 DEF vars
<1> QED
  BY <1>1, <1>2 DEF Next, Deliver, Insert, InsertNothing, ReadExisting, FailStatement,
                    InsertUnacknowledged, Receive

----------------------------------------------------------------------------
(* The inductive invariant holds of ingestion, however many senders race.  *)
THEOREM IngestionInductive == Spec => []IInv
BY InitInv, NextInv, PTL DEF Spec

(* One row per external id: the partial unique index, under any number of  *)
(* concurrent and repeated deliveries (AlertRepository.Create).            *)
THEOREM AlertStoredOnce == Spec => []OneAlertPerExternalID
<1>1. IInv => OneAlertPerExternalID
  BY DEF IInv
<1> QED BY <1>1, IngestionInductive, PTL

(* A delivery is answered with the row that is stored, and one that lost   *)
(* the race is never told that there is none (getByExternalID).            *)
THEOREM ReplyIsTruthful == Spec => []ReplyIsStored
<1>1. IInv => ReplyIsStored
  BY DEF IInv, Replied, ReplyIsStored
<1> QED BY <1>1, IngestionInductive, PTL

(* A later delivery rewrites nothing: ON CONFLICT DO NOTHING.              *)
THEOREM FirstWriteStays == Spec => FirstWriteWins
<1>1. IInv /\ [Next]_vars => [\A a \in AlertIDs : alerts[a] # NoAlert => alerts'[a] = alerts[a]]_vars
  BY RowsStay
<1> QED BY <1>1, IngestionInductive, PTL DEF Spec, FirstWriteWins

----------------------------------------------------------------------------
(* The start screen.                                                       *)

(* What the page, its two resources and the requests have as fields.       *)
Fields ==
  /\ DOMAIN page = {"at", "url", "ingesting", "existing", "ingestError", "starting", "startError"}
  /\ page.url \in Url
  /\ page.ingesting \in Senders \cup {NoCall}
  /\ page.starting \in Calls \cup {NoCall}
  /\ DOMAIN alert = {"data", "load", "read", "failed"}
  /\ DOMAIN list = {"data", "load", "read", "failed"}
  /\ DOMAIN calls = Calls
  /\ \A k \in Calls : calls[k] # NoCall => DOMAIN calls[k] = {"alert", "version", "code", "visit"}

(* The alert the page shows is stored, and one it waits for has an id.     *)
AlertHeld ==
  /\ Loading(alert) => page.url \in AlertIDs
  /\ alert.data # NoData => alert.data \in AlertIDs /\ alerts[alert.data] # NoAlert

(* A list the page may show is of published versions, for the type of the  *)
(* alert it holds.                                                         *)
ListHeld ==
  alert.data # NoData /\ ~Loading(list) /\ ~list.failed /\ list.data # NoData
    => list.data \subseteq Candidates(alerts[alert.data].content)

(* So is every start under way.                                            *)
CallsHeld ==
  \A k \in Calls : calls[k] # NoCall =>
    /\ calls[k].alert \in AlertIDs /\ alerts[calls[k].alert] # NoAlert
    /\ calls[k].version \in published
    /\ TypeOf[calls[k].version] = alerts[calls[k].alert].content
    /\ calls[k].code \in {"none", "OK"}

SInv == IInv /\ Fields /\ AlertHeld /\ ListHeld /\ CallsHeld

----------------------------------------------------------------------------
(* The screen is a user of ingestion: it does nothing to the alerts that a *)
(* sender might not do.                                                    *)

LEMMA InitIsIngestion == StartInit => Init
BY DEF StartInit

LEMMA NextIsIngestion == Fields /\ [StartNext]_startVars => [Next]_vars
<1> SUFFICES ASSUME Fields, [StartNext]_startVars PROVE [Next]_vars
  OBVIOUS
<1> USE DEF server, vars
<1>1. CASE UNCHANGED startVars
  BY <1>1 DEF startVars
<1>2. ASSUME NEW s \in Senders, ServeDelivery(s) PROVE Next
  BY <1>2 DEF ServeDelivery, Next
<1>3. ASSUME NEW s \in Senders, Upstream(s) PROVE Next
  BY <1>3 DEF Upstream, Next
<1>4. ASSUME NEW s \in Senders, NEW f \in Form, Ingest(s, f) PROVE [Next]_vars
  <2>1. Body(f) \in Delivery
    BY DEF Form, Body, Delivery
  <2> QED BY <1>4, <2>1 DEF Ingest, Next
<1>5. CASE IngestAnswered
  <2>1. page.ingesting \in Senders /\ Receive(page.ingesting)
    BY <1>5 DEF IngestAnswered, Fields
  <2> QED BY <2>1 DEF Next
<1>6. ASSUME NEW v \in Versions, Publish(v) PROVE UNCHANGED vars
  BY <1>6 DEF Publish
<1>7. ASSUME NEW v \in Versions, NEW k \in Calls, Start(k, v) PROVE UNCHANGED vars
  BY <1>7 DEF Start
<1>8. ASSUME NEW k \in Calls, ServeStart(k) PROVE UNCHANGED vars
  BY <1>8 DEF ServeStart
<1>9. ASSUME NEW u \in Url, Open(u) PROVE UNCHANGED vars
  BY <1>9 DEF Open
<1>10. CASE LoadDemo \/ IngestLost \/ IngestAnother
  BY <1>10 DEF LoadDemo, IngestLost, IngestAnother
<1>11. CASE AlertLoaded \/ AlertFailed \/ AlertReload \/ ListLoaded \/ ListFailed \/ ListReload
  BY <1>11 DEF AlertLoaded, AlertFailed, AlertReload, ListLoaded, ListFailed, ListReload
<1>12. CASE StartAnswered \/ Arrive \/ StartFailed
  BY <1>12 DEF StartAnswered, Arrive, StartFailed
<1> QED
  BY <1>1, <1>2, <1>3, <1>4, <1>5, <1>6, <1>7, <1>8, <1>9, <1>10, <1>11, <1>12 DEF StartNext

----------------------------------------------------------------------------
(* The invariant of the screen.                                            *)

LEMMA StartInitInv == StartInit => SInv
<1> SUFFICES ASSUME StartInit PROVE SInv
  OBVIOUS
<1>1. IInv
  BY InitInv DEF StartInit
<1>2. Fields
  BY DEF StartInit, Fields, FreshPage, FreshAlert, NotMounted, Mount, Url
<1>3. AlertHeld /\ ListHeld /\ CallsHeld
  BY DEF StartInit, AlertHeld, ListHeld, CallsHeld, FreshAlert, NotMounted, Mount, Loading
<1> QED BY <1>1, <1>2, <1>3 DEF SInv

(* What is stored and what is published stays so: a step that changes      *)
(* nothing of the page keeps what the page holds.                          *)
LEMMA PageUndisturbed ==
  ASSUME SInv, \A a \in AlertIDs : alerts[a] # NoAlert => alerts'[a] = alerts[a],
         published \subseteq published', UNCHANGED <<page, alert, list, calls>>
  PROVE  Fields' /\ AlertHeld' /\ ListHeld' /\ CallsHeld'
<1>1. Fields'
  BY DEF SInv, Fields
<1>2. AlertHeld'
  BY DEF SInv, AlertHeld, Loading
<1>3. ListHeld'
  BY DEF SInv, ListHeld, AlertHeld, Loading, Candidates
<1>4. CallsHeld'
  BY DEF SInv, CallsHeld
<1> QED BY <1>1, <1>2, <1>3, <1>4

LEMMA ScreenKept ==
  SInv /\ [StartNext]_startVars => Fields' /\ AlertHeld' /\ ListHeld' /\ CallsHeld'
<1> SUFFICES ASSUME SInv, [StartNext]_startVars
             PROVE  Fields' /\ AlertHeld' /\ ListHeld' /\ CallsHeld'
  OBVIOUS
<1> DEFINE Kept == Fields' /\ AlertHeld' /\ ListHeld' /\ CallsHeld'
<1>0. \A a \in AlertIDs : alerts[a] # NoAlert => alerts'[a] = alerts[a]
  BY NextIsIngestion, RowsStay DEF SInv
<1>1. CASE UNCHANGED startVars
  BY <1>0, <1>1, PageUndisturbed DEF startVars
<1>2. ASSUME NEW s \in Senders, ServeDelivery(s) \/ Upstream(s) PROVE Kept
  BY <1>0, <1>2, PageUndisturbed DEF ServeDelivery, Upstream
<1>3. ASSUME NEW v \in Versions, Publish(v) PROVE Kept
  BY <1>0, <1>3, PageUndisturbed DEF Publish
<1>4. ASSUME UNCHANGED <<published, alert, list, calls>>, DOMAIN page' = DOMAIN page,
             page'.url = page.url, page'.ingesting \in Senders \cup {NoCall},
             page'.starting \in Calls \cup {NoCall}
      PROVE  Kept
  <2>1. Fields'
    BY <1>4 DEF SInv, Fields
  <2>2. AlertHeld'
    BY <1>0, <1>4 DEF SInv, AlertHeld, Loading
  <2>3. ListHeld'
    BY <1>0, <1>4 DEF SInv, ListHeld, AlertHeld, Loading, Candidates
  <2>4. CallsHeld'
    BY <1>0, <1>4 DEF SInv, CallsHeld
  <2> QED BY <2>1, <2>2, <2>3, <2>4
<1>5. ASSUME NEW s \in Senders, NEW f \in Form, Ingest(s, f) PROVE Kept
  <2>1. CASE f.payload # "object"
    BY <1>4, <1>5, <2>1 DEF Ingest, SInv, Fields
  <2>2. CASE f.payload = "object"
    BY <1>4, <1>5, <2>2 DEF Ingest, SInv, Fields
  <2> QED BY <2>1, <2>2
<1>6. CASE LoadDemo \/ Arrive
  BY <1>4, <1>6 DEF LoadDemo, Arrive, SInv, Fields
<1>7. ASSUME IngestFailed, UNCHANGED published PROVE Kept
  BY <1>4, <1>7 DEF IngestFailed, SInv, Fields
<1>8. ASSUME NEW u \in Url, Visit(u), UNCHANGED published PROVE Kept
  <2>1. Fields'
    BY <1>8 DEF Visit, SInv, Fields, FreshPage, FreshAlert, NotMounted, Mount
  <2>2. AlertHeld' /\ ListHeld'
    BY <1>8 DEF Visit, AlertHeld, ListHeld, FreshPage, FreshAlert, NotMounted, Mount, Loading, Url
  <2>3. CallsHeld'
    BY <1>0, <1>8 DEF Visit, SInv, Fields, CallsHeld
  <2> QED BY <2>1, <2>2, <2>3
<1>9. CASE IngestAnswered
  <2>1. CASE answer[page.ingesting] \in {"created", "existing"}
    <3> DEFINE u == reply[page.ingesting].id
    <3>1. u \in AlertIDs
      BY <1>9, <2>1 DEF IngestAnswered, SInv, Fields, IInv, Replied, AlertRow
    <3>2. GoToAlert(u, answer[page.ingesting] = "existing") /\ UNCHANGED published
      BY <1>9, <2>1 DEF IngestAnswered
    <3>3. CASE ~OnScreen
      BY <1>8, <3>1, <3>2, <3>3 DEF GoToAlert, Url
    <3>4. CASE OnScreen
      <4>1. /\ page' = [page EXCEPT !.at = "start", !.url = u, !.ingesting = NoCall,
                                     !.existing = (answer[page.ingesting] = "existing")]
            /\ alert' = [alert EXCEPT !.load = "sent", !.read = NoData, !.failed = FALSE]
            /\ UNCHANGED <<list, calls, published>>
        BY <3>2, <3>4 DEF GoToAlert, Trigger
      <4>2. Fields'
        BY <3>1, <4>1 DEF SInv, Fields, Url
      <4>3. alert'.data = alert.data /\ page'.url = u
        BY <4>1 DEF SInv, Fields
      <4>4. AlertHeld'
        BY <1>0, <3>1, <4>3 DEF SInv, AlertHeld
      <4>5. ListHeld'
        BY <1>0, <4>1, <4>3 DEF SInv, ListHeld, AlertHeld, Loading, Candidates
      <4>6. CallsHeld'
        BY <1>0, <4>1 DEF SInv, CallsHeld
      <4> QED BY <4>2, <4>4, <4>5, <4>6
    <3> QED BY <3>3, <3>4
  <2>2. CASE answer[page.ingesting] \notin {"created", "existing"}
    BY <1>7, <1>9, <2>2 DEF IngestAnswered
  <2> QED BY <2>1, <2>2
<1>10. CASE IngestLost
  BY <1>7, <1>10 DEF IngestLost
<1>11. CASE IngestAnother
  <2>1. /\ page' = [page EXCEPT !.url = NoAlert, !.existing = FALSE, !.startError = FALSE]
        /\ alert' = [alert EXCEPT !.load = "none", !.read = NoData]
        /\ UNCHANGED <<published, list, calls>>
    BY <1>11 DEF IngestAnother, Trigger
  <2>2. Fields'
    BY <2>1 DEF SInv, Fields, Url
  <2>3. alert'.data = alert.data /\ alert'.load = "none"
    BY <2>1 DEF SInv, Fields
  <2>4. AlertHeld'
    BY <1>0, <2>3 DEF SInv, AlertHeld, Loading
  <2>5. ListHeld'
    BY <1>0, <2>1, <2>3 DEF SInv, ListHeld, AlertHeld, Loading, Candidates
  <2>6. CallsHeld'
    BY <1>0, <2>1 DEF SInv, CallsHeld
  <2> QED BY <2>2, <2>4, <2>5, <2>6
<1>12. CASE AlertLoaded
  <2>1. /\ page.url \in AlertIDs /\ alerts[page.url] # NoAlert
        /\ DOMAIN alert' = {"data", "load", "read", "failed"}
        /\ alert'.data = page.url /\ alert'.load = "none"
        /\ list' = ListOf(page.url)
        /\ UNCHANGED <<alerts, published, page, calls>>
    BY <1>12 DEF AlertLoaded, ServerRead, Loaded, SInv, Fields, AlertHeld, server
  <2>2. \/ list'.load = "sent" /\ DOMAIN list' = {"data", "load", "read", "failed"}
        \/ /\ alert.data # NoData /\ list' = list
           /\ alerts[page.url].content = alerts[alert.data].content
    BY <2>1 DEF ListOf, Mount, Trigger, SInv, Fields
  <2>3. Fields'
    BY <2>1, <2>2 DEF SInv, Fields
  <2>4. AlertHeld'
    BY <2>1 DEF AlertHeld, Loading
  <2>5. ListHeld'
    BY <2>1, <2>2 DEF SInv, ListHeld, Loading, Candidates
  <2>6. CallsHeld'
    BY <2>1 DEF SInv, CallsHeld
  <2> QED BY <2>3, <2>4, <2>5, <2>6
<1>13. CASE AlertFailed \/ AlertReload
  <2>1. /\ DOMAIN alert' = DOMAIN alert /\ alert'.data = alert.data
        /\ Loading(alert') => page.url \in AlertIDs
        /\ UNCHANGED <<alerts, published, page, list, calls>>
    BY <1>13 DEF AlertFailed, AlertReload, Failed, Trigger, Loading, SInv, Fields, Url, server
  <2>2. Fields'
    BY <2>1 DEF SInv, Fields
  <2>3. AlertHeld' /\ ListHeld'
    BY <2>1 DEF SInv, AlertHeld, ListHeld, Loading, Candidates
  <2>4. CallsHeld'
    BY <2>1 DEF SInv, CallsHeld
  <2> QED BY <2>2, <2>3, <2>4
<1>14. CASE ListLoaded
  <2>1. /\ DOMAIN list' = {"data", "load", "read", "failed"}
        /\ list'.data = Candidates(alerts[alert.data].content)
        /\ UNCHANGED <<alerts, published, page, alert, calls>>
    BY <1>14 DEF ListLoaded, ServerRead, Loaded, SInv, Fields, server
  <2>2. Fields'
    BY <2>1 DEF SInv, Fields
  <2>3. AlertHeld' /\ ListHeld'
    BY <2>1 DEF SInv, AlertHeld, ListHeld, Loading, Candidates
  <2>4. CallsHeld'
    BY <2>1 DEF SInv, CallsHeld
  <2> QED BY <2>2, <2>3, <2>4
<1>15. CASE ListFailed \/ ListReload
  <2>1. /\ DOMAIN list' = {"data", "load", "read", "failed"}
        /\ list'.failed = TRUE \/ list'.load = "sent"
        /\ UNCHANGED <<alerts, published, page, alert, calls>>
    BY <1>15 DEF ListFailed, ListReload, Failed, Trigger, SInv, Fields, server
  <2>2. Fields'
    BY <2>1 DEF SInv, Fields
  <2>3. AlertHeld' /\ ListHeld'
    BY <2>1 DEF SInv, AlertHeld, ListHeld, Loading
  <2>4. CallsHeld'
    BY <2>1 DEF SInv, CallsHeld
  <2> QED BY <2>2, <2>3, <2>4
<1>16. ASSUME UNCHANGED <<alerts, published, alert, list>>, DOMAIN page' = DOMAIN page,
              page'.url = page.url, page'.ingesting = page.ingesting,
              page'.starting \in Calls \cup {NoCall},
              DOMAIN calls' = Calls,
              \A k \in Calls : calls'[k] # NoCall =>
                 DOMAIN calls'[k] = {"alert", "version", "code", "visit"},
              CallsHeld'
       PROVE  Kept
  <2>1. Fields'
    BY <1>16 DEF SInv, Fields
  <2>2. AlertHeld' /\ ListHeld'
    BY <1>16 DEF SInv, AlertHeld, ListHeld, Loading, Candidates
  <2> QED BY <1>16, <2>1, <2>2
<1>17. ASSUME NEW v \in Versions, NEW k \in Calls, Start(k, v) PROVE Kept
  <2> DEFINE c == [alert |-> alert.data, version |-> v, code |-> "none", visit |-> TRUE]
  <2>1. /\ v \in list.data /\ Mounted /\ ~Loading(list) /\ ~list.failed /\ list.data # NoData
        /\ calls' = [calls EXCEPT ![k] = c]
        /\ page' = [page EXCEPT !.starting = k, !.startError = FALSE]
        /\ UNCHANGED <<alerts, published, alert, list>>
    BY <1>17 DEF Start, Listed, server
  <2>2. /\ alert.data \in AlertIDs /\ alerts[alert.data] # NoAlert
        /\ v \in published /\ TypeOf[v] = alerts[alert.data].content
    BY <2>1 DEF SInv, AlertHeld, ListHeld, Mounted, Candidates
  <2>3. /\ DOMAIN calls' = Calls /\ calls'[k] = c
        /\ \A j \in Calls : j # k => calls'[j] = calls[j]
    BY <2>1 DEF SInv, Fields
  <2>4. CallsHeld'
    BY <2>1, <2>2, <2>3 DEF SInv, CallsHeld
  <2>5. \A j \in Calls : calls'[j] # NoCall =>
          DOMAIN calls'[j] = {"alert", "version", "code", "visit"}
    BY <2>3 DEF SInv, Fields
  <2>6. /\ DOMAIN page' = DOMAIN page /\ page'.url = page.url
        /\ page'.ingesting = page.ingesting /\ page'.starting = k
    BY <2>1 DEF SInv, Fields
  <2> QED BY <1>16, <2>1, <2>3, <2>4, <2>5, <2>6
<1>18. ASSUME NEW k \in Calls, ServeStart(k) PROVE Kept
  <2> DEFINE code == StartCode(calls[k].alert, calls[k].version)
  <2>1. /\ calls[k] # NoCall /\ code = "OK"
        /\ calls' = [calls EXCEPT ![k] = IF k = page.starting THEN [@ EXCEPT !.code = code]
                                         ELSE NoCall]
        /\ UNCHANGED <<alerts, published, page, alert, list>>
    BY <1>18 DEF ServeStart, StartCode, SInv, CallsHeld, server
  <2>2. /\ DOMAIN calls' = Calls
        /\ \A j \in Calls : j # k => calls'[j] = calls[j]
        /\ calls'[k] = NoCall \/ calls'[k] = [calls[k] EXCEPT !.code = "OK"]
    BY <2>1 DEF SInv, Fields
  <2>3. calls'[k] # NoCall =>
          /\ DOMAIN calls'[k] = {"alert", "version", "code", "visit"}
          /\ calls'[k].alert = calls[k].alert /\ calls'[k].version = calls[k].version
          /\ calls'[k].code = "OK"
    BY <2>1, <2>2 DEF SInv, Fields
  <2>4. CallsHeld'
    BY <2>1, <2>2, <2>3 DEF SInv, CallsHeld
  <2>5. \A j \in Calls : calls'[j] # NoCall =>
          DOMAIN calls'[j] = {"alert", "version", "code", "visit"}
    BY <2>2, <2>3 DEF SInv, Fields
  <2> QED BY <1>16, <2>1, <2>2, <2>4, <2>5 DEF SInv, Fields
<1>19. CASE StartAnswered \/ StartFailed
  <2> DEFINE k == page.starting
  <2>1. /\ k \in Calls
        /\ calls' = [calls EXCEPT ![k] = NoCall] \/ calls' = [calls EXCEPT ![k] = @]
        /\ DOMAIN page' = DOMAIN page /\ page'.url = page.url
        /\ page'.ingesting = page.ingesting /\ page'.starting \in Calls \cup {NoCall}
        /\ UNCHANGED <<alerts, published, alert, list>>
    BY <1>19 DEF StartAnswered, StartFailed, SInv, Fields, server
  <2>2. DOMAIN calls' = Calls /\ \A j \in Calls : calls'[j] = NoCall \/ calls'[j] = calls[j]
    BY <2>1 DEF SInv, Fields
  <2>3. CallsHeld'
    BY <2>1, <2>2 DEF SInv, CallsHeld
  <2>4. \A j \in Calls : calls'[j] # NoCall =>
          DOMAIN calls'[j] = {"alert", "version", "code", "visit"}
    BY <2>2 DEF SInv, Fields
  <2> QED BY <1>16, <2>1, <2>2, <2>3, <2>4
<1>20. ASSUME NEW u \in Url, Open(u) PROVE Kept
  BY <1>8, <1>20 DEF Open
<1> HIDE DEF Kept
<1>21. Kept
  BY <1>1, <1>2, <1>3, <1>5, <1>6, <1>9, <1>10, <1>11, <1>12, <1>13, <1>14, <1>15, <1>17, <1>18,
     <1>19, <1>20 DEF StartNext, Kept
<1> QED BY <1>21 DEF Kept

LEMMA StartNextInv == SInv /\ [StartNext]_startVars => SInv'
<1> SUFFICES ASSUME SInv, [StartNext]_startVars PROVE SInv'
  OBVIOUS
<1>1. IInv'
  BY NextIsIngestion, NextInv DEF SInv
<1> QED BY <1>1, ScreenKept DEF SInv

(* The screen's invariant, whatever the analyst, the senders and the       *)
(* network do.                                                             *)
THEOREM ScreenInductive == StartSpec => []SInv
BY StartInitInv, StartNextInv, PTL DEF StartSpec

(* With the screen as one more sender, ingestion is still ingestion.       *)
THEOREM ScreenUsesIngestion == StartSpec => Spec
<1>1. SInv /\ [StartNext]_startVars => [Next]_vars
  BY NextIsIngestion DEF SInv
<1> QED BY <1>1, InitIsIngestion, ScreenInductive, PTL DEF StartSpec, Spec

(* A start the screen offers is never refused by Service.Start.            *)
THEOREM OffersAreGood == StartSpec => []OfferedNeverRefused
<1>1. SInv => OfferedNeverRefused
  BY DEF SInv, CallsHeld, OfferedNeverRefused
<1> QED BY <1>1, ScreenInductive, PTL

----------------------------------------------------------------------------
(* Starts made and failures shown.                                         *)

(* The starts of this visit the server has not handled.                    *)
Pending == {k \in Calls : calls[k] # NoCall /\ calls[k].code = "none" /\ calls[k].visit}

AboutToOpen == IF page.starting # NoCall THEN 1 ELSE 0

(* A start not handled yet counts as made: the page may have been told     *)
(* that it failed.                                                         *)
Tallied ==
  /\ DOMAIN tally = {"made", "failed"}
  /\ tally.made \in Nat /\ tally.failed \in Nat
  /\ tally.made + Cardinality(Pending) <= tally.failed + AboutToOpen

LEMMA PendingFinite == IsFiniteSet(Pending) /\ Cardinality(Pending) \in Nat
<1>1. Pending \subseteq Calls
  BY DEF Pending
<1> QED BY <1>1, TypesKnown, FS_Subset, FS_CardinalityType

LEMMA InitTallied == StartInit => Tallied
<1> SUFFICES ASSUME StartInit PROVE Tallied
  OBVIOUS
<1>1. Pending = {}
  BY DEF StartInit, Pending
<1> QED BY <1>1, FS_EmptySet DEF StartInit, Tallied, FreshTally, FreshPage, AboutToOpen

LEMMA NextTallied == SInv /\ Tallied /\ [StartNext]_startVars => Tallied'
<1> SUFFICES ASSUME SInv, Tallied, [StartNext]_startVars PROVE Tallied'
  OBVIOUS
<1>0. IsFiniteSet(Pending) /\ Cardinality(Pending) \in Nat
  BY PendingFinite
<1>1. ASSUME UNCHANGED <<calls, tally>>, page'.starting = page.starting PROVE Tallied'
  <2>1. Pending' = Pending /\ AboutToOpen' = AboutToOpen
    BY <1>1 DEF Pending, AboutToOpen
  <2> QED BY <1>1, <2>1 DEF Tallied
<1>2. ASSUME NEW u \in Url, Visit(u) PROVE Tallied'
  <2>1. Pending' = {}
    BY <1>2 DEF Visit, Pending, SInv, Fields
  <2>2. tally' = [made |-> 0, failed |-> 0] /\ page'.starting = NoCall
    BY <1>2 DEF Visit, FreshTally, FreshPage
  <2> QED BY <2>1, <2>2, FS_EmptySet DEF Tallied, AboutToOpen
<1>3. CASE UNCHANGED startVars
  BY <1>1, <1>3 DEF startVars
<1>4. ASSUME NEW s \in Senders, ServeDelivery(s) \/ Upstream(s) PROVE Tallied'
  BY <1>1, <1>4 DEF ServeDelivery, Upstream
<1>5. ASSUME NEW s \in Senders, NEW f \in Form, Ingest(s, f) PROVE Tallied'
  <2>1. CASE f.payload # "object"
    BY <1>1, <1>5, <2>1 DEF Ingest, SInv, Fields
  <2>2. CASE f.payload = "object"
    BY <1>1, <1>5, <2>2 DEF Ingest, SInv, Fields
  <2> QED BY <2>1, <2>2
<1>6. ASSUME NEW v \in Versions, Publish(v) PROVE Tallied'
  BY <1>1, <1>6 DEF Publish
<1>7. CASE LoadDemo \/ IngestAnother \/ Arrive
  BY <1>1, <1>7 DEF LoadDemo, IngestAnother, Arrive, SInv, Fields
<1>8. CASE AlertLoaded \/ AlertFailed \/ AlertReload \/ ListLoaded \/ ListFailed \/ ListReload
  BY <1>1, <1>8 DEF AlertLoaded, AlertFailed, AlertReload, ListLoaded, ListFailed, ListReload
<1>9. ASSUME IngestFailed PROVE Tallied'
  BY <1>1, <1>9 DEF IngestFailed, SInv, Fields
<1>10. CASE IngestLost
  BY <1>9, <1>10 DEF IngestLost
<1>11. CASE IngestAnswered
  <2>1. CASE answer[page.ingesting] \in {"created", "existing"}
    <3> DEFINE u == reply[page.ingesting].id
    <3>1. u \in Url
      BY <1>11, <2>1 DEF IngestAnswered, SInv, Fields, IInv, Replied, AlertRow, Url
    <3>2. GoToAlert(u, answer[page.ingesting] = "existing")
      BY <1>11, <2>1 DEF IngestAnswered
    <3>3. CASE ~OnScreen
      BY <1>2, <3>1, <3>2, <3>3 DEF GoToAlert
    <3>4. CASE OnScreen
      BY <1>1, <3>2, <3>4 DEF GoToAlert, SInv, Fields
    <3> QED BY <3>3, <3>4
  <2>2. CASE answer[page.ingesting] \notin {"created", "existing"}
    BY <1>9, <1>11, <2>2 DEF IngestAnswered
  <2> QED BY <2>1, <2>2
<1>12. ASSUME NEW u \in Url, Open(u) PROVE Tallied'
  BY <1>2, <1>12 DEF Open
<1>13. ASSUME NEW v \in Versions, NEW k \in Calls, Start(k, v) PROVE Tallied'
  <2>1. Pending' \subseteq Pending \cup {k}
    BY <1>13 DEF Start, Pending, SInv, Fields
  <2>2. k \notin Pending
    BY <1>13 DEF Start, Pending
  <2>3. /\ IsFiniteSet(Pending \cup {k})
        /\ Cardinality(Pending \cup {k}) = Cardinality(Pending) + 1
    BY <1>0, <2>2, FS_AddElement
  <2>4. /\ Cardinality(Pending') \in Nat
        /\ Cardinality(Pending') <= Cardinality(Pending) + 1
    BY <2>1, <2>3, FS_Subset, FS_CardinalityType
  <2>5. UNCHANGED tally /\ AboutToOpen = 0 /\ AboutToOpen' = 1
    BY <1>13, TypesKnown DEF Start, AboutToOpen, SInv, Fields
  <2> QED BY <1>0, <2>4, <2>5 DEF Tallied
<1>14. ASSUME NEW k \in Calls, ServeStart(k) PROVE Tallied'
  <2>1. Pending' \subseteq Pending \ {k}
    BY <1>14 DEF ServeStart, StartCode, Pending, SInv, Fields, CallsHeld
  <2>2. /\ IsFiniteSet(Pending \ {k})
        /\ Cardinality(Pending \ {k}) = Cardinality(Pending) - (IF k \in Pending THEN 1 ELSE 0)
    BY <1>0, FS_RemoveElement
  <2>3. /\ Cardinality(Pending') \in Nat
        /\ Cardinality(Pending') <= Cardinality(Pending) - (IF k \in Pending THEN 1 ELSE 0)
    BY <2>1, <2>2, FS_Subset, FS_CardinalityType
  <2>4. /\ DOMAIN tally' = {"made", "failed"} /\ tally'.failed = tally.failed
        /\ tally'.made \in Nat
        /\ tally'.made <= tally.made + (IF k \in Pending THEN 1 ELSE 0)
    BY <1>14 DEF ServeStart, Pending, Tallied
  <2>5. AboutToOpen' = AboutToOpen /\ AboutToOpen \in Nat
    BY <1>14 DEF ServeStart, AboutToOpen
  <2> QED BY <1>0, <2>3, <2>4, <2>5 DEF Tallied
<1>15. CASE StartAnswered
  <2>1. Pending' = Pending
    BY <1>15 DEF StartAnswered, Pending, SInv, Fields
  <2>2. UNCHANGED tally /\ AboutToOpen' = AboutToOpen
    BY <1>15 DEF StartAnswered, AboutToOpen, SInv, Fields
  <2> QED BY <2>1, <2>2 DEF Tallied
<1>16. CASE StartFailed
  <2>1. Pending' = Pending
    BY <1>16 DEF StartFailed, Pending, SInv, Fields
  <2>2. /\ DOMAIN tally' = {"made", "failed"} /\ tally'.made = tally.made
        /\ tally'.failed = tally.failed + 1
        /\ AboutToOpen = 1 /\ AboutToOpen' = 0
    BY <1>16 DEF StartFailed, AboutToOpen, Tallied, SInv, Fields
  <2> QED BY <1>0, <2>1, <2>2 DEF Tallied
<1> QED
  BY <1>3, <1>4, <1>5, <1>6, <1>7, <1>8, <1>10, <1>11, <1>12, <1>13, <1>14, <1>15, <1>16
  DEF StartNext

(* A visit has made no more investigations than it was told of failures,   *)
(* the one it is about to open apart: the disabled buttons, and a page     *)
(* that keeps them so while it leaves (startWith).                         *)
THEOREM NoSecondStart == StartSpec => []DuplicatesOnlyAfterFailure
<1>1. Tallied => DuplicatesOnlyAfterFailure
  BY PendingFinite DEF Tallied, DuplicatesOnlyAfterFailure, AboutToOpen
<1>2. StartSpec => []Tallied
  BY InitTallied, NextTallied, ScreenInductive, PTL DEF StartSpec
<1> QED BY <1>1, <1>2, PTL

============================================================================
