--------------------------- MODULE AlertIngestion ---------------------------
(***************************************************************************)
(* Alert ingestion: internal/service/alertservice and                      *)
(* internal/repository/postgres/alert.go.                                  *)
(*                                                                         *)
(* Upstream systems deliver an alert at least once.  Create is an INSERT   *)
(* that does nothing when the external id is taken, followed in that case  *)
(* by a read of the alert that took it; the two statements are not one     *)
(* transaction.  An alert's type, title, payload and time are its content. *)
(***************************************************************************)
EXTENDS Naturals, FiniteSets

CONSTANTS Senders,            \* upstream systems, one delivery in flight each
          AlertIDs,           \* ids the database may assign
          ExternalIDs,        \* ids the senders assign
          NoExternalID,       \* an alert without one
          EmptyExternalID,    \* an external id of length 0
          Contents,           \* the fields of an alert
          InvalidContent,     \* content Create refuses
          NoAlert, NoRequest  \* nothing there

ASSUME NoneIsDistinct == {NoExternalID, EmptyExternalID} \cap ExternalIDs = {}

VARIABLES alerts,   \* table alerts: id -> row or NoAlert
          pc,       \* the statement a delivery is at
          want,     \* the delivery in flight
          reply,    \* the alert the response shows
          answer    \* "none", "created", "existing" or an error

vars == <<alerts, pc, want, reply, answer>>

Delivery == [external : ExternalIDs \cup {NoExternalID, EmptyExternalID},
             content : Contents \cup {InvalidContent}]

AlertRow == [id : AlertIDs, external : ExternalIDs \cup {NoExternalID}, content : Contents]

ASSUME NoAlertIsNoRow == NoAlert \notin AlertRow

Row(d, id) == [id |-> id, external |-> d.external, content |-> d.content]

Held(x) == {a \in AlertIDs : alerts[a] # NoAlert /\ alerts[a].external = x}

Free == {a \in AlertIDs : alerts[a] = NoAlert}

Init ==
  /\ alerts = [a \in AlertIDs |-> NoAlert]
  /\ pc = [s \in Senders |-> "idle"]
  /\ want = [s \in Senders |-> NoRequest]
  /\ reply = [s \in Senders |-> NoAlert]
  /\ answer = [s \in Senders |-> "none"]

Reply(s, code, a) ==
  /\ pc' = [pc EXCEPT ![s] = "answered"]
  /\ reply' = [reply EXCEPT ![s] = a]
  /\ answer' = [answer EXCEPT ![s] = code]

(* Service.Create checks the input first.                                  *)
Invalid(d) == d.content = InvalidContent \/ d.external = EmptyExternalID

Deliver(s, d) ==
  /\ pc[s] = "idle"
  /\ want' = [want EXCEPT ![s] = d]
  /\ IF Invalid(d)
     THEN Reply(s, "VALIDATION_FAILED", NoAlert)
     ELSE pc' = [pc EXCEPT ![s] = "insert"] /\ UNCHANGED <<reply, answer>>
  /\ UNCHANGED alerts

(* Mutant: no unique index on external_id.                                 *)
NeverTaken(d) == FALSE

(* INSERT ... ON CONFLICT (external_id) WHERE external_id IS NOT NULL DO   *)
(* NOTHING: a nil external id conflicts with nothing.                      *)
Taken(d) == d.external # NoExternalID /\ Held(d.external) # {}

Insert(s) ==
  /\ pc[s] = "insert" /\ ~Taken(want[s])
  /\ \E a \in Free :
       /\ alerts' = [alerts EXCEPT ![a] = Row(want[s], a)]
       /\ Reply(s, "created", Row(want[s], a))
  /\ UNCHANGED want

InsertNothing(s) ==
  /\ pc[s] = "insert" /\ Taken(want[s])
  /\ pc' = [pc EXCEPT ![s] = "read"]
  /\ UNCHANGED <<alerts, want, reply, answer>>

(* Mutant: DO UPDATE instead of DO NOTHING.                                *)
OverwriteExisting(s) ==
  /\ pc[s] = "read"
  /\ \E a \in Held(want[s].external) :
       /\ alerts' = [alerts EXCEPT ![a] = Row(want[s], a)]
       /\ Reply(s, "existing", Row(want[s], a))
  /\ UNCHANGED want

(* getByExternalID.                                                        *)
ReadExisting(s) ==
  /\ pc[s] = "read"
  /\ IF Held(want[s].external) = {} THEN Reply(s, "RESOURCE_NOT_FOUND", NoAlert)
     ELSE \E a \in Held(want[s].external) : Reply(s, "existing", alerts[a])
  /\ UNCHANGED <<alerts, want>>

(* A statement fails; the insert may have been committed before its result *)
(* was lost.                                                               *)
FailStatement(s) ==
  /\ pc[s] \in {"insert", "read"}
  /\ Reply(s, "INTERNAL_ERROR", NoAlert)
  /\ UNCHANGED <<alerts, want>>

InsertUnacknowledged(s) ==
  /\ pc[s] = "insert" /\ ~Taken(want[s])
  /\ \E a \in Free : alerts' = [alerts EXCEPT ![a] = Row(want[s], a)]
  /\ Reply(s, "INTERNAL_ERROR", NoAlert)
  /\ UNCHANGED want

Receive(s) ==
  /\ pc[s] = "answered"
  /\ pc' = [pc EXCEPT ![s] = "idle"]
  /\ want' = [want EXCEPT ![s] = NoRequest]
  /\ reply' = [reply EXCEPT ![s] = NoAlert]
  /\ answer' = [answer EXCEPT ![s] = "none"]
  /\ UNCHANGED alerts

(* The bound of the model: a free id for every delivery that may need one. *)
Room(d) ==
  Invalid(d) \/ Taken(d) \/ Cardinality(Free) > Cardinality({s \in Senders : pc[s] = "insert"})

Next ==
  \E s \in Senders :
    \/ \E d \in Delivery : Room(d) /\ Deliver(s, d)
    \/ Insert(s) \/ InsertNothing(s) \/ ReadExisting(s)
    \/ FailStatement(s) \/ InsertUnacknowledged(s)
    \/ Receive(s)

Spec == Init /\ [][Next]_vars

----------------------------------------------------------------------------
(* Properties.                                                             *)

(* However often and concurrently an alert is delivered, one row holds its *)
(* external id.                                                            *)
OneAlertPerExternalID == \A x \in ExternalIDs : \A a, b \in Held(x) : a = b

(* A delivery that is accepted is answered with the stored alert of its    *)
(* external id, and the reply stays true: no later delivery with other     *)
(* content rewrites it.  One that lost the race is never told that it was  *)
(* not found.                                                              *)
ReplyIsStored ==
  \A s \in Senders :
    /\ answer[s] \in {"created", "existing"} =>
         /\ reply[s] = alerts[reply[s].id]
         /\ reply[s].external = want[s].external
    /\ answer[s] # "RESOURCE_NOT_FOUND"

(* First write wins: a later delivery with other content rewrites nothing. *)
FirstWriteWins ==
  [][\A a \in AlertIDs : alerts[a] # NoAlert => alerts'[a] = alerts[a]]_vars

=============================================================================
