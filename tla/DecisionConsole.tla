-------------------------- MODULE DecisionConsole --------------------------
(***************************************************************************)
(* The console's investigation page: useResource, InvestigationRunner and  *)
(* DecisionForm of frontend/src, against an unreliable network and a       *)
(* server on which others decide too.                                      *)
(*                                                                         *)
(* One investigation.  The server is what InvestigationEngine is shown to  *)
(* be: a walk that grows by one decision at a time and replays a key it    *)
(* has seen.  A response to a decision is read after the decision was      *)
(* committed, not with it.  The messages under the evidence fields are     *)
(* left out: a submission they are about changes nothing else.             *)
(***************************************************************************)
EXTENDS PlaybookGraph, Evidence

CONSTANTS Playbook,          \* the graph of the investigation's version
          Keys, NoKey,       \* what crypto.randomUUID may return; bounds the submissions
          Actors, Analyst,   \* actors; the one the form starts with
          Rationales, NoRationale,  \* what the rationale may say; blank
          Rows, MaxRows,     \* what a row of evidence may hold; bounds how many rows
          Slots, NoSlot,     \* HTTP calls in flight; bounds how many
          NoEdge, NoContent, NoState  \* nothing there

ASSUME PlaybookPublishable == Publishable(Playbook)

ASSUME BlankFormTyped ==
  Analyst \in Actors /\ NoRationale \in Rationales /\ NewEvidenceDraft \in Rows

(* A key that was minted and a call in flight are not null.                *)
ASSUME NothingApart == NoKey \notin Keys /\ NoSlot \notin Slots

VARIABLES path,     \* server: the decisions recorded so far
          calls,    \* network and handlers: slot -> call or NoCall
          data,     \* useResource: the walk on display, or NoState
          failed,   \* useResource: the last load failed
          getting,  \* useResource: the load in flight
          edge,     \* DecisionForm: edgeId
          body,     \* DecisionForm: actor, rationale and rows of evidence
          key,      \* DecisionForm: keyRef
          keyFor,   \* DecisionForm: keyForRef
          posting,  \* DecisionForm: the submission in flight (submitting)
          error,    \* DecisionForm: the error on display
          minted,   \* history: every key ever minted
          sent      \* history: the content last submitted, and its keys

form == <<edge, body, key, keyFor, posting, error>>
page == <<data, failed, getting>>
history == <<minted, sent>>
vars == <<path, calls, page, form, history>>

EndOf(p) == IF p = <<>> THEN Playbook.root ELSE Playbook.edges[p[Len(p)].edge].to

AtTerminal(p) == Playbook.nodes[EndOf(p)].kind = KindTerminal

AvailableChoices(p) == OutgoingEdges(Playbook, EndOf(p))

NoCall == [op |-> "none"]

BlankBody == [actor |-> Analyst, rationale |-> NoRationale, evidence |-> <<>>]

(* The rationale and the evidence are blank again.                         *)
Cleared(b) == [b EXCEPT !.rationale = NoRationale, !.evidence = <<>>]

NothingSent == [content |-> NoContent, keys |-> {}]

Refusals == {"VALIDATION_FAILED", "INVALID_TRANSITION", "INVESTIGATION_ALREADY_COMPLETED", "IDEMPOTENCY_KEY_REUSED"}

FreeSlots == {s \in Slots : calls[s] = NoCall}

Init ==
  /\ path = <<>>
  /\ calls = [s \in Slots |-> NoCall]
  /\ data = NoState /\ failed = TRUE /\ getting = NoSlot
  /\ edge = NoEdge /\ body = BlankBody
  /\ key = NoKey /\ keyFor = NoContent
  /\ posting = NoSlot /\ error = "none"
  /\ minted = {} /\ sent = NothingSent

----------------------------------------------------------------------------
(* The server.                                                             *)

Recorded(k) == {i \in 1..Len(path) : path[i].key = k}

(* Another client's decision; what it says besides the edge is of no       *)
(* consequence, for its key is none of the form's.                         *)
OtherDecides(e) ==
  /\ e \in AvailableChoices(path)
  /\ path' = Append(path, [edge |-> e, body |-> BlankBody, key |-> NoKey])
  /\ UNCHANGED <<calls, page, form, history>>

Reach(s, stage, code) ==
  calls' = [calls EXCEPT ![s].stage = stage, ![s].code = code]

(* SubmitDecision checks the evidence; ApplyDecision the key first, then   *)
(* completion, then the edge.                                              *)
Apply(s) ==
  LET c == calls[s]
  IN  /\ c # NoCall /\ c.op = "post" /\ c.stage = "sent"
      /\ IF ~ValidEvidence(c.body.evidence)
         THEN Reach(s, "answered", "VALIDATION_FAILED") /\ UNCHANGED path
         ELSE IF Recorded(c.key) # {}
         THEN /\ IF \E i \in Recorded(c.key) : path[i].edge = c.edge /\ path[i].body = c.body
                 THEN Reach(s, "applied", "none")
                 ELSE Reach(s, "answered", "IDEMPOTENCY_KEY_REUSED")
              /\ UNCHANGED path
         ELSE IF AtTerminal(path)
         THEN Reach(s, "answered", "INVESTIGATION_ALREADY_COMPLETED") /\ UNCHANGED path
         ELSE IF c.edge \notin AvailableChoices(path)
         THEN Reach(s, "answered", "INVALID_TRANSITION") /\ UNCHANGED path
         ELSE /\ path' = Append(path, [edge |-> c.edge, body |-> c.body, key |-> c.key])
              /\ Reach(s, "applied", "none")
      /\ UNCHANGED <<page, form, history>>

(* Service.Get, for a read and after a decision.                           *)
ReadState(s) ==
  LET c == calls[s]
  IN  /\ c # NoCall
      /\ <<c.op, c.stage>> \in {<<"get", "sent">>, <<"post", "applied">>}
      /\ calls' = [calls EXCEPT ![s].stage = "answered", ![s].code = "OK", ![s].state = path]
      /\ UNCHANGED <<path, page, form, history>>

(* A call that nobody waits for any more dies somewhere on its way.        *)
Vanish(s) ==
  /\ calls[s] # NoCall /\ s \notin {getting, posting}
  /\ calls' = [calls EXCEPT ![s] = NoCall]
  /\ UNCHANGED <<path, page, form, history>>

----------------------------------------------------------------------------
(* useResource and the page around it.                                     *)

Call(op, e, b, k) ==
  [op |-> op, edge |-> e, body |-> b, key |-> k, stage |-> "sent", code |-> "none",
   state |-> <<>>]

Load(s) ==
  /\ calls' = [calls EXCEPT ![s] = Call("get", NoEdge, BlankBody, NoKey)]
  /\ getting' = s
  /\ failed' = FALSE

ForgetDecision ==
  /\ edge' = NoEdge
  /\ key' = NoKey /\ keyFor' = NoContent
  /\ sent' = NothingSent

(* The page is opened or refreshed: what the browser held is gone, and the *)
(* calls of the old page are aborted or forgotten.                         *)
Open ==
  /\ \E s \in FreeSlots : Load(s)
  /\ data' = NoState
  /\ ForgetDecision /\ body' = BlankBody
  /\ posting' = NoSlot /\ error' = "none"
  /\ UNCHANGED <<path, minted>>

(* The retry button of a page that shows nothing but an error.             *)
Reload ==
  /\ failed /\ data = NoState
  /\ \E s \in FreeSlots : Load(s)
  /\ UNCHANGED <<path, data, form, history>>

Answered(s) == s # NoSlot /\ calls[s] # NoCall /\ calls[s].stage = "answered"

(* Mutant: a response is used although its load was aborted.               *)
LoadedThough(s) ==
  /\ Answered(s) /\ calls[s].op = "get"
  /\ data' = calls[s].state
  /\ getting' = IF s = getting THEN NoSlot ELSE getting
  /\ calls' = [calls EXCEPT ![s] = NoCall]
  /\ UNCHANGED <<path, failed, form, history>>

(* A response counts only for the load that is still wanted.               *)
Loaded(s) ==
  /\ Answered(s) /\ s = getting
  /\ data' = calls[s].state
  /\ getting' = NoSlot
  /\ calls' = [calls EXCEPT ![s] = NoCall]
  /\ UNCHANGED <<path, failed, form, history>>

LoadFailed ==
  /\ getting # NoSlot
  /\ failed' = TRUE /\ getting' = NoSlot
  /\ UNCHANGED <<path, calls, data, form, history>>

----------------------------------------------------------------------------
(* DecisionForm, which is on the page while the walk on display goes on.   *)
(* Its fields are disabled during a submission.                            *)

FormShown == data # NoState /\ ~AtTerminal(data)

Editable == FormShown /\ posting = NoSlot

(* A suggestion fills a blank form and never anything typed.               *)
ChooseEdge(e) ==
  /\ Editable /\ e \in AvailableChoices(data)
  /\ edge' = e
  /\ \/ UNCHANGED body
     \/ /\ body.rationale = NoRationale /\ body.evidence = <<>>
        /\ \E r \in Rationales \ {NoRationale}, row \in Rows :
             /\ ~BlankRow(row) /\ Serializes(<<row>>)
             /\ body' = [body EXCEPT !.rationale = r, !.evidence = <<row>>]
  /\ error' = "none"
  /\ UNCHANGED <<path, calls, page, key, keyFor, posting, history>>

Edit(b) ==
  /\ Editable /\ b # body
  /\ body' = b
  /\ UNCHANGED <<path, calls, page, edge, key, keyFor, posting, error, history>>

EditActor(a) == Edit([body EXCEPT !.actor = a])

EditRationale(r) == Edit([body EXCEPT !.rationale = r])

(* EvidenceEditor's three buttons and fields.                              *)
AddEvidence ==
  /\ Len(body.evidence) < MaxRows
  /\ Edit([body EXCEPT !.evidence = Append(@, NewEvidenceDraft)])

RemoveEvidence(i) ==
  /\ i \in DOMAIN body.evidence
  /\ Edit([body EXCEPT !.evidence = SubSeq(@, 1, i - 1) \o SubSeq(@, i + 1, Len(@))])

UpdateEvidence(i, row) ==
  /\ i \in DOMAIN body.evidence
  /\ Edit([body EXCEPT !.evidence[i] = row])

(* Mutant: every attempt gets a key of its own.                            *)
KeyForAttempt(content, k) == k \in Keys \ minted

(* idempotencyKeyFor: k is kept for the same content, else minted.         *)
IdempotencyKeyFor(content, k) ==
  IF key = NoKey \/ keyFor # content THEN k \in Keys \ minted ELSE k = key

(* What submit(k) does once its guards have let it pass.                   *)
Send(content, k) ==
  /\ IdempotencyKeyFor(content, k)
  /\ key' = k /\ keyFor' = content
  /\ \E s \in FreeSlots :
       /\ calls' = [calls EXCEPT ![s] = Call("post", content.edge, content.body, k)]
       /\ posting' = s
  /\ error' = "none"
  /\ minted' = minted \cup {k}
  /\ sent' = [content |-> content,
              keys |-> {k} \cup (IF sent.content = content THEN sent.keys ELSE {})]
  /\ UNCHANGED <<path, failed, getting, edge, body>>

(* A decision is sent when an edge is chosen and the evidence serializes.  *)
Submit(k) ==
  /\ Editable /\ edge # NoEdge /\ Serializes(body.evidence)
  /\ Send([edge |-> edge, body |-> [body EXCEPT !.evidence = Serialized(@)]], k)
  /\ UNCHANGED data

(* Mutant: the chosen edge stays.                                          *)
LandedWithEdge(s) ==
  /\ Answered(s) /\ s = posting /\ calls[s].code = "OK"
  /\ body' = Cleared(body)
  /\ key' = NoKey /\ keyFor' = NoContent /\ sent' = NothingSent
  /\ data' = calls[s].state /\ failed' = FALSE
  /\ posting' = NoSlot
  /\ calls' = [calls EXCEPT ![s] = NoCall]
  /\ UNCHANGED <<path, getting, edge, error, minted>>

(* The decision landed: the form is blank again, but for the actor, and    *)
(* the page shows the state of the response.                               *)
Landed(s) ==
  /\ Answered(s) /\ s = posting /\ calls[s].code = "OK"
  /\ ForgetDecision /\ body' = Cleared(body)
  /\ data' = calls[s].state /\ failed' = FALSE
  /\ posting' = NoSlot
  /\ calls' = [calls EXCEPT ![s] = NoCall]
  /\ UNCHANGED <<path, getting, error, minted>>

Refused(s) ==
  /\ Answered(s) /\ s = posting /\ calls[s].code # "OK"
  /\ error' = calls[s].code
  /\ posting' = NoSlot
  /\ calls' = [calls EXCEPT ![s] = NoCall]
  /\ UNCHANGED <<path, page, edge, body, key, keyFor, history>>

(* The call fails for the browser; the server may have it, or get it yet.  *)
SendFailed ==
  /\ posting # NoSlot
  /\ error' = "NETWORK_ERROR"
  /\ posting' = NoSlot
  /\ UNCHANGED <<path, calls, page, edge, body, key, keyFor, history>>

----------------------------------------------------------------------------
Next ==
  \/ \E e \in EdgeIDs(Playbook) : OtherDecides(e)
  \/ \E s \in Slots : Apply(s) \/ ReadState(s) \/ Vanish(s)
  \/ Open \/ Reload \/ LoadFailed
  \/ \E s \in Slots : Loaded(s) \/ Landed(s) \/ Refused(s)
  \/ \E e \in EdgeIDs(Playbook) : ChooseEdge(e)
  \/ \E a \in Actors : EditActor(a)
  \/ \E r \in Rationales : EditRationale(r)
  \/ AddEvidence
  \/ \E i \in 1..MaxRows : RemoveEvidence(i) \/ \E row \in Rows : UpdateEvidence(i, row)
  \/ \E k \in Keys : Submit(k)
  \/ SendFailed

Spec == Init /\ [][Next]_vars

----------------------------------------------------------------------------
(* Properties.                                                             *)

PrefixOf(p, q) == Len(p) <= Len(q) /\ \A i \in 1..Len(p) : p[i] = q[i]

(* Within one page view the display never goes back in time, whichever way *)
(* responses overtake one another (useResource's abort check).             *)
ShownNeverGoesBack ==
  [][data # NoState /\ data' # NoState => PrefixOf(data, data')]_vars

(* The chosen edge is one the page offers, across every change of what it  *)
(* shows: a submission never carries an edge of an earlier question.       *)
SelectionIsOffered == edge # NoEdge => FormShown /\ edge \in AvailableChoices(data)

(* Submitting the same content again after a failure is a no-op on the     *)
(* server: when the form is told that its decision is refused, none of the *)
(* attempts at that content was recorded, or ever will be, whichever blank *)
(* rows were added in between.  The attempts are those made since other    *)
(* content was last submitted: the form remembers the key of one content,  *)
(* and going back to an earlier one is a new decision.                     *)
RefusedMeansNotRecorded ==
  error \in Refusals => \A k \in sent.keys : Recorded(k) = {}

(* What serializeEvidence lets pass the server accepts: the rules of the   *)
(* form are those of EvidenceItem.Validate, in every order of edits.       *)
EvidenceNeverRefused == error # "VALIDATION_FAILED"

=============================================================================
