------------------------ MODULE PlaybookLibraryProofs ------------------------
(***************************************************************************)
(* Proofs about the playbook viewer, for any playbooks and versions and    *)
(* any number of clicks.                                                   *)
(***************************************************************************)
EXTENDS PlaybookLibrary, TLAPS

PlaybookData == [id : Playbooks, versions : SUBSET Versions, published : SUBSET Versions]

(* The record a screen holds of a resource.                                *)
Resource(r) == /\ DOMAIN r = {"data", "load", "read", "failed"}
               /\ r = [data |-> r.data, load |-> r.load, read |-> r.read, failed |-> r.failed]
               /\ r.load \in {"none", "sent", "read"} /\ r.failed \in BOOLEAN

(* Versions of the playbook that is shown are its own.                     *)
Own(d) == \A v \in d.versions : Owner[v] = d.id

Typed ==
  /\ url = [playbook |-> url.playbook, version |-> url.version]
  /\ Resource(playbooks) /\ Resource(playbook) /\ Resource(version)

(* The list: one that is neither loading nor failed is there.              *)
ListOK ==
  /\ playbooks.load = "read" => playbooks.read \in SUBSET Playbooks
  /\ playbooks.load = "none" /\ ~playbooks.failed => playbooks.data \in SUBSET Playbooks

(* The playbook: what is on its way is the one of the URL, and so is what  *)
(* is shown once it has come.                                              *)
PlaybookOK ==
  /\ playbook.load = "read" =>
       playbook.read \in PlaybookData /\ playbook.read.id = url.playbook /\ Own(playbook.read)
  /\ playbook.load = "none" /\ ~playbook.failed /\ url.playbook # Nothing =>
       playbook.data \in PlaybookData /\ playbook.data.id = url.playbook /\ Own(playbook.data)

(* The version, but for the answer to a publication.                       *)
VersionOK ==
  /\ version.load = "read" => version.read.id = url.version
  /\ version.load = "none" /\ ~version.failed /\ url.version # Nothing =>
       version.data.id = url.version \/ overtaken

IInv == Typed /\ ListOK /\ PlaybookOK /\ VersionOK

----------------------------------------------------------------------------
(* The operations of useResource.                                          *)

LEMMA MountFacts ==
  ASSUME NEW e \in BOOLEAN
  PROVE  /\ Resource(Mount(e)) /\ Mount(e).load = (IF e THEN "sent" ELSE "none")
  BY DEF Resource, Mount

LEMMA TriggerFacts ==
  ASSUME NEW r, Resource(r), NEW e \in BOOLEAN
  PROVE  /\ Resource(Trigger(r, e)) /\ Trigger(r, e).load = (IF e THEN "sent" ELSE "none")
<1>1. PICK t : t = Trigger(r, e)
  OBVIOUS
<1>2. CASE e = TRUE
  <2>1. t = [data |-> r.data, load |-> "sent", read |-> NoData, failed |-> FALSE]
    BY <1>1, <1>2 DEF Trigger, Resource
  <2> QED
    BY <1>1, <1>2, <2>1 DEF Resource
<1>3. CASE e = FALSE
  <2>1. t = [data |-> r.data, load |-> "none", read |-> NoData, failed |-> r.failed]
    BY <1>1, <1>3 DEF Trigger, Resource
  <2> QED
    BY <1>1, <1>3, <2>1 DEF Resource
<1> QED
  BY <1>2, <1>3

LEMMA ServerReadFacts ==
  ASSUME NEW r, Resource(r), NEW x
  PROVE  /\ Resource(ServerRead(r, x)) /\ ServerRead(r, x).load = "read"
         /\ ServerRead(r, x).read = x
<1>1. PICK t : t = ServerRead(r, x)
  OBVIOUS
<1>2. t = [data |-> r.data, load |-> "read", read |-> x, failed |-> r.failed]
  BY <1>1 DEF ServerRead, Resource
<1> QED
  BY <1>1, <1>2 DEF Resource

LEMMA LoadedFacts ==
  ASSUME NEW r, Resource(r)
  PROVE  /\ Resource(Loaded(r)) /\ Loaded(r).load = "none" /\ Loaded(r).data = r.read
         /\ Loaded(r).failed = r.failed
  BY DEF Loaded, Resource

LEMMA FailedFacts ==
  ASSUME NEW r, Resource(r)
  PROVE  Resource(Failed(r)) /\ Failed(r).load = "none" /\ Failed(r).failed
<1>1. PICK t : t = Failed(r)
  OBVIOUS
<1>2. t = [data |-> r.data, load |-> "none", read |-> NoData, failed |-> TRUE]
  BY <1>1 DEF Failed, Resource
<1> QED
  BY <1>1, <1>2 DEF Resource

LEMMA SetFacts ==
  ASSUME NEW r, Resource(r), NEW x
  PROVE  /\ Resource(Set(r, x)) /\ Set(r, x).load = r.load /\ Set(r, x).read = r.read
         /\ Set(r, x).data = x /\ ~Set(r, x).failed
<1>1. PICK t : t = Set(r, x)
  OBVIOUS
<1>2. t = [data |-> x, load |-> r.load, read |-> r.read, failed |-> FALSE]
  BY <1>1 DEF Set, Resource
<1> QED
  BY <1>1, <1>2 DEF Resource

----------------------------------------------------------------------------
(* The initial state, and a change of the selection.                       *)

LEMMA InitInv == Init => IInv
<1> SUFFICES ASSUME Init PROVE IInv
  OBVIOUS
<1>1. url = [playbook |-> url.playbook, version |-> url.version]
  BY DEF Init, Link
<1>2. /\ Resource(playbooks) /\ playbooks.load = "sent"
      /\ Resource(playbook) /\ playbook.load = (IF url.playbook # Nothing THEN "sent" ELSE "none")
      /\ Resource(version) /\ version.load = (IF url.version # Nothing THEN "sent" ELSE "none")
  BY MountFacts DEF Init
<1> QED
  BY <1>1, <1>2 DEF IInv, Typed, ListOK, PlaybookOK, VersionOK

LEMMA SelectOK ==
  ASSUME IInv, NEW p, NEW v, Select(p, v), UNCHANGED overtaken
  PROVE  /\ url' = [playbook |-> url'.playbook, version |-> url'.version]
         /\ Resource(playbook)' /\ Resource(version)' /\ PlaybookOK' /\ VersionOK'
<1>1. url' = [playbook |-> p, version |-> v] /\ url'.playbook = p /\ url'.version = v
  BY DEF Select
<1>2. Resource(playbook)' /\ PlaybookOK'
  <2>1. CASE p = url.playbook
    <3>1. playbook' = playbook
      BY <2>1 DEF Select
    <3> QED
      BY <1>1, <2>1, <3>1 DEF IInv, Typed, Resource, PlaybookOK, Own
  <2>2. CASE p # url.playbook
    <3>1. playbook' = Trigger(playbook, p # Nothing)
      BY <2>2 DEF Select
    <3>2. Resource(playbook)' /\ playbook'.load = IF p # Nothing THEN "sent" ELSE "none"
      BY <3>1, TriggerFacts DEF IInv, Typed
    <3> QED
      BY <1>1, <3>2 DEF PlaybookOK
  <2> QED
    BY <2>1, <2>2
<1>3. Resource(version)' /\ VersionOK'
  <2>1. CASE v = url.version
    <3>1. version' = version
      BY <2>1 DEF Select
    <3> QED
      BY <1>1, <2>1, <3>1 DEF IInv, Typed, Resource, VersionOK
  <2>2. CASE v # url.version
    <3>1. version' = Trigger(version, v # Nothing)
      BY <2>2 DEF Select
    <3>2. Resource(version)' /\ version'.load = IF v # Nothing THEN "sent" ELSE "none"
      BY <3>1, TriggerFacts DEF IInv, Typed
    <3> QED
      BY <1>1, <3>2 DEF VersionOK
  <2> QED
    BY <2>1, <2>2
<1> QED
  BY <1>1, <1>2, <1>3

(* The effects, the reviewer's selections and the end of an installation.  *)
LEMMA SelectionInv ==
  ASSUME IInv,
         \/ \E p \in Playbooks : SelectPlaybook(p)
         \/ \E v \in Versions : SelectVersion(v)
         \/ LandOnPlaybook \/ LandOnVersion \/ InstallAnswered
  PROVE  IInv'
<1>1. UNCHANGED overtaken /\ \E p, v : Select(p, v)
  BY DEF SelectPlaybook, SelectVersion, LandOnPlaybook, LandOnVersion, InstallAnswered
<1>2. /\ url' = [playbook |-> url'.playbook, version |-> url'.version]
      /\ Resource(playbook)' /\ Resource(version)' /\ PlaybookOK' /\ VersionOK'
  BY <1>1, SelectOK
<1>3. Resource(playbooks)' /\ ListOK'
  <2>1. CASE playbooks' = playbooks
    BY <2>1 DEF IInv, Typed, Resource, ListOK
  <2>2. CASE playbooks' = Trigger(playbooks, TRUE)
    <3>1. Resource(playbooks)' /\ playbooks'.load = "sent"
      BY <2>2, TriggerFacts DEF IInv, Typed
    <3> QED
      BY <3>1 DEF ListOK
  <2> QED
    BY <2>1, <2>2 DEF SelectPlaybook, SelectVersion, LandOnPlaybook, LandOnVersion, InstallAnswered
<1> QED
  BY <1>2, <1>3 DEF IInv, Typed

----------------------------------------------------------------------------
(* The loads.                                                              *)

LEMMA PlaybooksLoadInv ==
  ASSUME IInv, PlaybooksLoad
  PROVE  IInv'
<1>1. Resource(playbooks)
  BY DEF IInv, Typed
<1>2. Resource(playbooks)' /\ ListOK'
  <2>1. CASE playbooks' = ServerRead(playbooks, Existing)
    <3>1. Existing \in SUBSET Playbooks
      BY DEF Existing
    <3>2. Resource(playbooks)' /\ playbooks'.load = "read" /\ playbooks'.read = Existing
      BY <1>1, <2>1, ServerReadFacts
    <3> QED
      BY <3>1, <3>2 DEF ListOK
  <2>2. CASE playbooks.load = "read" /\ playbooks' = Loaded(playbooks)
    <3>1. /\ Resource(playbooks)' /\ playbooks'.load = "none"
          /\ playbooks'.data = playbooks.read
      BY <1>1, <2>2, LoadedFacts
    <3> QED
      BY <2>2, <3>1 DEF IInv, ListOK
  <2>3. CASE playbooks' = Failed(playbooks)
    <3>1. Resource(playbooks)' /\ playbooks'.load = "none" /\ playbooks'.failed
      BY <1>1, <2>3, FailedFacts
    <3> QED
      BY <3>1 DEF ListOK
  <2> QED
    BY <2>1, <2>2, <2>3 DEF PlaybooksLoad
<1>3. UNCHANGED <<url, playbook, version, overtaken>>
  BY DEF PlaybooksLoad
<1> QED
  BY <1>2, <1>3 DEF IInv, Typed, Resource, PlaybookOK, Own, VersionOK

LEMMA PlaybookLoadInv ==
  ASSUME IInv, PlaybookLoad
  PROVE  IInv'
<1>1. Resource(playbook)
  BY DEF IInv, Typed
<1>2. UNCHANGED <<url, playbooks, version, overtaken>>
  BY DEF PlaybookLoad
<1>3. Resource(playbook)' /\ PlaybookOK'
  <2>1. CASE /\ url.playbook \in Existing
             /\ playbook' = ServerRead(playbook, [id |-> url.playbook,
                                                  versions |-> VersionsOf(url.playbook),
                                                  published |-> Published(VersionsOf(url.playbook))])
    <3>1. PICK d : d = [id |-> url.playbook, versions |-> VersionsOf(url.playbook),
                        published |-> Published(VersionsOf(url.playbook))]
      OBVIOUS
    <3>2. d \in PlaybookData /\ d.id = url.playbook /\ Own(d)
      BY <2>1, <3>1 DEF PlaybookData, Existing, VersionsOf, Published, Own
    <3>3. Resource(playbook)' /\ playbook'.load = "read" /\ playbook'.read = d
      BY <1>1, <2>1, <3>1, ServerReadFacts
    <3> QED
      BY <1>2, <3>2, <3>3 DEF PlaybookOK, Own
  <2>2. CASE playbook.load = "read" /\ playbook' = Loaded(playbook)
    <3>1. Resource(playbook)' /\ playbook'.load = "none" /\ playbook'.data = playbook.read
      BY <1>1, <2>2, LoadedFacts
    <3> QED
      BY <1>2, <2>2, <3>1 DEF IInv, PlaybookOK, Own
  <2>3. CASE playbook' = Failed(playbook)
    <3>1. Resource(playbook)' /\ playbook'.load = "none" /\ playbook'.failed
      BY <1>1, <2>3, FailedFacts
    <3> QED
      BY <3>1 DEF PlaybookOK
  <2> QED
    BY <2>1, <2>2, <2>3 DEF PlaybookLoad
<1> QED
  BY <1>2, <1>3 DEF IInv, Typed, Resource, ListOK, VersionOK

LEMMA VersionLoadInv ==
  ASSUME IInv, VersionLoad
  PROVE  IInv'
<1>1. Resource(version)
  BY DEF IInv, Typed
<1>2. UNCHANGED <<url, playbooks, playbook>>
  BY DEF VersionLoad
<1>3. Resource(version)' /\ VersionOK'
  <2>1. CASE version' = ServerRead(version, [id |-> url.version, status |-> status[url.version]])
    <3>1. /\ Resource(version)' /\ version'.load = "read"
          /\ version'.read = [id |-> url.version, status |-> status[url.version]]
      BY <1>1, <2>1, ServerReadFacts
    <3> QED
      BY <1>2, <3>1 DEF VersionOK
  <2>2. CASE version.load = "read" /\ version' = Loaded(version)
    <3>1. Resource(version)' /\ version'.load = "none" /\ version'.data = version.read
      BY <1>1, <2>2, LoadedFacts
    <3> QED
      BY <1>2, <2>2, <3>1 DEF IInv, VersionOK
  <2>3. CASE version' = Failed(version)
    <3>1. Resource(version)' /\ version'.load = "none" /\ version'.failed
      BY <1>1, <2>3, FailedFacts
    <3> QED
      BY <3>1 DEF VersionOK
  <2> QED
    BY <2>1, <2>2, <2>3 DEF VersionLoad
<1> QED
  BY <1>2, <1>3 DEF IInv, Typed, Resource, ListOK, PlaybookOK, Own

LEMMA RetryInv ==
  ASSUME IInv, Retry
  PROVE  IInv'
<1>1. UNCHANGED <<url, playbook, overtaken>>
  BY DEF Retry
<1>2. CASE playbooks' = Trigger(playbooks, TRUE) /\ UNCHANGED version
  <2>1. Resource(playbooks)' /\ playbooks'.load = "sent"
    BY <1>2, TriggerFacts DEF IInv, Typed
  <2> QED
    BY <1>1, <1>2, <2>1 DEF IInv, Typed, Resource, ListOK, PlaybookOK, Own, VersionOK
<1>3. CASE version' = Trigger(version, url.version # Nothing) /\ UNCHANGED playbooks
  <2>1. Resource(version)' /\ version'.load = IF url.version # Nothing THEN "sent" ELSE "none"
    BY <1>3, TriggerFacts DEF IInv, Typed
  <2> QED
    BY <1>1, <1>3, <2>1 DEF IInv, Typed, Resource, ListOK, PlaybookOK, Own, VersionOK
<1> QED
  BY <1>2, <1>3 DEF Retry

(* The answer to a publication sets the version and reloads the playbook.  *)
LEMMA PublishAnsweredInv ==
  ASSUME IInv, PublishAnswered
  PROVE  IInv'
<1>1. /\ UNCHANGED <<url, playbooks>>
      /\ version' = Set(version, [id |-> publishing.version, status |-> "published"])
      /\ playbook' = Trigger(playbook, url.playbook # Nothing)
      /\ overtaken' = (publishing.version # url.version)
  BY DEF PublishAnswered
<1>2. Resource(playbook)' /\ playbook'.load = IF url.playbook # Nothing THEN "sent" ELSE "none"
  BY <1>1, TriggerFacts DEF IInv, Typed
<1>3. /\ Resource(version)' /\ version'.load = version.load /\ version'.read = version.read
      /\ version'.data = [id |-> publishing.version, status |-> "published"]
  BY <1>1, SetFacts DEF IInv, Typed
<1>4. VersionOK'
  <2>1. version'.data.id = publishing.version
    BY <1>3
  <2>2. version'.data.id = url'.version \/ overtaken'
    BY <1>1, <2>1
  <2>3. version'.load = "read" => version'.read.id = url'.version
    BY <1>1, <1>3 DEF IInv, VersionOK
  <2> QED
    BY <2>2, <2>3 DEF VersionOK
<1>5. PlaybookOK'
  BY <1>1, <1>2 DEF PlaybookOK
<1>6. ListOK'
  BY <1>1 DEF IInv, ListOK
<1> QED
  BY <1>1, <1>2, <1>3, <1>4, <1>5, <1>6 DEF IInv, Typed, Resource

(* Everything else changes nothing the screen shows.                       *)
LEMMA OtherInv ==
  ASSUME IInv, UNCHANGED <<url, resources, overtaken>>
  PROVE  IInv'
  BY DEF resources, IInv, Typed, Resource, ListOK, PlaybookOK, Own, VersionOK

----------------------------------------------------------------------------
(* The theorem.                                                            *)

LEMMA NextInv == IInv /\ [Next]_vars => IInv'
<1> SUFFICES ASSUME IInv, [Next]_vars PROVE IInv'
  OBVIOUS
<1>1. CASE UNCHANGED vars
  BY <1>1, OtherInv DEF vars
<1>2. CASE \/ \E p \in Playbooks : SelectPlaybook(p)
           \/ \E v \in Versions : SelectVersion(v)
           \/ LandOnPlaybook \/ LandOnVersion \/ InstallAnswered
  BY <1>2, SelectionInv
<1>3. CASE PlaybooksLoad \/ PlaybookLoad \/ VersionLoad \/ Retry \/ PublishAnswered
  BY <1>3, PlaybooksLoadInv, PlaybookLoadInv, VersionLoadInv, RetryInv, PublishAnsweredInv
<1>4. CASE \/ Publish \/ ServePublish \/ PublishFailed \/ Install \/ ServeInstall \/ InstallFailed
           \/ \E v \in Versions : OtherWrites(v)
  <2>1. UNCHANGED <<url, resources, overtaken>>
    BY <1>4 DEF Publish, ServePublish, PublishFailed, Install, ServeInstall, InstallFailed, OtherWrites
  <2> QED
    BY <2>1, OtherInv
<1> QED
  BY <1>1, <1>2, <1>3, <1>4 DEF Next, Screen, Reviewer

LEMMA SpecInv == Spec => []IInv
  BY InitInv, NextInv, PTL DEF Spec

(* Once the viewer rests and nothing has failed it shows the playbook and  *)
(* the version that the URL names, whatever was clicked and published      *)
(* before, for any library and any number of clicks.                       *)
THEOREM LibraryShowsSelected == Spec => []ShownIsSelected
<1>1. IInv => ShownIsSelected
  <2> SUFFICES ASSUME IInv, Resting, ~playbooks.failed, ~playbook.failed, ~version.failed
               PROVE  IF url.playbook = Nothing THEN playbooks.data = {}
                      ELSE /\ playbook.data.id = url.playbook
                           /\ Owner[url.version] = url.playbook
                           /\ version.data.id = url.version \/ overtaken
    BY DEF ShownIsSelected
  <2>1. playbooks.load = "none" /\ playbook.load = "none" /\ version.load = "none"
    BY DEF Resting, InFlight, Loading
  <2>2. CASE url.playbook = Nothing
    <3>1. playbooks.data \in SUBSET Playbooks
      BY <2>1 DEF IInv, ListOK
    <3> QED
      BY <2>2, <3>1, AnswersAreData DEF Resting, WantsPlaybook
  <2>3. CASE url.playbook # Nothing
    <3>1. playbook.data \in PlaybookData /\ playbook.data.id = url.playbook /\ Own(playbook.data)
      BY <2>1, <2>3 DEF IInv, PlaybookOK
    <3>2. playbook.data # NoData
      BY <3>1, AnswersAreData DEF PlaybookData
    <3>3. url.version \in playbook.data.versions
      BY <2>3, <3>2 DEF Resting, WantsVersion
    <3>4. url.version \in Versions /\ Owner[url.version] = url.playbook
      BY <3>1, <3>3 DEF PlaybookData, Own
    <3>5. url.version # Nothing
      BY <3>4, LibraryTyped
    <3> QED
      BY <2>1, <2>3, <3>1, <3>4, <3>5 DEF IInv, VersionOK
  <2> QED
    BY <2>2, <2>3
<1> QED
  BY <1>1, SpecInv, PTL

=============================================================================
