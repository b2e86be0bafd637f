-------------------------- MODULE PlaybookLibrary --------------------------
(***************************************************************************)
(* The playbook viewer, app/playbooks/PlaybooksScreen.tsx.  The selection  *)
(* is the URL; three resources follow it, two effects correct it, and the  *)
(* answers of the screen's two writes (publish, and the installation of    *)
(* the demo playbook) change it or what is shown, whenever they come.      *)
(***************************************************************************)
EXTENDS UseResource, Naturals

CONSTANTS Playbooks,      \* playbook ids
          Versions,       \* version ids
          Owner, Number,  \* version -> its playbook, its number
          Demo,           \* the playbook the demo installation creates
          Nothing,        \* null
          MaxClicks       \* bound: what a reviewer does on one visit

ASSUME LibraryTyped ==
  /\ Owner \in [Versions -> Playbooks] /\ Number \in [Versions -> Nat]
  /\ Demo \in Playbooks /\ Nothing \notin Playbooks \cup Versions

(* What the server answers with, a list or a playbook, is not null.        *)
ASSUME AnswersAreData ==
  /\ \A list \in SUBSET Playbooks : list # NoData
  /\ \A p \in [id : Playbooks, versions : SUBSET Versions, published : SUBSET Versions] : p # NoData

VARIABLES status,      \* server: version -> "none", "draft" or "published"
          url,         \* ?playbook=&version=
          playbooks,   \* useResource: the playbooks
          playbook,    \* useResource: the playbook of the URL and its versions
          version,     \* useResource: the version of the URL
          publishing,  \* the publication in flight
          installing,  \* the installation in flight
          errors,      \* publishError, installError
          overtaken,   \* history: a publication's answer came for another version
          clicks

resources == <<playbooks, playbook, version>>
writes == <<publishing, installing, errors>>
vars == <<status, url, resources, writes, overtaken, clicks>>

VersionsOf(p) == {v \in Versions : Owner[v] = p /\ status[v] # "none"}
Existing == {p \in Playbooks : VersionsOf(p) # {}}
Link == [playbook : Playbooks \cup {Nothing}, version : Versions \cup {Nothing}]

NoWrite == [version |-> Nothing, code |-> "none"]

Published(versions) == {v \in versions : status[v] = "published"}

(* The screen is opened by a link, whatever the link names.                *)
Init ==
  /\ status \in [Versions -> {"none", "draft", "published"}]
  /\ url \in Link
  /\ playbooks = Mount(TRUE)
  /\ playbook = Mount(url.playbook # Nothing)
  /\ version = Mount(url.version # Nothing)
  /\ publishing = NoWrite /\ installing = NoWrite /\ errors = {}
  /\ overtaken = FALSE
  /\ clicks = 0

Click == clicks < MaxClicks /\ clicks' = clicks + 1

----------------------------------------------------------------------------
(* The selection.                                                          *)

(* router.replace, and the effects of the two resources that depend on it. *)
Select(p, v) ==
  /\ url' = [playbook |-> p, version |-> v]
  /\ playbook' = IF p = url.playbook THEN playbook ELSE Trigger(playbook, p # Nothing)
  /\ version' = IF v = url.version THEN version ELSE Trigger(version, v # Nothing)

SelectPlaybook(p) ==
  /\ Click
  /\ playbooks.data # NoData /\ p \in playbooks.data
  /\ Select(p, Nothing)
  /\ UNCHANGED <<status, playbooks, writes, overtaken>>

SelectVersion(v) ==
  /\ Click
  /\ playbook.data # NoData /\ v \in playbook.data.versions
  /\ Select(url.playbook, v)
  /\ UNCHANGED <<status, playbooks, writes, overtaken>>

(* Mutant: the first playbook is opened although one is selected.          *)
WantsPlaybookAlways == playbooks.data # NoData /\ playbooks.data # {}

WantsPlaybook == url.playbook = Nothing /\ playbooks.data # NoData /\ playbooks.data # {}

(* The first effect: the first playbook of the list, in the server's order.*)
LandOnPlaybook ==
  /\ WantsPlaybook
  /\ \E p \in playbooks.data : Select(p, Nothing)
  /\ UNCHANGED <<status, playbooks, writes, overtaken, clicks>>

(* The versions on display may still be those of another playbook.         *)
WantsVersion ==
  url.playbook # Nothing /\ playbook.data # NoData /\ url.version \notin playbook.data.versions

Newest(versions) == CHOOSE v \in versions : \A w \in versions : Number[w] <= Number[v]

(* The newest published version, or else the newest.                       *)
Landing(p) == Newest(IF p.published # {} THEN p.published ELSE p.versions)

(* The second effect.                                                      *)
LandOnVersion ==
  /\ WantsVersion
  /\ Select(url.playbook, Landing(playbook.data))
  /\ UNCHANGED <<status, playbooks, writes, overtaken, clicks>>

----------------------------------------------------------------------------
(* The three loads.                                                        *)

PlaybooksLoad ==
  /\ \/ playbooks.load = "sent" /\ playbooks' = ServerRead(playbooks, Existing)
     \/ playbooks.load = "read" /\ playbooks' = Loaded(playbooks)
     \/ Loading(playbooks) /\ playbooks' = Failed(playbooks)
  /\ UNCHANGED <<status, url, playbook, version, writes, overtaken, clicks>>

PlaybookLoad ==
  /\ \/ /\ playbook.load = "sent" /\ url.playbook \in Existing
        /\ playbook' = ServerRead(playbook, [id |-> url.playbook,
                                             versions |-> VersionsOf(url.playbook),
                                             published |-> Published(VersionsOf(url.playbook))])
     \/ playbook.load = "read" /\ playbook' = Loaded(playbook)
     \/ Loading(playbook) /\ playbook' = Failed(playbook)
  /\ UNCHANGED <<status, url, playbooks, version, writes, overtaken, clicks>>

VersionLoad ==
  /\ \/ /\ version.load = "sent" /\ status[url.version] # "none"
        /\ version' = ServerRead(version, [id |-> url.version, status |-> status[url.version]])
        /\ UNCHANGED overtaken
     \/ version.load = "read" /\ version' = Loaded(version) /\ overtaken' = FALSE
     \/ Loading(version) /\ version' = Failed(version) /\ UNCHANGED overtaken
  /\ UNCHANGED <<status, url, playbooks, playbook, writes, clicks>>

(* "Try again".  A failed load of the playbook is not shown, nor retried.  *)
Retry ==
  /\ Click
  /\ \/ playbooks.failed /\ playbooks' = Trigger(playbooks, TRUE) /\ UNCHANGED version
     \/ version.failed /\ version' = Trigger(version, url.version # Nothing)
        /\ UNCHANGED playbooks
  /\ UNCHANGED <<status, url, playbook, writes, overtaken>>

----------------------------------------------------------------------------
(* The two writes, and those of others.                                    *)

(* The version shown is the one published, whatever the URL says by now.   *)
Publish ==
  /\ Click
  /\ version.data # NoData /\ version.data.status = "draft" /\ publishing = NoWrite
  /\ publishing' = [version |-> version.data.id, code |-> "sent"]
  /\ errors' = errors \ {"publish"}
  /\ UNCHANGED <<status, url, resources, installing, overtaken>>

(* The server publishes the draft, or refuses: not a draft any more, or a  *)
(* graph that breaks a rule.                                               *)
ServePublish ==
  LET v == publishing.version
  IN  /\ publishing.code = "sent"
      /\ \/ /\ status[v] = "draft"
            /\ status' = [status EXCEPT ![v] = "published"]
            /\ publishing' = [publishing EXCEPT !.code = "OK"]
         \/ publishing' = [publishing EXCEPT !.code = "refused"] /\ UNCHANGED status
      /\ UNCHANGED <<url, resources, installing, errors, overtaken, clicks>>

PublishAnswered ==
  /\ publishing.code = "OK"
  /\ version' = Set(version, [id |-> publishing.version, status |-> "published"])
  /\ playbook' = Trigger(playbook, url.playbook # Nothing)
  /\ publishing' = NoWrite
  /\ overtaken' = (publishing.version # url.version)
  /\ UNCHANGED <<status, url, playbooks, installing, errors, clicks>>

(* A refusal, or no answer at all.                                         *)
PublishFailed ==
  /\ publishing.code \in {"sent", "OK", "refused"}
  /\ publishing' = NoWrite
  /\ errors' = errors \cup {"publish"}
  /\ UNCHANGED <<status, url, resources, installing, overtaken, clicks>>

(* installDemoPlaybook: a POST that creates, and another that publishes.   *)
Install ==
  /\ Click
  /\ playbooks.data # NoData /\ installing = NoWrite
  /\ \E v \in Versions : /\ Owner[v] = Demo /\ status[v] = "none"
                         /\ installing' = [version |-> v, code |-> "create"]
  /\ errors' = errors \ {"install"}
  /\ UNCHANGED <<status, url, resources, publishing, overtaken>>

ServeInstall ==
  /\ \/ /\ installing.code = "create"
        /\ status' = [status EXCEPT ![installing.version] = "draft"]
        /\ installing' = [installing EXCEPT !.code = "publish"]
     \/ /\ installing.code = "publish" /\ status[installing.version] = "draft"
        /\ status' = [status EXCEPT ![installing.version] = "published"]
        /\ installing' = [installing EXCEPT !.code = "OK"]
  /\ UNCHANGED <<url, resources, publishing, errors, overtaken, clicks>>

InstallAnswered ==
  /\ installing.code = "OK"
  /\ playbooks' = Trigger(playbooks, TRUE)
  /\ Select(Demo, installing.version)
  /\ installing' = NoWrite
  /\ UNCHANGED <<status, publishing, errors, overtaken, clicks>>

(* Between the two calls, or at either: the draft may be left behind.      *)
InstallFailed ==
  /\ installing # NoWrite
  /\ installing' = NoWrite
  /\ errors' = errors \cup {"install"}
  /\ UNCHANGED <<status, url, resources, publishing, overtaken, clicks>>

(* Designers at work elsewhere, and writes of this screen that were given  *)
(* up as lost.                                                             *)
OtherWrites(v) ==
  /\ \/ /\ status[v] = "none" /\ v # installing.version
        /\ status' = [status EXCEPT ![v] = "draft"]
     \/ status[v] = "draft" /\ status' = [status EXCEPT ![v] = "published"]
  /\ UNCHANGED <<url, resources, writes, overtaken, clicks>>

----------------------------------------------------------------------------
Screen ==
  \/ LandOnPlaybook \/ LandOnVersion
  \/ PlaybooksLoad \/ PlaybookLoad \/ VersionLoad
  \/ ServePublish \/ PublishAnswered \/ PublishFailed
  \/ ServeInstall \/ InstallAnswered \/ InstallFailed

Reviewer ==
  \/ \E p \in Playbooks : SelectPlaybook(p)
  \/ \E v \in Versions : SelectVersion(v)
  \/ Retry \/ Publish \/ Install

Next == Screen \/ Reviewer \/ \E v \in Versions : OtherWrites(v)

Spec == Init /\ [][Next]_vars

(* Every call ends one way or another and React runs its effects.  Nothing *)
(* is assumed of the reviewer, nor of success.                             *)
FairSpec == Spec /\ WF_vars(Screen)

----------------------------------------------------------------------------
(* Properties.                                                             *)

InFlight == \/ Loading(playbooks) \/ Loading(playbook) \/ Loading(version)
            \/ publishing # NoWrite \/ installing # NoWrite

Resting == ~InFlight /\ ~WantsPlaybook /\ ~WantsVersion

(* "Selection lives in the URL": once the screen rests and no load has     *)
(* failed, it shows the playbook and the version the URL names, the one    *)
(* belongs to the other, and a URL without a selection means an empty      *)
(* library.  The one exception is the answer to a publication that comes   *)
(* after the reviewer moved on: version.set shows that version instead.    *)
ShownIsSelected ==
  Resting /\ ~playbooks.failed /\ ~playbook.failed /\ ~version.failed
    => IF url.playbook = Nothing THEN playbooks.data = {}
       ELSE /\ playbook.data.id = url.playbook
            /\ Owner[url.version] = url.playbook
            /\ version.data.id = url.version \/ overtaken

(* The two effects never chase each other: the screen comes to rest.       *)
ComesToRest == <>[]Resting

=============================================================================
