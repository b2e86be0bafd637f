SPECIFICATION FairSpec
CONSTANTS
  Clients = {c1, c2}
  Playbooks = {p1}
  Versions = {v1, v2}
  InputGraphs <- DraftGraphs
  TypeOf <- Types
  t1 = t1
  AlertTypes = {t1, NoAlert}
  NoAlert = NoAlert
  NoRow = NoRow
  NoNode = NoNode
  Incoherent = Incoherent
  NoResolution = NoResolution
INVARIANTS
  PublishedIsPublishable
  PublishedReadWhole
  InvestigationsRunPublished
  DeadlocksOnlyOverIds
PROPERTIES
  PublishedFrozen
  EveryRequestAnswered
