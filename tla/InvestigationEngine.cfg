SPECIFICATION FairSpec
CONSTANTS
  Clients = {c1, c2}
  Investigations = {i1}
  Versions = {"triage", "close"}
  Graph <- MCGraph
  EdgeRefs <- MCEdgeRefs
  Keys = {k1}
  NoKey = NoKey
  Bodies = {b0, b1, b2}
  InvalidBody = b0
  NoNode = NoNode
  NoResolution = NoResolution
  NoRow = NoRow
  NoStep = NoStep
  NoRequest = NoRequest
  NoClient = NoClient
INVARIANTS
  TypeOK
  TrailMatchesPointer
  CompletedExactlyAtTerminal
  OneStepPerKey
  NeverRevisits
  ResponseIsOneStory
  SuccessMeansRecorded
  BackstopNeverHit
  OverlayTellsWalk
PROPERTIES
  ImplementsAuditTrail
  AppendOnly
  RetryNeverRejected
  EveryRequestAnswered
