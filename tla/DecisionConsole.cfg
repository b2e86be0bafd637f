SPECIFICATION Spec
CONSTANTS
  Playbook <- MCPlaybook
  Keys = {k1, k2}
  NoKey = NoKey
  Actors = {analyst, agent}
  Analyst = analyst
  Rationales = {blank, typed}
  NoRationale = blank
  Rows <- MCRows
  MaxRows = 1
  Slots = {s1, s2}
  NoSlot = NoSlot
  NoEdge = NoEdge
  NoContent = NoContent
  NoState = NoState
  NoNode = NoNode
  NoResolution = NoResolution
SYMMETRY Interchangeable
INVARIANTS
  SelectionIsOffered
  RefusedMeansNotRecorded
  EvidenceNeverRefused
PROPERTY ShownNeverGoesBack
