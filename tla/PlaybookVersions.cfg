SPECIFICATION Spec
CONSTANTS
  Clients = {c1, c2}
  Playbooks = {p1, p2}
  Versions = {v1, v2, v3}
  InputGraphs <- CopiedGraphs
  TypeOf <- Types
  t1 = t1
  AlertTypes = {t2}
  NoAlert = NoAlert
  NoRow = NoRow
  NoNode = NoNode
  Incoherent = Incoherent
  NoResolution = NoResolution
SYMMETRY Interchangeable
INVARIANTS
  VersionsNumbered
  CloneNeverCollides
PROPERTY CloneIsCopy
