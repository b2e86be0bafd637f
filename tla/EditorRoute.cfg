SPECIFICATION Spec
CONSTANTS
  Playbooks = {p1, p2}
  NoPlaybook = NoPlaybook
  Versions = {v1, v2}
  NoVersion = NoVersion
  Graphs <- MCGraphs
  EmptyGraph <- Nothing
  Unfit = Unfit
  FinishedGraphs <- MCFinished
  Slots = {s1, s2}
  NoSlot = NoSlot
SYMMETRY Interchangeable
INVARIANT NoForeignWrite
