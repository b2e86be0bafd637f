SPECIFICATION FairSpec
CONSTANTS
  NoNode = NoNode
  NoResolution = NoResolution
  InputGraphs <- AllGraphs
INVARIANTS
  CycleReportsSound
  DecidesPublishable
PROPERTY Terminates
CHECK_DEADLOCK FALSE
