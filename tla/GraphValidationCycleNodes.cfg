SPECIFICATION FairSpec
CONSTANTS
  NoNode = NoNode
  NoResolution = NoResolution
  InputGraphs <- SmallGraphs
INVARIANT EveryCycleNodeReported
CHECK_DEADLOCK FALSE
