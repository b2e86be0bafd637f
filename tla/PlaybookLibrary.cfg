SPECIFICATION FairSpec
CONSTANTS
  p1 = p1
  demo = demo
  v1 = v1
  v2 = v2
  w1 = w1
  Playbooks = {p1, demo}
  Versions = {v1, v2, w1}
  Owner <- Owners
  Number <- Numbers
  Demo = demo
  NoData = NoData
  Nothing = Nothing
  MaxClicks = 3
INVARIANT ShownIsSelected
PROPERTY ComesToRest
CHECK_DEADLOCK FALSE
