CONSTANTS
  Inputs = {i1, i2, i3}
  InputDelay = 6
  BoostDelay = 8
  IntMax = 8
  QueueLength = 4
  VentLoop = 2
SPECIFICATION Spec
INVARIANTS TypeOK RoomForEdge EdgesAgree BoostFollowsInputs BoostRunsItsTime
PROPERTIES EdgesSpec
