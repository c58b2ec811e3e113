CONSTANTS
  Clients <- MCClients
  Requests <- AllRequests
  QueueLength = 1
  SwitchDelay = 2
SPECIFICATION Spec
INVARIANTS TypeOK Interlock RelaysMatchSpeed StatusFresh BoostOver
PROPERTIES MotorSpec SettlesOnWanted NeverWedged
