CONSTANTS
  Sockets <- OneSocket
  ClientSpeeds = {2}
  QueueLength = 2
  SwitchDelay = 1
SPECIFICATION Spec
INVARIANTS ClientsAgree GetsUnderWay
PROPERTIES GetIsAnswered
