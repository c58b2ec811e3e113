CONSTANTS
  Inputs = {i1}
  InputDelay = 6
  BoostDelay = 12
  IntMax = 7
  Clients <- MCClients
  Requests <- MCRequests
  SwitchDelay = 1
  QueueLength = 2
  ReceiveWait = 1
  SendWait = 1
  Backlog = 1
SPECIFICATION Spec
PROPERTIES TasksImplemented FanFollowsRequests BoostReachesFan
