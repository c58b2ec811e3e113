CONSTANTS
  Sockets <- OneSocket
  KeepAlive = 2
  Timeout = 6
  QueueLength = 1
  Replies <- MCReplies
  Commands <- MCCommands
  Faults = {"stop"}
SPECIFICATION Spec
INVARIANTS TypeOK SilentClosed HeartbeatInTime NoStaleText
PROPERTIES ClosedOnlyIfSilent
