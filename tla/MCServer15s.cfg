CONSTANTS
  Sockets <- OneSocket
  KeepAlive = 2
  Timeout = 6
  QueueLength = 1
  Replies <- MCReplies
  Commands <- MCCommands
  Faults = {}
SPECIFICATION Spec
INVARIANT ClosedAfter15s
