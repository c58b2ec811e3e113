CONSTANTS
  Sockets <- TwoSockets
  KeepAlive = 0
  Timeout = 0
  QueueLength = 1
  Replies <- OneReply
  Commands <- OneCommand
  Faults = {"reset", "busy", "short"}
SPECIFICATION Spec
PROPERTIES CommandsAreRead SocketsRecover
