CONSTANTS
  Commands <- MCCommands
  VAK1 <- MCVAK1
  MaxSent = 3
  BUFFER_SIZE = 7
SPECIFICATION Spec
INVARIANTS TypeOK ReadsStandAlone
