CONSTANTS
  Tasks = {4, 8}
  Second = 3
  MayStop = TRUE
SPECIFICATION Spec
INVARIANTS TypeOK TransferAlone NeverSpins MaskedOnlyByUnlock
PROPERTY AccessEnds
