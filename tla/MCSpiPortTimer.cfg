CONSTANTS
  Tasks = {4, 8}
  Second = 3
  MayStop = FALSE
SPECIFICATION Spec
PROPERTY TimerRepeats
