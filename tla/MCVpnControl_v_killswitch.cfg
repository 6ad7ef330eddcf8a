SPECIFICATION Spec
CONSTANTS
  MaxTaps = 3
  MaxPending = 3
PROPERTIES KillSwitchOff
CHECK_DEADLOCK FALSE
