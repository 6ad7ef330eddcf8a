SPECIFICATION Spec
CONSTANTS
  MaxTaps = 3
  MaxPending = 3
INVARIANTS TypeOK ScreenTells StopHolds
CHECK_DEADLOCK FALSE
