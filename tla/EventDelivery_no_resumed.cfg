CONSTANTS
  N = 2
  MaxEvents = 4
  LeaveWhileStopped = FALSE
SPECIFICATION Spec
CHECK_DEADLOCK FALSE
INVARIANT NoLostWakeup
