CONSTANTS
  N = 2
  MaxEvents = 4
  LeaveWhileStopped = TRUE
SPECIFICATION Spec
CHECK_DEADLOCK FALSE
INVARIANT NotifiersWatched
