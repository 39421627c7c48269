SPECIFICATION Spec
CONSTANTS
  N = 2
  Buffers = 1
  InsertFails = TRUE
INVARIANT NeedyAreQueued
CHECK_DEADLOCK FALSE
