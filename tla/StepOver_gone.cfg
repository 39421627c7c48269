SPECIFICATION Spec
CONSTANTS
  N = 2
  Buffers = 1
  InsertFails = FALSE
INVARIANT ResumingGoneSucceeds
CHECK_DEADLOCK FALSE
