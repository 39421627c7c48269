SPECIFICATION FairSpec
CONSTANTS
  N = 2
  Buffers = 1
  InsertFails = FALSE
INVARIANTS
  TypeOK
  DisplacedOwned
  QueueQuiet
  InLineAlone
  NeedyAreQueued
  NoAssertionFails
  NoSecondHit
PROPERTY PausedIsResumed
CHECK_DEADLOCK FALSE
