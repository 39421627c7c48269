CONSTANTS
  N = 2
  MaxEvents = 4
  LeaveWhileStopped = FALSE
SPECIFICATION FairSpec
CHECK_DEADLOCK FALSE
INVARIANTS
  TypeOK
  NoLostWakeupIfResumed
  HandlerExists
  NotifiersWatched
PROPERTIES
  FailsOnlyAtUnload
  NotifiersServed
  EventsDelivered
