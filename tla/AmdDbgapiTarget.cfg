CONSTANTS
  w1 = w1
  w2 = w2
  Waves = {w1, w2}
  RepeatInterrupt = FALSE
  TargetAtFirst = TRUE
SPECIFICATION FairSpec
INVARIANTS
  TypeOK
  ExitHasThread
  ReportedOnce
  StoppedMeansStopped
  ExecutingIsNotForgotten
  TrapNotLost
  WaitsAreOwed
PROPERTIES
  AllStoppedOnReturn
  StopAllReturns
  ImplementsWaveControl
