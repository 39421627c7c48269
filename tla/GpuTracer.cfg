CONSTANTS
  w1 = w1
  w2 = w2
  r1 = r1
  v1 = v1
  v2 = v2
  Waves = {w1, w2}
  Registers = {r1}
  Values = {v1, v2}
  Length = 1
  Loops = TRUE
  max_steps = 2
SPECIFICATION FairSpec
CHECK_DEADLOCK FALSE
INVARIANTS
  TypeOK
  RegistersReconstruct
  TraceComplete
  LockReleased
PROPERTY TraceEnds
