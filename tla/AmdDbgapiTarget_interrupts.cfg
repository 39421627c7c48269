CONSTANTS
  w1 = w1
  w2 = w2
  Waves = {w1, w2}
  RepeatInterrupt = TRUE
  TargetAtFirst = TRUE
SPECIFICATION Spec
INVARIANT ExitHasThread
