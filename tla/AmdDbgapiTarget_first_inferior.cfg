CONSTANTS
  w1 = w1
  w2 = w2
  Waves = {w1, w2}
  RepeatInterrupt = FALSE
  TargetAtFirst = FALSE
SPECIFICATION Spec
PROPERTY AllStoppedOnReturn
