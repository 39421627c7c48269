CONSTANTS
  w1 = w1
  w2 = w2
  r1 = r1
  v1 = v1
  v2 = v2
  Waves = {w1, w2}
  Registers = {r1}
  Values = {v1, v2}
  Length = 2
  Loops = FALSE
  max_steps = 0
SPECIFICATION Spec
CHECK_DEADLOCK FALSE
INVARIANT OneInstructionPerStep
