CONSTANTS
  Tasks = {a}
  Kernel = kernel
  MaxTasks = 1
  Lines = {0}
  Exceptions = {0}
  MaxActivations = 1
  Turns = 2

SPECIFICATION Spec

INVARIANT FrameIsCPUState
