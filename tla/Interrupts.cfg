CONSTANTS
  Tasks = {a, b}
  Kernel = kernel
  MaxTasks = 3
  Lines = {0, 1, 12}
  Exceptions = {13}
  MaxActivations = 2
  Turns = 2

SPECIFICATION Spec

INVARIANT ContextPreserved
INVARIANT Acknowledged
PROPERTY KernelNeverResumed
PROPERTY EveryTaskRuns
