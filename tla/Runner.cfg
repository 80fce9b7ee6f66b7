SPECIFICATION FairSpec
CONSTANTS
  j1 = j1
  j2 = j2
  Jobs = {j1, j2}
  StatusCap = 2
  CompletionCap = 1
  ControlCap = 1
  MaxOrders = 1
INVARIANTS
  TypeOK
  EndsOnce
  OrderReachesVm
PROPERTIES
  EndedVmIsReported
  DrainEnds
  VmTasksKept
\* A process that was told to stop exits; a main loop that waits for itself stops.
CHECK_DEADLOCK FALSE
