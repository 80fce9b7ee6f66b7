SPECIFICATION Spec
CONSTANTS
  j1 = j1
  j2 = j2
  Jobs = {j1, j2}
  StatusCap = 2
  CompletionCap = 1
  ControlCap = 1
  MaxOrders = 1
PROPERTY
  CompletionRejectedOnlyWhenMarked
CHECK_DEADLOCK FALSE
