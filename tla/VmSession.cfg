SPECIFICATION FairSpec
CONSTANTS
  WriterCap = 1
  LogCap = 1
  WireCap = 2
  MaxLines = 2
  MaxTries = 2
  MaxOrders = 1
INVARIANTS
  TypeOK
  SuccessHasAReason
  LinesAccountedFor
  GuardsOutlastProcesses
PROPERTIES
  VmTaskKept
  ReportEnds
  OrderEnds
\* The task ends; a log stream is never over.
CHECK_DEADLOCK FALSE
