SPECIFICATION FairSpec
CONSTANTS
  j1 = j1
  j2 = j2
  Jobs = {j1, j2}
  Length <- Lengths
  DebugLines <- Debugs
  Hits <- Found
  Filtered = {j1}
  MaxConnects = 2
  MaxErrors = 2
INVARIANTS
  TypeOK
  FilteredIsFilter
  OneConnection
PROPERTIES
  OwnLinesArrive
\* The user has closed every viewer and the connects are used up.
CHECK_DEADLOCK FALSE
