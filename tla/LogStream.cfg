SPECIFICATION FairSpec
CONSTANTS
  r1 = r1
  Readers = {r1}
  MaxLines = 5
  MaxCrashes = 2
INVARIANTS
  TypeOK
  KeyNotAhead
PROPERTIES
  FeedKept
  LinesArrive
