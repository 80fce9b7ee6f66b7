SPECIFICATION FairSpec
CONSTANTS
  p1 = p1
  p2 = p2
  h1 = h1
  linux = linux
  Procs = {p1}
  Platforms = {linux}
  PlatformOf <- OnePlatform
  MaxJobs = 1
  MaxRunners = 1
  Handlers = {h1}
  Cap = 1
  WireCap = 1
  Amounts = {1}
  Limit <- LimitOne
  Budget <- Timeout
PROPERTIES
  RunningJobTimesOut
\* A behaviour ends when the bounded connections, requests and faults are
\* used up and every job is over.
CHECK_DEADLOCK FALSE
