SPECIFICATION Spec
CONSTANTS
  i1 = i1
  i2 = i2
  r1 = r1
  Installations = {i1, i2}
  Repos = {r1}
  Clouds <- SomeClouds
  MaxEvents = 4
  MaxRevs = 2
  MaxMishaps = 1
SYMMETRY IdsAlike
INVARIANTS
  TypeOK
  CommitGetsItsJobs
  MirrorsGitHub
  PushSucceeds
\* A behaviour ends when the bounded events are handled.
CHECK_DEADLOCK FALSE
