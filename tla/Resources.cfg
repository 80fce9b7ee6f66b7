SPECIFICATION FairSpec
CONSTANTS
  v1 = v1
  v2 = v2
  v3 = v3
  v4 = v4
  Vms = {v1, v2, v3, v4}
  Cpus <- CpusOf
  Memory <- MemoryOf
  MaxCpus = 5
  MaxMemory = 6
  MaxInstances = 3
  MemoryBuffer = 1
  PoolSize <- Pools
INVARIANTS
  TypeOK
  AccountingExact
  WithinLimits
  PoolsConserved
PROPERTIES
  EverythingComesBack
  PoolsImplemented
\* A behaviour ends when every attempt is gone and released.
CHECK_DEADLOCK FALSE
