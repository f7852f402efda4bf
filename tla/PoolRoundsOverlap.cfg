\* Two pool-A rounds and a pool-B round, long enough for a config to leave
\* pool A and come back while both pool-A rounds still hold it.
SPECIFICATION Spec
CONSTANTS
  c1 = c1
  c2 = c2
  jobA = jobA
  jobB = jobB
  boot = boot
  Configs <- TwoConfigs
  Workers <- AllThreads
  AWorkers = {jobA, boot}
  BootWorkers = {boot}
  FailThreshold <- TwoFailures
  DemoteGrace = 1
  Measured = {"fast", "dead"}
  ChunkSize = 1
  MaxItems = 0
  MaxGeneration = 3
SYMMETRY ConfigSymmetry
PROPERTIES ResultsFresh
