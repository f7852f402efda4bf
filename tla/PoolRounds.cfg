\* Two pool-A rounds, the job's and bootstrap's, beside a pool-B round.
SPECIFICATION Spec
CONSTANTS
  c1 = c1
  c2 = c2
  jobA = jobA
  jobB = jobB
  boot = boot
  Configs <- TwoConfigs
  Workers <- AllThreads
  AWorkers = {jobA, boot}
  BootWorkers = {boot}
  FailThreshold <- ThreeFailures
  DemoteGrace = 1
  Measured = {"fast", "dead"}
  ChunkSize = 1
  MaxItems = 0
  MaxGeneration = 2
SYMMETRY ConfigSymmetry
INVARIANTS TypeOK ScoreMatchesPool ScoreMatchesLastTest TalliesAgree
PROPERTIES GenerationTracksMembership LivesTheLife SnapshotCommitsFresh MembersLeaveByOwnRound
           OnlyAbandonedLeaveRunning
