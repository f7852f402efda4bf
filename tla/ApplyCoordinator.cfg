\* Three attempts per window of three ticks.
SPECIFICATION Spec
CONSTANTS
  daemon = daemon
  build = build
  Procs <- TwoProcs
  Daemon = daemon
  MaxRestarts = 3
  Window = 3
  HealthRetries = 2
INVARIANTS TypeOK RestartsBounded FileTellsPause
PROPERTIES PausesEnd CallsReturn
