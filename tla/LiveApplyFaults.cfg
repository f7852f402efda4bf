SPECIFICATION Spec
CONSTANTS
  Tags = {a, b}
  GroupSize = 2
  Disturbances <- Faults
  None = None
INVARIANTS
  RemovesNoDependency
PROPERTIES
  SuccessKeepsSync
