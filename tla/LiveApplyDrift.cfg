SPECIFICATION Spec
CONSTANTS
  Tags = {a, b, c}
  GroupSize = 2
  Disturbances <- LostRequest
  None = None
INVARIANTS
  SuccessRestoresStandby
