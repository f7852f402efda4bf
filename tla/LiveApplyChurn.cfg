SPECIFICATION Spec
CONSTANTS
  Tags = {a, b, c}
  GroupSize = 2
  Disturbances <- Churn
  None = None
INVARIANTS
  TypeOK
  ChurnRestartsNothing
  StandbyStaysSelectable
