SPECIFICATION Spec
CONSTANTS
  a = a
  b = b
  c1 = c1
  c2 = c2
  c3 = c3
  c4 = c4
  c5 = c5
  Configs = {c1, c2, c3, c4, c5}
  ChunkSize = 3
  None = None
  Rounds = {a}
  Snapshots <- Alone
INVARIANTS
  TypeOK
  BisectionKeepsValid
  PublishedInFull
  MeasuredThroughItself
PROPERTIES BisectionEnds
