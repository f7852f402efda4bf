SPECIFICATION Spec
CONSTANTS
  Conns = {c1, c2}
  Main = Main
  Boxes = {b1, b2, b3, b4}
  None = None
INVARIANTS
  TypeOK
  OneBox
  OneLateConnection
  NoBoxLeft
PROPERTIES
  ShutdownEnds
CHECK_DEADLOCK FALSE
