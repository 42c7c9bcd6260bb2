SPECIFICATION Spec
CONSTANTS
  Given <- TextArm
  Numbers = {1, 506}
  MaxLen = 2
  MemEnd = 200
INVARIANT
  CellsInert
