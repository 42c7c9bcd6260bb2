SPECIFICATION Spec
CONSTANTS
  Given <- LastVariant
  Numbers = {1, 506}
  MaxLen = 2
  MemEnd = 200
INVARIANT
  WrapperGenerated
