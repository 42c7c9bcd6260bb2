SPECIFICATION Spec
CONSTANTS
  Given <- AllFunctions
  Numbers = {1, 506}
  MaxLen = 2
  MemEnd = 200
INVARIANTS
  RoundTrip
  SlotsTyped
  InfosFilled
  SlabExact
  ArgsForwarded
  ResultReturned
PROPERTIES
  WriteOnce
