\* Two of three calls may be in flight: what still holds without serialization.
SPECIFICATION OverlapSpec
CONSTANTS
  c1 = c1
  c2 = c2
  c3 = c3
  Calls = {c1, c2, c3}
  Fns = {poll, fetch}
  AsyncFns = {poll, fetch}
  IndirectFns = {poll}
  ResultFns = {fetch}
  DirectFns = {}
  HeapFns = {fetch}
  ArgFns = {poll}
  BorrowFns = {}
  Hooks <- AllHooks
  MaxActive = 2
  None = None
INVARIANTS CallIdsPair SoloCallsFaithful LiveHeapSafe
PROPERTY EveryCallReturns
