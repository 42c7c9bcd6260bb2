\* Two of three calls may be in flight, of functions of every shape.
SPECIFICATION CallsSpec
CONSTANTS
  c1 = c1
  c2 = c2
  c3 = c3
  Calls = {c1, c2, c3}
  Fns = {touch, size, read, poll, fetch}
  AsyncFns = {poll, fetch}
  IndirectFns = {fetch}
  ResultFns = {size, read, fetch}
  DirectFns = {size}
  HeapFns = {read, fetch}
  ArgFns = {touch, fetch}
  BorrowFns = {poll}
  MaxActive = 2
  None = None
INVARIANTS OnCallFaithful SoloCallsFaithful BumpBalanced
PROPERTY ImplementsProtocol
