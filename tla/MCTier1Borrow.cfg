\* A blocked call of a function with a borrow parameter.
SPECIFICATION Spec
CONSTANTS
  Calls = {c1, c2}
  Fns = {poll, touch}
  AsyncFns = {poll}
  IndirectFns = {}
  ResultFns = {}
  DirectFns = {}
  HeapFns = {}
  ArgFns = {}
  BorrowFns = {touch, poll}
  Hooks <- AllHooks
  MaxActive = 1
  None = None
INVARIANTS BorrowsDropped
