\* Three calls, one at a time, of every kind of function.
SPECIFICATION Spec
CONSTANTS
  Calls = {c1, c2, c3}
  Fns = {poll, touch, fetch, read, size}
  AsyncFns = {poll, fetch}
  IndirectFns = {poll}
  ResultFns = {fetch, read, size}
  DirectFns = {size}
  HeapFns = {fetch, read}
  ArgFns = {touch, read}
  BorrowFns = {size}
  Hooks <- AllHooks
  MaxActive = 1
  None = None
INVARIANTS TypeOK BumpBalanced
PROPERTY ImplementsProtocol
