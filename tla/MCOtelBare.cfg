SPECIFICATION FairSpec
CONSTANTS
  Calls = {c1, c2, c3, c4}
  Fns = {f, g}
  None = None
INVARIANTS
  Bounded
  ReportedOnce
  NestedCallsPaired
PROPERTY
  EveryEntryReported
