\* Every graph of three nodes and the regular ones of four.
SPECIFICATION Spec
CONSTANTS
  NumNodes = 4
  IfaceOrder <- ABC
  Mdls = {"m1", "m2", "m3"}
  Adapted = {"m1", "m3"}
  Configured = {"m1"}
  Inputs <- AllInputs
  None = None
INVARIANTS
  DefinedBeforeUse
  OneInstancePerSplit
  NoInternalError
  LetsUnique
  RegularEdgesSpliced
  RegularExportsSpliced
