\* A composition in three tiers, no rule.
SPECIFICATION Spec
CONSTANTS
  NumNodes = 3
  IfaceOrder <- ABC
  Mdls = {"m1", "m2", "m3"}
  Adapted = {"m1", "m3"}
  Configured = {"m1"}
  Inputs <- ThreeTier
  None = None
INVARIANT EdgesSpliced
