\* Two processes at a time out of three, two process ids.
SPECIFICATION Spec
CONSTANTS
  Runs = {r1, r2, r3}
  Pids = {p1, p2}
  Builtins = {"hello", "metrics"}
  Consumers = {"metrics"}
  Template = "config-provider"
  Dirs = {splits}
  DefaultDir = splits
  Requests <- CommandLines
  None = None
INVARIANTS TypeOK CacheWhole OutputFaithful KeptUsable TempsExact
SYMMETRY AnyRun
