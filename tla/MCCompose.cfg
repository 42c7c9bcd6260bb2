SPECIFICATION Spec
CONSTANTS
  NumComps = 3
  Ifaces <- Ifaces3
  Names <- Names2
  Types <- Types2
  Inputs <- Given
  Absent = Absent
  Unknown = Unknown
  Host = Host
  None = None
INVARIANTS
  TypeOK
  CountsExact
  ProvidersFirst
  Verdict
  GraphFaithful
