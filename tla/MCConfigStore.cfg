CONSTANTS
  Procs = {p1, p2, p3}
  Keys = {"a", "b"}
  Values = {1}
  NoValue = NoValue
  Keep = Keep
  Ops <- RunOps
SYMMETRY Symmetry
SPECIFICATION Spec
INVARIANTS
  LoneWriteIsAtomic
PROPERTIES
  WriteIsStored
