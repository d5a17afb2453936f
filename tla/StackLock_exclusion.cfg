CONSTANTS
  Procs = {p1, p2, p3}
  Crashable = {p1}
  Recycled = {}
  FailingWrites = {}
  Ids = {i1, i2, i3, i4, i5}
  None = None
SPECIFICATION Spec
SYMMETRY Symmetry
INVARIANTS MutualExclusion
