CONSTANTS
  Procs = {p1, p2, p3}
  Crashable = {p1, p2}
  Recycled = {p2}
  FailingWrites = {p2}
  Ids = {i1, i2, i3, i4}
  None = None
  a1 = a1
  a2 = a2
  a3 = a3
  a4 = a4
  q1 = q1
  q2 = q2
  q3 = q3
  Allocs = {a1, a2, a3, a4}
  Contending = {{a1, a2, a3}, {a1, a3, a4}}
  Proc <- Processes
  Mortal = {q3}
  Unnoted = {a3}
  Nothing = Nothing
  Garbage = Garbage
SPECIFICATION EitherSpec
INVARIANTS ExclusionUnlessClobbered HolderIsReserved NoLeakedReservation
PROPERTIES OnlyOrphansAreReclaimed OrphanIsReclaimed
