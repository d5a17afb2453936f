CONSTANTS
  p = p
  q = q
  r = r
  Procs = {p, q, r}
  Crashable = {p, q}
  Twins <- OnePidReused
  FailingIO = {q}
  None = None
  c1 = c1
  c2 = c2
  c3 = c3
  c4 = c4
  o1 = o1
  o2 = o2
  Calls = {c1, c2, c3, c4}
  Owner <- Owners
  Preempted = {c4}
  Nobody = Nobody
  m1 = m1
  m2 = m2
  m3 = m3
  r1 = r1
  r2 = r2
  r3 = r3
  r4 = r4
  Members = {m1, m2, m3}
  Ids = {r1, r2, r3, r4}
  NoRoot = NoRoot
SPECIFICATION PartSpec
INVARIANTS NoResurrection LevelsAreTight CycleIsReported SliceIsDownstream
PROPERTIES OnlyTheDeadAreEvicted ImplementsSingleSupervisor EntryIsRemoved
  ImplementsFifoQueue EveryWaiterIsServed
CHECK_DEADLOCK FALSE
