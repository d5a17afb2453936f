CONSTANTS
  Pages = {p1, p2}
  Burns = {b1, b2}
  Cases <- Routes
  Mishaps = 1
  None = None
  Gone = Gone
SPECIFICATION FairSpec
INVARIANTS BurnsOnce BurnIsKept CompleteIsSpent UnattendedNeverPrompts
PROPERTIES BurnIsPursued
CHECK_DEADLOCK FALSE
