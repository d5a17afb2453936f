CONSTANTS
  Pages = {p1}
  Burns = {b1}
  Cases <- FarRoutes
  Mishaps = 1
  None = None
  Gone = Gone
SPECIFICATION FairSpec
PROPERTIES FoundBurnIsFollowed
CHECK_DEADLOCK FALSE
