CONSTANTS
  Ids = {s1, s2}
  Containers = {c1, c2}
  Fresh = fresh
  None = none
  Empty = empty
  Litter = litter
  Bodies <- AllBodies
  MaxFaults = 0
  MaxWork = 1
  MaxKills = 1
  MaxRestores = 2
SPECIFICATION FairSpec
PROPERTIES RecoveryIsRepeatable
CHECK_DEADLOCK FALSE
