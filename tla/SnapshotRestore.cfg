CONSTANTS
  Ids = {s1, s2}
  Containers = {c1, c2}
  Fresh = fresh
  None = none
  Empty = empty
  Litter = litter
  Bodies <- AllBodies
  MaxFaults = 2
  MaxWork = 1
  MaxKills = 1
  MaxRestores = 2
SPECIFICATION FairSpec
INVARIANTS StakeSurvives FailureRestores TornHasBreadcrumb
PROPERTIES RecoveryDiscardsNoWork ImplementsSwap TornIsRepaired
CHECK_DEADLOCK FALSE
