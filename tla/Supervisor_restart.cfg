CONSTANTS
  a = a
  b = b
  c = c
  Nodes = {a, b, c}
  Up <- Chain
  Level <- ChainLevel
  Tasks = {c}
  KeepAlive = {}
  MayFail = {a}
  MayDie = {}
  MayFailLate = {}
  Commands <- RestartCommands
  MaxCommands = 2
  MaxGen = 3
  EarlyPhases = {"register"}
  None = None
SPECIFICATION Spec
INVARIANTS ClosedBeforeReset UpstreamsOutlive FreshAtRest ShutdownDrains
PROPERTIES OneStartPerEntry
CHECK_DEADLOCK FALSE
