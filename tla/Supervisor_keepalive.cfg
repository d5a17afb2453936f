CONSTANTS
  a = a
  b = b
  c = c
  Nodes = {a, b, c}
  Up <- Chain
  Level <- ChainLevel
  Tasks = {}
  KeepAlive = {b}
  MayFail = {}
  MayDie = {}
  MayFailLate = {}
  Commands <- RestoreCommands
  MaxCommands = 1
  MaxGen = 2
  EarlyPhases = {}
  None = None
SPECIFICATION Spec
PROPERTIES KeepAliveStays
CHECK_DEADLOCK FALSE
