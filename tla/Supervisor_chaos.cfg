CONSTANTS
  a = a
  b = b
  c = c
  Nodes = {a, b}
  Up <- Pair
  Level <- PairLevel
  Tasks = {}
  KeepAlive = {}
  MayFail = {a}
  MayDie = {b}
  MayFailLate = {b, None}
  Commands <- ChaosCommands
  MaxCommands = 2
  MaxGen = 3
  EarlyPhases = {"fork", "register"}
  None = None
SPECIFICATION Spec
INVARIANTS ReadyIsReadable
CHECK_DEADLOCK FALSE
