CONSTANTS
  a = a
  b = b
  c = c
  Nodes = {a, b, c}
  Up <- Join
  Level <- JoinLevel
  Tasks = {}
  KeepAlive = {c}
  MayFail = {a}
  MayDie = {}
  MayFailLate = {}
  Commands <- SnapshotCommands
  MaxCommands = 2
  MaxGen = 3
  EarlyPhases = {}
  None = None
SPECIFICATION FairSpec
INVARIANTS ReadersFindValues
PROPERTIES HonestReply KeepAliveStays Answered ShutdownCompletes InitialAcquireEnds
CHECK_DEADLOCK FALSE
