CONSTANTS
  p1 = p1
  p2 = p2
  p3 = p3
  u1 = u1
  u2 = u2
  Publishers = {p1, p2, p3}
  Captures = {p2}
  Mortal = {p1}
  Hasty = {p3}
  Ups = {u1, u2}
  None = None
  MaxTroubles = 1
SPECIFICATION CastSpec
INVARIANTS ReplyIsNotMissed
PROPERTIES ImplementsRequestReply EveryCommandIsAnswered
CHECK_DEADLOCK FALSE
