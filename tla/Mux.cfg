CONSTANTS
  Senders = {s0, s1}
  BodyWords = 2
  MaxLen = 1
  MaxOut = 2
  MaxIn = 2
  MaxConn = 2
  MaxFail = 1
SPECIFICATION FairSpec
INVARIANTS
  FramedUnlessDisturbed
  InboundInOrder
CHECK_DEADLOCK FALSE
PROPERTIES
  CloseIsNoticed
