CONSTANTS
  HeaderSize = 2
  MaxPayload = 2
  Pad = 2
  Senders = {s0, s1}
  MaxOut = 2
  MaxIn = 3
  Window = 2
SPECIFICATION FairSpec
INVARIANTS
  InOrder
  FramedUnlessOverlapped
PROPERTIES
  EachIsDelivered
CHECK_DEADLOCK FALSE
