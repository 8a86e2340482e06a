CONSTANTS
  Ops = {o0, o1}
  Resps = {r0, r1, r2}
  NoOp = NoOp
  Senders = {s0, s1}
  IdSpace = 8
  MaxFail = 0
  MaxLost = 0
  MayUnregister = FALSE
SPECIFICATION FairSpec
PROPERTIES
  CallsReturn
CHECK_DEADLOCK FALSE
