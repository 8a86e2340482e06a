CONSTANTS
  Ops = {o0, o1}
  Resps = {r0, r1}
  NoOp = NoOp
  Senders = {s0, s1}
  IdSpace = 8
  MaxFail = 0
  MaxLost = 1
  MayUnregister = FALSE
SPECIFICATION FairSpec
PROPERTIES
  RequestsTimeOut
CHECK_DEADLOCK FALSE
