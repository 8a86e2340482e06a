CONSTANTS
  Ops = {o0, o1, o2}
  Resps = {r0, r1, r2}
  NoOp = NoOp
  Senders = {s0, s1}
  IdSpace = 3
  MaxFail = 1
  MaxLost = 0
  MayUnregister = TRUE
SPECIFICATION Spec
INVARIANTS
  RefsAreHolders
  WalksAreSafe
  CallbackOnce
  WrongAnswerNeedsWrap
CHECK_DEADLOCK FALSE
SYMMETRY Symmetric
