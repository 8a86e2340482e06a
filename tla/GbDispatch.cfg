CONSTANTS
  Watched = c0
  CPorts = {c0, c1}
  RxThreads = {t0, t1}
  MaxMsgs = 2
  MaxRegister = 2
  MaxUnregister = 1
SPECIFICATION FairSpec
INVARIANTS
  TypeOK
  TokensMatchQueue
  InOrder
  DrainedBeforeExit
  HandlerWhileInited
  NullDriverNeedsUnregister
PROPERTIES
  UnregisterReturns
  ImplementsMailbox
CHECK_DEADLOCK FALSE
