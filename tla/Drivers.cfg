CONSTANTS
  w0 = w0
  w1 = w1
  Workers = {w0, w1}
  NoId = NoId
  Drivers <- MCDriverNames
  Start <- MCStart
  Serving <- MCServing
  Errnos <- MCErrnos
  MaxRequests <- MCMaxRequests
  c0 = c0
  c1 = c1
  BundleCPorts = {c0, c1}
  Null = Null
  LifeDrivers <- MCLifeDrivers
  MaxLives = 2
  HidNodes = {h0, h1, h2}
  NoHidNode = NoHidNode
  Contexts = {"interrupt", "thread"}
  MaxReports = 4
  Nodes = {n0, n1, n2}
  NoNode = NoNode
  MaxChunks = 4
  MaxStatus = 2
  MaxFail = 1
  SpiRequests <- MCSpiRequests
  Cards <- MCCards
SPECIFICATION DriversSpec
INVARIANTS
  WrongIdNeedsRace
  AnswersAreTrue
  NothingHeld
  FaultNeedsCrowd
  OnlyLeakyLeak
  ReportsInOrder
  WantsAreHeard
  OnlyReportNodeLeaks
  OneOwner
  ChunksInOrder
  BreakNeedsRace
  StatusSettles
  LayoutsFit
PROPERTIES
  ExitReturns
CHECK_DEADLOCK FALSE
