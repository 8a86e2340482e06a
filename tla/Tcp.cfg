CONSTANTS
  NumCPorts = 2
  MaxConn = 2
  PollMax = 3
  Senders = {s0}
  MaxIn = 1
  MaxOut = 1
  MaxFail = 1
SPECIFICATION FairSpec
INVARIANTS
  ListMatchesFiles
  RoutedUnlessTorn
PROPERTIES
  EachIsServed
CHECK_DEADLOCK FALSE
