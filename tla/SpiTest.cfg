CONSTANTS
  SpiRequests <- MCTestRequest
  Cards <- MCOneCard
SPECIFICATION TransfersSpec
INVARIANTS
  TransferAsAsked
CHECK_DEADLOCK FALSE
