CONSTANTS
  Nodes = {n0, n1, n2}
  NoNode = NoNode
  MaxChunks = 4
  MaxStatus = 0
  MaxFail = 0
SPECIFICATION Spec
INVARIANTS
  PassesFreeBuffer
CHECK_DEADLOCK FALSE
