SPECIFICATION FairSpec
CONSTANTS
  Pieces <- MCPieces
  BufferSize = 10
  MinObject = 7
  MaxPieces = 3
  MaxBurst = 2
 
PROPERTIES InputIsConsumed
CHECK_DEADLOCK FALSE
