CONSTANTS
  S_COUNT = 2
  M_COUNT = 2
  ADDR_WIDTH = 3
  LEN_WIDTH = 2
  M_ADDR_WIDTH <- TwoSlaves
  ReadRequests <- Reads
  WriteRequests <- Writes
SPECIFICATION Spec
INVARIANTS ReadsInOrder WritesInOrder WriteAnswered OneBurst
PROPERTIES RequestsTaken RequestsAnswered
