CONSTANTS
  ADDR_WIDTH = 2
  STRB_WIDTH = 2
  LEN_WIDTH = 2
  Builds <- AllBuilds
  Masters <- AllMasters
  ReadRequests <- Reads
  WriteRequests <- Writes
  WriteBeats <- Beats
SPECIFICATION Spec
INVARIANTS ReadOrder ReadData WritesLand WriteAnswers
PROPERTY OutputsHeld
