CONSTANTS
  GFBITS = 4
  Tap = 1
  InvChain <- ChainOf4
  SYS_T = 2
  ExtTaps <- Linear
  ExtConst <- Alpha3
  HalfBits = 2
  NarrowBits = 3
  Word = 10
  IndexShift = 4
  SYS_N = 12
  PK_NROWS = 8
  Expansion <- Table
  FirstSeeds <- First
  Draws <- AllDraws
  Received <- All
SPECIFICATION KemSpec
INVARIANTS KeysAgree RejectsInvalid SupportRestored SeedRegenerates KeyMaterialSound
CHECK_DEADLOCK FALSE
