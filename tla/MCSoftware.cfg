SPECIFICATION Spec
CONSTANTS
  Feeds = {0, 1, 2}
  Rests = {0, 3, 55, 56, 64}
  MaxFed = 2
  MessageSizes = {3, 56, 64}
  MaxMessages = 2
  Lanes <- MCLanes
  LaneBytes = 2
  Rate <- MCRate
  Domain <- MCDomain
  Digest <- MCDigest
  Names <- MCNames
  Lengths = {0, 1, 3, 5}
  MaxBytes = 9
  TinyKeys <- MCTinyKeys
  TinyIvs <- MCTinyIvs
  CallBytes = {5, 32}
  MaxTinyBytes = 37
  MaxStreams = 2
  SlicedKeys <- MCSlicedKeys
  Batches = {1, 4, 7}
  StreamLengths = {16, 64, 70}
  Leftovers <- MCLeftovers
  Programs <- MCPrograms
  Radix = 3
  Width = 2
  BlockBytes = 2
  Requests = {0, 1, 3, 7}
  Starts <- MCStarts
  MaxUpdates = 3
  MaxLengths = {4, 8}
INVARIANTS StreamsAgree DigestsUnaffected PrimitivesAgree UnitAgrees RandomOnce
CHECK_DEADLOCK FALSE
