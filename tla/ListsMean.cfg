SPECIFICATION AllSpec
CONSTANTS
  Keys <- MCKeys
  SkipKeys = {1, 2, 3, 4}
  HashKeyset <- MCHashKeyset
  HashOf <- MCHashOf
  ByteKeys <- MCByteKeys
  Vals = {1, 2}
  TreeVals <- MCTreeVals
  MaxSize = 7
  MaxHeight = 3
  Capacity = 8
  Room = 28
  Align = 2
  Slack = 1
  NBlocks = 2
  Blobs <- MCBlobs
  MaxBytes = 4
  MaxNodes = 3
  Messages <- MCMessages
  Ints <- MCInts
  MaxText = 6
CHECK_DEADLOCK FALSE
INVARIANT ListsMean
