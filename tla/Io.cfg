\* A ring of four bytes; an output queue of two answers for three requests;
\* redis rings that hold a bulk of five words or two answers.
CONSTANTS
  ByteSize = 4
  Blank = Blank
  HeadSize = 2
  BodySizes = {0, 1, 3}
  MaxMessages = 3
  Size = 16
  Sep = Sep
  MaxTokens = 4
  MaxCommands = 3
  Workers = {w1}
  Io = io
  Asks <- AsksOfNumber
  Slots = 2
  MaxRequests = 3
  Nothing = Nothing
SPECIFICATION AllSpec
INVARIANTS BytesExact AnswersExact RedisExact
PROPERTIES FramesArrive Answered
CHECK_DEADLOCK FALSE
