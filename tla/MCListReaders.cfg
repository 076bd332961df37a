SPECIFICATION ReadersSpec
CONSTANTS
  e1 = e1
  e2 = e2
  e3 = e3
  e4 = e4
  head = head
  NULL = NULL
  POISON1 = POISON1
  POISON2 = POISON2
  Nothing = Nothing
  Order <- MCOrder
  PollOrder <- MCPollOrder
INVARIANTS BodyRunsOnceEach NoneSkipped
PROPERTIES LoopEnds YesIsFinal DeletionIsSeen
CHECK_DEADLOCK FALSE
