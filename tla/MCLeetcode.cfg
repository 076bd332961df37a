SPECIFICATION LeetcodeSpec
CONSTANTS
  MaxNodes = 7
  NULL = NULL
  IntMax = 15
  Milli = 3
  Second = 2
  Ks = {0, 1, 3, 5}
  Seconds = {4, 5, 6}
  Strings <- MCStrings
  Texts <- MCTexts
  Arrays <- MCArrays
INVARIANTS GroupsInOrder AnswersAreRight
PROPERTIES AnswersReversed Terminates
CHECK_DEADLOCK FALSE
