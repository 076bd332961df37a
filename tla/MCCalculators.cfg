SPECIFICATION CalculatorsSpec
CONSTANTS
  Numbers = {0, 7}
  Operators = {"+", "-", "*", "/"}
  DeepNumbers = {7}
  DeepOperators = {"-", "*"}
  MaxTokens = 7
  SpacedTokens = 5
  DeepTokens = 9
  PostfixTokens = 5
  PostfixSpacedTokens = 3
  PostfixDeepTokens = 7
  Inputs <- MCInputs
  MaxCalls = 2
INVARIANTS OperandsBalance NeverDropped ParensMatch StaysInBlock CallsLeaveNothing
PROPERTY ImplementsCalculator
