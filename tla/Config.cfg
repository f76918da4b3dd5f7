SPECIFICATION ConfigFair
CONSTANTS
  Ids = {1, 2, 3, 4, 5, 6, 7, 8, 9}
  Lower <- MCLower
  Schema <- MCSchema
  Words <- MCWords
  Blocks = 1
  MaxTokens = 8
  CallTokens = 5
  MaxCalls = 1
CHECK_DEADLOCK FALSE
INVARIANTS
  Whole
  AsWritten
  Accepted
  
PROPERTIES
  LoadEnds
