\* Two requests, four configurations, fair scheduling.
SPECIFICATION FairSpec
CONSTANTS
  a = a
  b = b
  c = c
  Dicts = {a, b, c}
  Async = {b, c}
  Silent = {c}
  Points = {0, 1}
  Contexts <- MCContexts
  MaxRequests = 2
\* the bound on requests and a panic stop the system
CHECK_DEADLOCK FALSE
INVARIANTS
  WaitedMeansDone
  CleanBetween
  DictsFit
  CountedRight
  PanicOnlyUnanswered
  ScoreIsSum
PROPERTIES
  AnswersStand
  
