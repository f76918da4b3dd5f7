\* Does a stage whose dependencies failed go unevaluated?
SPECIFICATION Spec
CONSTANTS
  a = a
  b = b
  c = c
  Dicts = {a, b, c}
  Async = {b, c}
  Silent = {c}
  Points = {0, 1}
  Contexts <- MCContexts
  MaxRequests = 1
CHECK_DEADLOCK FALSE
INVARIANT
  StageSkipped
