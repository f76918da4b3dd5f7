SPECIFICATION Spec
CONSTANTS
  Callers = {c1, c2}
  Frames = {3}
  ErrorLimits = {1, 2}
  BackOffs = {1, 2, 4}
  MaxBackOffs = {3}
  TIME_FRAME = 3
  MAX_ERRORS = 2
  BACK_OFF_TIME = 1
  MAX_BACK_OFF_TIME = 3
  PowersOfTwo = {1, 2, 4, 8}
  LastSecond = 6
CHECK_DEADLOCK FALSE

  
PROPERTIES
  BackOffMonotone
