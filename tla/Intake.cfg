SPECIFICATION IntakeSpec
CONSTANTS
  Keys = {"sender"}
  Texts = {"x"}
  BufLen = 5
  Configs <- MCConfigs
  Width = 2
  Sections <- MCSections
  BadBits <- MCBadBits
  Requests <- MCRequests
  StrDicts <- MCStrDicts
  SpfDicts <- MCSpfDicts
  LowerCase <- MCLowerCase
  Inputs <- MCInputs
CHECK_DEADLOCK FALSE
INVARIANTS
  LinesRight
  DomainFits
  BuiltOnce
  ListKept
  
  TokenRight
