SPECIFICATION MCFairSpec
CONSTANTS
  MaxClients = 2
  MaxLength = 4
  Duration = 1
  Lengths = {1, 2, 3, 5}
  MaxConnections = 3
  MaxClosed = 1
  MaxLines = 2
INVARIANTS LinesNotMixed EachLineOnce ToldCurrentMode
PROPERTIES LinesHandled InclusionEndsOnTime
