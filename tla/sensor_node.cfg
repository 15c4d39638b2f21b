SPECIFICATION FairSpec
CONSTANTS
  Order <- DoorAndTemperature
  Child <- OwnChild
  Always = {}
  Forced = {"temperature"}
  Debounced = {"door"}
  Values = {0, 1}
  Unknown = Unknown
  FirstValue <- FirstReported
  ForceUpdate = 1
  Interval = 1
  Retries = 1
  RegisteredByDefault = TRUE
  Answers = {TRUE, FALSE}
  FirstReadings <- AllZero
  MaxChanges = 2
  MaxLosses = 1
  MaxInFlight = 2
  MaxAsked = 1
  MaxResets = 1
INVARIANTS RunsPresented
PROPERTIES StartEnds ReportedInTheEnd RepeatedReportsRepair
