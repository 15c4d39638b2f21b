SPECIFICATION FairSpec
CONSTANTS
  Order <- Bathroom
  Child <- LightsChild
  Always = {"motion"}
  Forced = {}
  Debounced = {"door"}
  Values = {0, 1}
  Unknown = Unknown
  FirstValue <- BathroomFirst
  ForceUpdate = 1
  Interval = 1
  Retries = 0
  RegisteredByDefault = TRUE
  Answers = {TRUE}
  FirstReadings <- LightOn
  MaxChanges = 0
  MaxLosses = 0
  MaxInFlight = 1
  MaxAsked = 0
  MaxResets = 0
PROPERTIES ReportedInTheEnd
