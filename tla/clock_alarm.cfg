SPECIFICATION FairSpec
CONSTANTS
  HoursPerDay = 2
  MinutesPerHour = 2
  SlotCount = 2
  InitialTime <- Morning
  RemoteTimes <- TwoTimes
  Off = Off
  Unallocated = Unallocated
  Nowhere = Nowhere
  FullBrightness = 2
  MaxJump = 1
  MaxChanges = 3
  MaxLosses = 1
  MaxInFlight = 2
INVARIANTS SlotMatchesDisplay ArmedForItsTime SilentWhenStopped
PROPERTIES AgreesWithController SetAlarmRings
