CONSTANTS
  Capacity = 3
  Faults = 1
  Hints = 1
  UnderrunLimit = 1
  DeviceMin = 1
  EmulatorMin = 2
  BoostStep = 1
  BoostMax = 1
  Rates = {1}
  AvRates = {2}
  Latencies = {2}
  Loads = 2
  Requests = 1
SPECIFICATION LiveSpec
INVARIANTS QuietWhenHeld ArmedWhenStarted CallbackSeesLivePlayer RateAgrees
PROPERTIES BufferingEnds
CHECK_DEADLOCK FALSE
