CONSTANTS
  FrameSizes = {1}
  WindowSizes = {1}
  InitLimit = 2
  SurfaceLimit = 2
  StreakLimit = 2
  FailureLimit = 2
  AttemptLimit = 3
  RetryLimit = 0
  Sessions <- MCSessions
SPECIFICATION HwSpec
INVARIANTS ConfiguredForMode RecoveryBounded OneProducer
PROPERTIES KeepsSoftware SoftwarePictureReturns
CHECK_DEADLOCK FALSE
