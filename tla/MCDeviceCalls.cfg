SPECIFICATION CallsSpec
CONSTANTS
  MaxCalls = 3
  MaxPushed = 2
  Mimes <- SomeMimes
  MaxSize = 1
  Buffer = 1
INVARIANTS CallsTypeOK FailuresSurface ErrorsAreRecent UnplugMaskedOnce MediaArriveAsSuch
PROPERTIES WholeFileSent
CHECK_DEADLOCK FALSE
