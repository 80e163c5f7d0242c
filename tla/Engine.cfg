CONSTANTS
  None = None
  MaxSessions = 2
  Mobile = TRUE
  LocalFailures = {"degraded"}
  MaxEvents = 1
  MaxFailures = 2
SPECIFICATION FairSpec
CHECK_DEADLOCK FALSE
INVARIANT EngineInv QuietWhenUp NoLostWakeup
PROPERTY IsLiveSession RecoversByItself
