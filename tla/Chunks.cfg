CONSTANTS
  a = a
  b = b
  Device <- MCDevice
  Content = {c1}
  None = None
  File = {f1}
  Interrupts = {"phases", "remoteCheck"}
  MaxActs = 3
SPECIFICATION FairSpec
CHECK_DEADLOCK FALSE
INVARIANT Recoverable
PROPERTY EventuallySettled
