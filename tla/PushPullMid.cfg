CONSTANTS
  d1 = d1
  d2 = d2
  Device <- MCDevice
  Self = d1
  Peer = d2
  Content = {c1, c2}
  None = None
  File = {f1}
  ServerErrors = {"chunk"}
  PeerCreates = FALSE
  VaultFails = TRUE
  MidCycle = {"pull"}
  MaxEdits = 2
  MaxPeerWrites = 1
  MaxWrites = 3
  MaxFailures = 1
SPECIFICATION FairSpec
CHECK_DEADLOCK FALSE
INVARIANT NoForgottenPush
PROPERTIES
  ServerMovesForward
  EventuallySettled
