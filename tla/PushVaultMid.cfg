CONSTANTS
  d1 = d1
  d2 = d2
  Device <- MCDevice
  Self = d1
  Peer = d2
  Content = {c1, c2}
  None = None
  File = {f1}
  ServerErrors = {}
  PeerCreates = TRUE
  VaultFails = TRUE
  MidCycle = {"vault"}
  MaxEdits = 2
  MaxPeerWrites = 2
  MaxWrites = 3
  MaxFailures = 1
SPECIFICATION Spec
CHECK_DEADLOCK FALSE
SYMMETRY MCSymmetry
INVARIANTS
  PushInv
  ChunksFirst
  NoSilentDivergence
