CONSTANTS
  c1 = c1
  c2 = c2
  Device <- MCDevice
  Content = {c1, c2}
  None = None
  Self = "self"
  Peer = "peer"
  Interrupts = {"delete", "check", "vault", "docs", "dialog"}
  MaxEdits = 2
  MaxPeerWrites = 1
  MaxFailures = 0
SPECIFICATION Spec
CHECK_DEADLOCK FALSE
SYMMETRY MCSymmetry
INVARIANTS
  TypeOK
  NoLostEdit
PROPERTIES
  NoUndoneDeletion
  RecordsOnlyOverSeen
  NoBlindTombstone
