SPECIFICATION FairSpec
CONSTANTS
  c1 = c1
  c2 = c2
  Call <- Slots
  Kind = {"info", "bulkGet", "bulkDocs", "changes", "attachment", "longpoll"}
  MaxRetries = 1
  MaxBatch = 2
  MaxCalls = 2
  MaxFaults = 1
  Rejections = {"none", "status", "preflight"}
  Windows = {}
CHECK_DEADLOCK FALSE
INVARIANTS
  WrittenOnce
  RejectionIsLearnt
PROPERTIES
  CancelStopsIt
  EveryCallEnds
