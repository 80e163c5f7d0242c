CONSTANTS
  Device = {d1, d2}
  Content = {c1, c2}
  None = None
  Count <- MCCount
SPECIFICATION LawsSpec
INVARIANTS
  PullIsSymmetric
  PushAgreesWithPull
  DecisionsTakeEffect
  RefusalsAreTakenUp
