SPECIFICATION FairSpec
CONSTANTS
    Device = {d1, d2}
    Unrecorded = {d2}
    None = None
    MaxVaults = 3
    MaxEvents = 3
    MaxFailures = 1
    MaxFeed = 6
    Encryptions = {TRUE, FALSE}
    Windows = {}
INVARIANTS BindingInv KeyOfRoot PlannedReloadsWait
PROPERTY ReplacementNoticed
CHECK_DEADLOCK FALSE
