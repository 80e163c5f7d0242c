SPECIFICATION FairSpec
CONSTANTS
    p = p
    q = q
    pState = "crossed"
    qState = "behind"
    DB = {A, B}
    Home = A
    Path <- MCPath
    Keyed = {p}
    Stoppable = {q}
    Key = {k, l}
    Whole = w
    Value = {x, y}
    Missing = Missing
    NoFile = NoFile
    None = None
    Legacy <- MCLegacy
    MaxRoots = 2
    MaxActs = 2
    MaxFailures = 1
INVARIANT ConfigInv
PROPERTIES EventuallyShared PushSendsOwn PullKeepsOwn
CHECK_DEADLOCK FALSE
