SPECIFICATION FairSpec
CONSTANTS
    a = a
    b = b
    v1 = v1
    v2 = v2
    v3 = v3
    NoRoot = NoRoot
    Roots = {a, b}
    Validators = {v1, v2, v3}
    Keys <- MCKeys
    Duties <- MCDuties
    Valid <- MCValid
    StartBlock = 1
    ForkDepth = 1
    BatchSize = 2
    MaxBlock = 4
    Genesis = 5
    SlotDuration = 2
    Heartbeat = 1
    SlotsPerEpoch = 4
    HandoverSlots = 1
    Scenarios <- MCScenarios
INVARIANTS
    IndexedIsTrue
    LookaheadIsOfEpoch
    
    EntriesAreOptedIn
PROPERTY
    MonitorCatchesUp
CHECK_DEADLOCK FALSE
