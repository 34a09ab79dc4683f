SPECIFICATION FairSpec
CONSTANTS
    MaxIter = 3
    WatchdogMax = 1
    MaxPerPoll = 1
    QueueSize = 2
    MaxReorgs = 2
    ProposalBlocks = 2
    Scenarios <- MCScenarios
INVARIANTS
    OneCommitment
    
    ReorgsAreReal
    EventsInOrder
PROPERTIES
    TasksEnd
    DeadNodeIsReplaced
CHECK_DEADLOCK FALSE
