\* The roles of two nodes over two epochs.
SPECIFICATION Spec
CONSTANTS
    Genesis = 0
    SlotDuration = 2
    Heartbeat = 1
    SlotsPerEpoch = 5
    HandoverSlots = 2
    Nodes = {"a", "b"}
    HandoverBuffer = 1
    Grace = 4
    ForkTime = 10
    ForkTransition = 2
    MaxLag = 3
    MaxTime = 22
    Scenarios <- MCScenarios
INVARIANT OnlyInTurn
INVARIANT OnePreconfer
INVARIANT TurnIsTaken
PROPERTY EndIsTold
CHECK_DEADLOCK FALSE
