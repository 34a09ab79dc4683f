SPECIFICATION Spec
CONSTANTS
    MaxHeight = 5
    MaxProposal = 3
    Scenarios <- MCScenarios
INVARIANTS FoundIsLast FoundIsProposed
CHECK_DEADLOCK FALSE
