\* The realtime node under every kind of failure.
SPECIFICATION FairSpec
CONSTANTS
    MaxBlocks = 2
    MaxTimeShift = 2
    MaxSkipped = 0
    Txs = {10}
    MaxOps = 1
    MaxNonce = 3
    Scenarios <- MCScenarios
 
 
 
INVARIANT BatchesVerify
 
PROPERTY SubmittedIsSettled
CHECK_DEADLOCK FALSE
