\* A failed proof while another batch is queued.
SPECIFICATION Spec
CONSTANTS
    MaxBlocks = 1
    MaxTimeShift = 2
    MaxSkipped = 0
    Txs = {10}
    MaxOps = 1
    MaxNonce = 3
    Scenarios <- MCProveScenarios
INVARIANT NoOrphanOp
CHECK_DEADLOCK FALSE
