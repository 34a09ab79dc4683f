SPECIFICATION FairSpec
CONSTANTS
    Payload = {p1, p2}
    MaxSend = 2
    MaxWait = 2
    MaxNonce = 2
    RpcSimulates = FALSE
INVARIANTS
    TypeOK
    SilentEndIsMined
    SafeToResubmit
    ErrorIsOfLatestTask
PROPERTIES
    ImplementsContract
    TaskEnds
