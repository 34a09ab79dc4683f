SPECIFICATION Spec
CONSTANTS
    Payload = {p1}
    MaxSend = 2
    MaxWait = 1
    MaxNonce = 1
    RpcSimulates = FALSE
INVARIANT
    SilentEndIsExecuted
