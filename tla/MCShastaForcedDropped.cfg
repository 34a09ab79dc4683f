\* A block after a forced inclusion that the driver refuses.
SPECIFICATION Spec
CONSTANTS
    MaxBlocks = 2
    MaxProposalFI = 1
    MaxHeight = 4
    MaxFI = 2
    MaxNonce = 4
    MaxReanchor = 3
    ProposeFI = TRUE
    Scenarios <- MCForcedDropped
INVARIANTS NoReorg
