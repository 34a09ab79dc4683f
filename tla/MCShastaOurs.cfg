\* The node alone in its turn.
SPECIFICATION FairSpec
CONSTANTS
    MaxBlocks = 2
    MaxProposalFI = 1
    MaxHeight = 4
    MaxFI = 2
    MaxNonce = 4
    MaxReanchor = 3
    ProposeFI = TRUE
    Scenarios <- MCOurs
INVARIANTS ForcedInclusionsInOrder PendingIsOfJob
PROPERTIES PreconfirmedIsProposed
