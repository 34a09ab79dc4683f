\* Restarts, forced inclusions that fall due, transactions that fail, refused blocks.
SPECIFICATION Spec
CONSTANTS
    MaxBlocks = 2
    MaxProposalFI = 1
    MaxHeight = 4
    MaxFI = 2
    MaxNonce = 4
    MaxReanchor = 3
    ProposeFI = TRUE
    Scenarios <- MCFailures
INVARIANTS  ProposalsMatchChain ForcedInclusionsInOrder  ConfirmedIsExecuted
