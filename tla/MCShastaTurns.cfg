\* The epochs go round, with expired blocks and failing forced inclusions.
SPECIFICATION Spec
CONSTANTS
    MaxBlocks = 2
    MaxProposalFI = 1
    MaxHeight = 4
    MaxFI = 2
    MaxNonce = 4
    MaxReanchor = 3
    ProposeFI = TRUE
    Scenarios <- MCTurns
INVARIANTS NoReorg ProposalsMatchChain 
