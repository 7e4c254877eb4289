SPECIFICATION LiveSpec
CONSTANTS
    None = None
    Blocks <- TwinBlocks
    heightOf <- TwinHeightOf
    ancestor <- TwinAncestor
    quorumsIn <- NothingIn
    txsIn <- NothingIn
    MaxHeight = 3
    Quorums = {}
    Txs = {}
    Boundaries = {}
    Slots = {}
    Masternodes = {}
    penaltyOf <- NoPenaltyOf
    BatchSize = 3
    ProgressEvery = 2
    MaxRollbackDepth = 2
PROPERTY CatchesUpOrSays
