SPECIFICATION OverlapSpec
CONSTANTS
    None = None
    Blocks <- OvertakenBlocks
    heightOf <- OvertakenHeightOf
    ancestor <- OvertakenAncestor
    quorumsIn <- NothingIn
    txsIn <- NothingIn
    penaltyOf <- DecayingPenaltyOf
    slotOf <- FirstRoundOf
    enabledAt <- BanWave
    MaxHeight = 4
    Quorums = {}
    Txs = {}
    Boundaries = {}
    Slots = {0}
    Masternodes = {"m"}
    BatchSize = 3
    ProgressEvery = 2
    MaxRollbackDepth = 2
    DiffBatch = 2
    DkgInterval = 6
    WindowEnd = 4
    ActiveCount = 2
    FormationGate = 0
    FormationEnd = 100
    MinSize = 2
    Snapshots = {0}
INVARIANT NoEventLost
