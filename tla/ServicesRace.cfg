SPECIFICATION RacingSpec
CONSTANTS
    None = None
    Blocks <- LineBlocks
    heightOf <- LineHeightOf
    ancestor <- LineAncestor
    quorumsIn <- LineQuorumsIn
    txsIn <- NothingIn
    penaltyOf <- DecayingPenaltyOf
    slotOf <- RoundOf
    enabledAt <- BanWave
    MaxHeight = 4
    Txs = {}
    Boundaries = {}
    Masternodes = {"m"}
    BatchSize = 3
    ProgressEvery = 2
    MaxRollbackDepth = 2
    DiffBatch = 2
    Quorums = {"q0", "q3"}
    Slots = {0, 3}
    DkgInterval = 3
    WindowEnd = 1
    ActiveCount = 1
    FormationGate = 0
    FormationEnd = 100
    MinSize = 2
    Snapshots = {0}
INVARIANT EventsAreFacts
INVARIANT VerdictsAreFacts
PROPERTY NothingLostWithoutFork
