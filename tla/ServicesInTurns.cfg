SPECIFICATION ServicesSpec
CONSTANTS
    None = None
    Blocks <- DeepBlocks
    heightOf <- DeepHeightOf
    ancestor <- DeepAncestor
    quorumsIn <- DeepQuorumsIn
    txsIn <- DeepTxsIn
    penaltyOf <- DecayingPenaltyOf
    slotOf <- FirstRoundOf
    enabledAt <- BanWave
    MaxHeight = 4
    Txs = {"t"}
    Boundaries = {2}
    Masternodes = {"m"}
    BatchSize = 3
    ProgressEvery = 2
    MaxRollbackDepth = 2
    DiffBatch = 2
    Quorums = {"q0"}
    Slots = {0}
    DkgInterval = 6
    WindowEnd = 4
    ActiveCount = 2
    FormationGate = 0
    FormationEnd = 100
    MinSize = 2
    Snapshots = {0}
INVARIANT ServicesTypeOK
INVARIANT NoHolesBelowCursor
INVARIANT LinkedIndex
INVARIANT DerivedRowsMatch
INVARIANT RewindsToForkPoint
INVARIANT EventsAreTheChains
INVARIANT FormedOnChain
PROPERTY AutomaticRewindIsShallow
PROPERTY CatchesUpOrSays
PROPERTY FollowersCatchUp
