CONSTANTS
    Committers = {p1, p2}
    Epochs <- MCEpochs
    EpochLength = 1
    MaxCommitDelay = 1
    MaxTime = 6
    NoRoot = NoRoot
    Keys = {k1, k2}
    NoKey = NoKey
    RotationGrace = 2
    Challenges = {c1}
    Phase <- MCPhase
    Provisioner = prov
    Challengers = {w1}
    TradeCount <- MCTradeCount
    TradePnl <- MCTradePnl
    ProfitTarget = 1
    ChallengeWindow = 2
    Tiers = {t1}
    WithdrawalWindow <- MCWithdrawalWindow
    MaxCoverageEpochs = 2
    MaxCycles = 0
    FreshNonces = TRUE
    Lies <- MCLies
    CycleLies <- MCCycleLies
    MayOmit = {}
    OtherFills <- MCOtherFills
    OtherOwner = others
    MaxFills = 2
    SuppCounts <- MCSuppCounts
    Holds = {"Advisory"}
    Skew = 1
    MintTimes <- MCMintTimes
    Rotations = {1}
SPECIFICATION FairSpec
INVARIANTS
    TypeOK
    CoverageIsBound
    StepsAreDistinctOwnFills
    SupplementalFillsAreAbsentFromRoot
    LieIsRefutable
PROPERTIES
    EvidenceSettles
    SettlementIsOptimistic
    RotationKeepsCurrentBound
    SettlementConcludes
CHECK_DEADLOCK FALSE
