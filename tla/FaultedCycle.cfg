CONSTANTS
    Committers = {p1}
    Epochs <- MCEpochs
    EpochLength = 1
    MaxCommitDelay = 0
    MaxTime = 5
    NoRoot = NoRoot
    Keys = {k1}
    NoKey = NoKey
    RotationGrace = 2
    Challenges = {c1}
    Phase <- MCPhase
    Provisioner = prov
    Challengers = {w1}
    TradeCount <- MCTradeCount
    TradePnl <- MCTradePnl
    ProfitTarget = 1
    ChallengeWindow = 1
    Tiers = {t1}
    WithdrawalWindow <- MCWithdrawalWindow
    MaxCoverageEpochs = 1
    MaxCycles = 1
    FreshNonces = TRUE
    Lies = {}
    CycleLies <- MCFirstLies
    MayOmit = {}
    OtherFills <- MCOtherFills
    OtherOwner = others
    MaxFills = 1
    SuppCounts = {}
    Holds = {}
    Skew = 1
    MintTimes <- MCMintTimes
    Rotations = {}
SPECIFICATION Spec
INVARIANT FaultLeavesAccountUsable
CHECK_DEADLOCK FALSE
