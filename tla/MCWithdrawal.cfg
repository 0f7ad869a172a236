CONSTANTS
    Committers = {p1}
    Epochs <- MCEpochs
    EpochLength = 1
    MaxCommitDelay = 0
    MaxTime = 7
    NoRoot = NoRoot
    Keys = {k1}
    NoKey = NoKey
    RotationGrace = 2
    Challenges = {c1}
    Phase <- MCPhase
    Provisioner = prov
    Challengers = {w1}
    TradeCount <- MCTradeCount
    TradePnl <- MCTradePnl
    ProfitTarget = 1
    ChallengeWindow = 1
    Tiers = {t1}
    WithdrawalWindow <- MCWithdrawalWindow
    MaxCoverageEpochs = 3
    MaxCycles = 2
    FreshNonces = TRUE
    Lies = {}
    CycleLies <- MCLaterLies
    MayOmit = {}
    OtherFills <- MCOtherFills
    OtherOwner = others
    MaxFills = 1
    SuppCounts <- MCSuppCounts
    Holds = {}
    Skew = 1
    MintTimes <- MCMintTimes
    Rotations = {}
SPECIFICATION FairSpec
INVARIANTS
    CycleLieIsRefutable
    NoTradePaidTwice
    PaidWithinEarned
    ClaimsDoNotRace
    PayableOnlyAfterWindow
PROPERTIES
    WithdrawalIsOptimistic
    WithdrawalConcludes
CHECK_DEADLOCK FALSE
