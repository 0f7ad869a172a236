CONSTANTS
    Committers = {p1}
    Epochs <- MCEpochs
    EpochLength = 1
    MaxCommitDelay = 0
    MaxTime = 6
    NoRoot = NoRoot
    Keys = {k1}
    NoKey = NoKey
    RotationGrace = 2
    Challenges = {c1}
    Phase <- MCPhase
    Provisioner = prov
    Challengers = {w1}
    TradeCount <- MCTradeCount
    TradePnl <- MCTradePnl
    ProfitTarget = 1
    ChallengeWindow = 1
    Tiers = {t1}
    WithdrawalWindow <- MCWithdrawalWindow
    MaxCoverageEpochs = 0
    MaxCycles = 0
    FreshNonces = TRUE
    Lies = {"Result"}
    CycleLies <- MCCycleLies
    MayOmit = {}
    OtherFills <- MCOtherFills
    OtherOwner = others
    MaxFills = 0
    SuppCounts = {}
    Holds = {}
    Skew = 1
    MintTimes <- MCMintTimes
    Rotations = {}
    TradingPeriod <- MCTradingPeriod
    GraceWindow = 1
    ResolutionWindow = 1
    UnlimitedCap = 1
    MinStake = 2
    Rent = 1
    LegacyCap = 2
    FundedSizes = {3}
    Amounts = {1, 2}
    Insurance = 1
    PoolBalance = 3
    DailyDrawCap = 2
    Day = 1
    Divisor = 2
    Deposits = {2}
    MaxLamports = 3
    DisputeKinds = {"TradeInclusion", "UnsettledTimeout"}
SPECIFICATION FairSystemSpec
INVARIANTS
    DisputeTypeOK
    StakeIsBacked
    EachSlashHasItsCause
    TimeoutWaited
    PayoutWithinFundedSize
PROPERTIES
    VerdictStands
    NoTimeoutPaymentOnceSettled
    PoolDrawIsCapped
    DisputesConclude
CHECK_DEADLOCK FALSE
