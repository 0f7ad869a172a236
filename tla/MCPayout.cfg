CONSTANTS
    c1 = c1
    c2 = c2
    Settlement = settlement
    Challenges = {c1, c2}
    Cycles = {0}
    Claims <- MCClaims
    SolOwed <- MCSolOwed
    Quotes = {2}
    Spends = {2}
    Draws = {1, 2}
    Times = {1, 3, 5}
    Window = 1
    Hold = 2
    DischargeTimeout = 2
    ConcentrationBps = 5000
    Backings = {0, 8}
    CarveBps = 5000
    FeeBps = 5000
    RewardBps = 5000
    Dust = 0
    Divisor = 2
    DailyDrawCap = 2
    Starts <- MCStarts
    Credits = {1}
    MaxSol = 5
    MaxReward = 1
    MaxClaimBps = 5000
    AdvanceCapBps = 5000
    AdvanceDailyBps = 2500
    AdvanceFloor = 2
    Precision = 10
    Day = 2
    Cooldown <- MCCooldown
    OutflowCapBps = 7500
    N = 2
    Stakes = {1}
    Premiums = {1}
    Tiers = {0}
SPECIFICATION FairPayoutSpec
INVARIANTS
    PayoutTypeOK
    OpenPayoutsIsExact
    FloatCoversAdvances
PROPERTIES
    BackstopIsBacked
    ObligationsEnd
CHECK_DEADLOCK FALSE
