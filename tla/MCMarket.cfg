CONSTANTS
    Precision = 10
    Day = 4
    Cooldown <- MCCooldown
    OutflowCapBps = 7500
    N = 3
    Stakers = {1, 3}
    Wallets <- MCWallets
    Stakes = {1, 2}
    Trades = {2}
    Tiers = {0}
    Times = {1, 4}
    MaxRoundings = 2
    Trader = 1
    Users = {1, 2}
    Seeds <- MCSeeds
    FeeRates <- MCFeeRates
    MinOuts = {0, 2}
    Gifts = {2}
    MaxFunded = 2
    MaxAcc = 20
SPECIFICATION MarketSpec
INVARIANTS
    MarketTypeOK
    MarketIsSolvent
    TraderStaysNeutral
    PoolEscrowIsAccounted
    YieldIsBacked
CHECK_DEADLOCK FALSE
