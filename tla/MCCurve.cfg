CONSTANTS
    FeeBps = 3400
    MinThreshold = 3
    MaxAmount = 12
    Graduation = TRUE
    Seeds <- MCSeeds
    Thresholds = {2, 4}
    Supplies <- MCSupplies
    Trades = {1, 2, 3}
    MinOuts = {0, 2}
SPECIFICATION CurveSpec
INVARIANTS
    CurveTypeOK
    CurveIsSolvent
    HoldersCanExit
PROPERTY
    ProductNeverFalls
CHECK_DEADLOCK FALSE
