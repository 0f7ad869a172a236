CONSTANTS
    Cycles = {0, 1}
    DischargeTimeout = 2
SPECIFICATION FairWindDown
PROPERTY WindDownConcludes
