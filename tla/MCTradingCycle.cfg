SPECIFICATION Spec
CONSTANTS
    btc = btc
    eth = eth
    Symbols = {btc, eth}
    Trouble <- TroubleByRule
    positionFailureProtectOnlyCount = 1
    positionFailureManualReviewCount = 2
    healthMaxConsecutiveFailures = 2
    exchangeTruthFreezeMismatchCount = 2
    MaxFaults = 2
    MaxVisits = 1
INVARIANTS
    EntriesNeedACleanBook
    TradesBookedOnce
    
PROPERTIES
    DegradationsHold
    FreezeLifts
