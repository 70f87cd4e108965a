SPECIFICATION Spec
CONSTANTS
    Lot = 2
    ListId <- TwoLists
    Attempts = 2
    MaxCrashes = 1
    RecoverChoices <- Both
INVARIANTS ManagedIsLinked NoDoubleEntry QuantityAgrees IntentsSettle NoSilentExposure
PROPERTY ClosedOnlyWhenFlat
