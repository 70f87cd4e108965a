SPECIFICATION FairMakerSpec
CONSTANTS
    Lot = 2
    OrderId <- ThreeOrders
    Attempts = 2
    MaxEntries = 2
    MaxFaults = 2
    MaxCrashes = 1
INVARIANTS NeverOverclaims CompletedEntryIsOver EntryWaitsForOrders
PROPERTIES NothingStaysUnseen AmbiguityLifts
