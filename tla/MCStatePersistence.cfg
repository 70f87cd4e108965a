SPECIFICATION Spec
CONSTANTS
    Trade <- OneTrade
    MaxAcks = 1
    MaxCrashes = 2
    MaxFailures = 1
INVARIANT NeverBookedAndOpen
PROPERTIES StoreKept EverySaveSettles
CHECK_DEADLOCK FALSE
