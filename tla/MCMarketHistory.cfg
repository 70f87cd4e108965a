SPECIFICATION HistorySpec
CONSTANTS
    First = 3
    Last = 4
    PartOf <- MCPartOf
    Legacy = {1}
    Actor = {"cycle", "status"}
    Does <- MCDoes
    Target = 3
    Few = 2
    Fresh = 1
    MaxCrashes = 1
    MaxFaults = 1
    MaxDamage = 1
INVARIANT PromisesKept
PROPERTIES HistoryHeals
