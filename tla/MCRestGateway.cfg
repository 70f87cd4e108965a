SPECIFICATION Spec
CONSTANTS
    Order = {"order"}
    Guarded = {"trades"}
    Futures = {"read1", "read2"}
    maxRetries = 2
    MaxBan = 2
    MaxFaults = 2
PROPERTIES
    RequestsKept
    BanIsHeeded
    BanOutlastsAnswers
    RequestsEnd
CHECK_DEADLOCK FALSE
