CONSTANTS
    Level = {"near", "far"}
    Quantity = {0, 1, 2}
    MaxId = 3
    MaxBuffer = 2
    MaxAttempts = 2
    StreamRequired = TRUE
    Depth <- MCDepth
    Window = {{"near"}, {"near", "far"}}
SPECIFICATION FairSpec
PROPERTIES BookIsView PrimingEnds
