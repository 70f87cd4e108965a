SPECIFICATION FairSpec
CONSTANTS
    Chunk <- TwoChunks
    Transports <- AllTransports
    MaxChain = 3
INVARIANTS MarketStreamsStayClosed KeepAliveHasSession
PROPERTIES UserComesBack
CHECK_DEADLOCK FALSE
