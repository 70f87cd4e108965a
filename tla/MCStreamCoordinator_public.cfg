SPECIFICATION FairSpec
CONSTANTS
    Chunk <- TwoChunks
    Transports <- NoPrivate
    MaxChain = 3
PROPERTY PublicComesBack
CHECK_DEADLOCK FALSE
