SPECIFICATION Spec
CONSTANTS
    btc = btc
    eth = eth
    sol = sol
    Symbol = {btc, eth, sol}
    Price = {4, 8}
    QuoteAmount = {8, 16}
    StartingCash = 24
    FeePercent = 25
    MinQty = 1
    MinNotional = 8
    TrailOffset = 2
    MaxOpenPositions = 2
    MaxFills = 4
SYMMETRY Symmetry
CHECK_DEADLOCK FALSE
INVARIANTS
    WithinMaxOpenPositions
PROPERTIES
    AccountKept
    StopNeverLoosens
