SPECIFICATION FairSpec
CONSTANTS
    o1 = o1
    o2 = o2
    OrderIds = {o1, o2}
    Prices <- MCPrices
    Quantities = {0, 1, 2}
    BandPercent = 10
    NoPrice = NoPrice
    NoOrder = NoOrder
    MaxTimestamp = 5
INVARIANTS TypeOK NoCrossedBook LevelsInTimeOrder IndexSound LastPriceAccepted
PROPERTIES PriceTimePriority ImplementsMarket SubmitReturns
