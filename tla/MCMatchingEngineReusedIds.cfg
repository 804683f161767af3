SPECIFICATION Spec
CONSTANTS
    o1 = o1
    o2 = o2
    OrderIds = {o1, o2}
    Prices <- MCPrices
    Quantities = {1, 2}
    BandPercent = 10
    NoPrice = NoPrice
    NoOrder = NoOrder
    MaxTimestamp = 5
INVARIANTS EveryRestingOrderIndexed
