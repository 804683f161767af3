SPECIFICATION LedgerSpec
CONSTANTS
    o1 = o1
    o2 = o2
    o3 = o3
    o4 = o4
    OrderIds = {o1, o2, o3, o4}
    Prices <- MCPrices
    Quantities = {0, 1, 2}
    BandPercent = 10
    NoPrice = NoPrice
    NoOrder = NoOrder
    MaxTimestamp = 7
SYMMETRY MCSymmetry
INVARIANTS Conservation IndexMirrorsBook
PROPERTIES ClosedStaysClosed
