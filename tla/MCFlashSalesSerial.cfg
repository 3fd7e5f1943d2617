SPECIFICATION FairSpec
CONSTANTS
    Sales = {s1, s2, s3}
    Workers = {w1}
    BasePrice = 2
    Prices = {1, 2}
    NewPrices = {}
    Quantities <- OneOrLess
    InitialStock = 2
    MaxImport = 0
    MaxOrdered = 2
    MaxTime = 3
    MinLength = 1
    MaxRestarts = 0
    Interleaved = FALSE
    None = None
INVARIANTS StockBooks PriceRestored
CHECK_DEADLOCK FALSE
PROPERTIES FlashSaleEnds
