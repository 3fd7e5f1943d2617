SPECIFICATION Spec
CONSTANTS
    Sales = {s1, s2}
    Workers = {w1, w2}
    BasePrice = 2
    Prices = {1}
    NewPrices = {0}
    Quantities <- OneOrLess
    InitialStock = 1
    MaxImport = 1
    MaxOrdered = 1
    MaxTime = 1
    MinLength = 1
    MaxRestarts = 1
    Interleaved = TRUE
    None = None
SYMMETRY FlashSaleSymmetry
INVARIANTS NeverOversold NeverDearer
CHECK_DEADLOCK FALSE
