SPECIFICATION OrderlySpec
CONSTANTS
    Users = {u1}
    Products = {p1}
    OrderIds = {o1, o2}
    Vouchers = {v1}
    NoVoucher = NoVoucher
    Methods = {"Online"}
    Requests = {r1, r2}
    InitialStock = 1
    MaxQty = 1
    MaxAttempts = 1
    MaxImport = 0
    VoucherQuantities <- SomeQuantities
    MaxFailures = 0
SYMMETRY ShopSymmetry
INVARIANTS RefundedOrderIsCanceled StockConserved VoucherOncePerUser
PROPERTIES LifecycleSpec UserCancelsUnconfirmed
CHECK_DEADLOCK FALSE
