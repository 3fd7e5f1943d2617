SPECIFICATION Spec
CONSTANTS
    Users = {u1, u2}
    Products = {p1}
    OrderIds = {o1, o2, o3}
    Vouchers = {v1}
    NoVoucher = NoVoucher
    Methods = {"Online"}
    Requests = {r1, r2}
    InitialStock = 2
    MaxQty = 1
    MaxAttempts = 0
    MaxImport = 1
    VoucherQuantities <- SomeQuantities
    MaxFailures = 1
SYMMETRY ShopSymmetry
INVARIANTS NeverOversold VoucherLedger
CHECK_DEADLOCK FALSE
