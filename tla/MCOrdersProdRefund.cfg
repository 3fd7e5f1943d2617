SPECIFICATION Spec
CONSTANTS
    Users = {u1}
    Products = {p1}
    OrderIds = {o1}
    Vouchers = {}
    NoVoucher = NoVoucher
    Methods = {"COD", "Online"}
    Requests = {r1}
    InitialStock = 1
    MaxQty = 1
    MaxAttempts = 1
    MaxImport = 0
    VoucherQuantities = {1}
    MaxFailures = 0
INVARIANTS CompletedPaymentRefundable
CHECK_DEADLOCK FALSE
