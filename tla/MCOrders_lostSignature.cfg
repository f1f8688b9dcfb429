CHECK_DEADLOCK FALSE
SPECIFICATION OrdersSpec
CONSTANTS
    OrderIds = {o1}
    Requests = {r1, r2}
    Prices = {1}
    CanFail = FALSE
    Null = Null
INVARIANTS
    SignatureNoticeTrue
