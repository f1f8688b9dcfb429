CHECK_DEADLOCK FALSE
SPECIFICATION PaymentsSpec
CONSTANTS
    OrderIds = {o1}
    Requests = {r1}
    Prices = {1}
    CanFail = TRUE
    Null = Null
    IntentIds = {i1, i2}
    PayRequests = {p1, p2}
    Redelivery = TRUE
SYMMETRY Symmetry
INVARIANTS
    PaymentsTypeOK
    OneChargePerOrder
    AuthorisedIsRecorded
    CapturedAfterDelivery
    LedgerBackedByStripe
PROPERTIES
    MoneyIsEscrowed
