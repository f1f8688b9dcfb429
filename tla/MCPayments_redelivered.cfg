CHECK_DEADLOCK FALSE
SPECIFICATION PaymentsSpec
CONSTANTS
    OrderIds = {o1}
    Requests = {r1}
    Prices = {1}
    CanFail = FALSE
    Null = Null
    IntentIds = {i1}
    PayRequests = {p1}
    Redelivery = TRUE
PROPERTIES
    PaymentFlow
