CHECK_DEADLOCK FALSE
SPECIFICATION OrdersSpec
CONSTANTS
    OrderIds = {o1}
    Requests = {r1}
    Prices = {1}
    CanFail = FALSE
    Null = Null
PROPERTIES
    OnlyValidTransitions
