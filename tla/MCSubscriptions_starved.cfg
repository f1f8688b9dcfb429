CHECK_DEADLOCK FALSE
SPECIFICATION FairSubscriptionsSpec
CONSTANTS
    Users = {u1, u2}
    Requests = {r1}
    Term = 1
    CanFail = TRUE
    Null = Null
PROPERTIES
    EveryLapsedRowExpires
