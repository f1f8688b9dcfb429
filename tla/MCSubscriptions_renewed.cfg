CHECK_DEADLOCK FALSE
SPECIFICATION SubscriptionsSpec
CONSTANTS
    Users = {u1, u2}
    Requests = {r1, r2}
    Term = 2
    CanFail = TRUE
    Null = Null
INVARIANTS
    ExpiresOnlyPastDate
