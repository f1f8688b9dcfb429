CHECK_DEADLOCK FALSE
SPECIFICATION ReviewsSpec
CONSTANTS
    OrderIds = {o1, o2}
    Requests = {r1}
    ReviewRequests = {v1, v2}
    Prices = {}
    CanFail = FALSE
    Null = Null
CONSTRAINT OnlyAdminSigns
INVARIANTS
    RatingIsCurrent
