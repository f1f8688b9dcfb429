CHECK_DEADLOCK FALSE
SPECIFICATION FairMarketSpec
CONSTANTS
    OrderIds = {o1}
    Requests = {r1}
    Prices = {0, 1}
    CanFail = TRUE
    Null = Null
    IntentIds = {i1}
    PayRequests = {p1}
    Redelivery = FALSE
    ReviewRequests = {v1, v2}
INVARIANTS
    InstantBookingUnpriced
    OnlyPricedOrdersPaid
    ReviewsTypeOK
    ReviewedAfterDelivery
    ReviewNoticeTrue
PROPERTIES
    CaptureIsRecorded
    ReviewIsCounted
