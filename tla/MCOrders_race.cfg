CHECK_DEADLOCK FALSE
SPECIFICATION OrdersSpec
CONSTANTS
    OrderIds = {o1}
    Requests = {r1, r2}
    Prices = {1}
    CanFail = TRUE
    Null = Null
SYMMETRY Symmetry
INVARIANTS
    OrdersTypeOK
    WorkIsContracted
    SignaturesGenuine
    NoStageSkipped
    AgreedPriceWasOffered
    AnnouncedIsCommitted
PROPERTIES
    SignatureLostByOvertaken
    ChangeLegalOrOvertaken
