CHECK_DEADLOCK FALSE
SPECIFICATION FairNoticesSpec
CONSTANTS
    CanFail = TRUE
    Null = Null
    Recipients = {buyer, provider}
    OrderIds = {o1, o2}
    MessageIds = {m1, m2}
    Users = {u1, u2}
    Requests = {r1, r2}
    Term = 1
    Callers = {c1}
    MaxRetries = 3
    Timeout = 20
    Invalid = Invalid
    Undefined = Undefined
    Categories = {"CATERER", "BARTENDER"}
    DraftReplies <- MCDraftReplies
INVARIANTS
    NoticesTypeOK
    ReadByItsReceiver
    NoticeTrue
    ExpiredOnlyWhenLapsed
    CallInTime
    CancellationIsFlagged
PROPERTIES
    MessageIsDelivered
    LapsedIsRefused
    DraftIsAnswered
