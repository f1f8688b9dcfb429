CHECK_DEADLOCK FALSE
SPECIFICATION DirectorySpec
CONSTANTS
    CanFail = TRUE
    Null = Null
    UserIds = {u1, u2}
    Emails = {e1}
    TokenIds = {t1, t2, t3}
    AuthRequests = {a1, a2}
    Tags = {g1}
    ItemIds = {i1}
    Fields = {"bio"}
    Requests = {r1, r2}
    Callers = {c1, c2}
    MaxRetries = 2
    Timeout = 20
    Invalid = Invalid
    Undefined = Undefined
    JsonNull = JsonNull
    NaN = NaN
    Queries <- MCQueries
    Parses <- MCParses
    ProviderIds <- MCProviderIds
    TopNCount = 2
    Annotations <- MCAnnotations
    Profiles <- MCProfiles
    Dtos <- MCDtos
    Contexts <- MCContexts
    Opinions <- MCOpinions
SYMMETRY Symmetry
INVARIANTS
    DirectoryTypeOK
    RefreshAddsNoSession
    LogoutEndsSessions
    TagsSynced
    ScoreIsCurrent
    CachedParseFits
    SearchHonoursCaller
    
    SuggestionNearBaseline
    MedianSplits
