SPECIFICATION SearchSpec
CONSTANTS
    Callers = {c1}
    MaxRetries = 1
    Timeout = 20
    Undefined = Undefined
    Invalid = Invalid
    JsonNull = JsonNull
    Queries <- MCQueries
    Parses <- MCParses
    ProviderIds <- MCProviderIds
    TopNCount = 2
    Annotations <- MCAnnotations
    Profiles <- MCProfiles
    Dtos <- MCDtos
INVARIANTS
    NoSearchFails
