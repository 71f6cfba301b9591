\* Two agents, one contract and one plain account, one metadata key.
SPECIFICATION MCSpec
CONSTANTS
    Accounts = {c1, a1}
    Contracts = {c1}
    NoAddress = NoAddress
    MaxAgents = 2
    Keys = {k1}
    Values = {NoValue, v1}
    NoValue = NoValue
    Uris = {EmptyUri, u1}
    EmptyUri = EmptyUri
    KeepUri = KeepUri
    InitialMetadata <- MCInitialMetadata
    NoCall = NoCall
CONSTRAINT NoSelfOperators
INVARIANTS
    WalletSetUnderHolder
PROPERTIES
    ImplementsOwnership
    ProfileChangesAreAuthorized
CHECK_DEADLOCK FALSE
