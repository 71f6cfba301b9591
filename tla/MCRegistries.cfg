\* Keys: two agents, three keys, one verifier, pages of two keys.
\* Feedback: one agent, feedback of two precisions, pages of one client.
SPECIFICATION ReadSpec
CONSTANTS
    Accounts = {a1, a2, a3}
    NoAddress = NoAddress
    MaxAgents = 2
    RegistryDeployer = a1
    Verifiers = {v1}
    Architectures = {NoArch, tdx}
    NoArch = NoArch
    Pubkeys = {k1, k2, k3}
    NoVerifier = NoVerifier
    ValueLimit = 32
    Values <- MCValues
    Decimals = {0, 1, 2}
    MaxDecimals = 1
    Tags = {x}
    MaxFeedback = 2
    Reading = 0
    KeyLimit = 2
    FeedbackLimit = 1
    MaxRemovals = 2
    MaxTotal = 3
SYMMETRY Symmetric
CONSTRAINT Bounded
INVARIANTS
    KeysAgree
    PagedReadAlmostComplete
    SummaryIsAverage
    PagedCountIsBracketed
CHECK_DEADLOCK FALSE
