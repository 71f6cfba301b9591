\* Three calls for one agent; the breaker trips after two failures of two attempts each.
\* Charges: three payments of two tries, one service that cannot be reached.
SPECIFICATION MCSpec
CONSTANTS
    Agents = {a1}
    MaxScore = 4
    StartScore = 2
    SuccessDelta = 1
    Deltas = {1}
    Day = 2
    DecayDivisor = 4
    Unknown = Unknown
    Tasks = {t1, t2, t3}
    NoTime = NoTime
    NoAgent = NoAgent
    HasClient = TRUE
    MaxRetries = 3
    Threshold = 2
    ResetSecs = 1
    DailyCap = 3
    MaxReward = 3
    Multiplier <- MCMultiplier
    BaseRewards = {2}
    MaxAudit = 4
    MaxLedger = 2
    KeepLedger = 1
    NoTask = NoTask
    MaxOthers = 1
    MaxTime = 3
    Payments = {p1, p2, p3}
    Services = {oracle, wallet}
    Unreachable = {wallet}
    Screening = Screening
    ChargeTries = 2
    ReceiptTTL = 1
    MaxPayments = 2
    KeepPayments = 1
    NoReceipt = NoReceipt
    MaxClock = 2
INVARIANTS
    CapOverrunBounded
    LedgerMatchesCalls
    DecayNeedsInactivity
    ReceiptsAreTrue
PROPERTY
    EveryCallSettles
CHECK_DEADLOCK FALSE
