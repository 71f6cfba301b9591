\* One agent, two accounts, a day of two instants and one and a half days after it.
SPECIFICATION MCSpec
CONSTANTS
    Accounts = {a1, a2}
    NoAddress = NoAddress
    MaxAgents = 1
    Pool = Pool
    Deployer = a1
    Supply = 3
    UnitAmount = 2
    FactorCap = 4
    BasisPoints = 2
    Tiers = {0, 1}
    DefaultMultipliers <- MCMultipliers
    Day = 2
    MaxUint = 5
    InitialRate = 2
    InitialCap = 2
    Amounts = {1, 5}
    Rates = {1}
    Caps = {1}
    MultiplierTables <- MCTables
    MaxTime = 4
CONSTRAINT FewApprovals
INVARIANTS
    WindowHoldsItsPayments
    LessThanTwoCapsInAnyDay
PROPERTIES
    OutflowIsAccountedFor
    RenouncedPoolIsFrozen
CHECK_DEADLOCK FALSE
