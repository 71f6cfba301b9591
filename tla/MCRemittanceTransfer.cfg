\* Two calls and one connection whose queue holds two events.
SPECIFICATION FairSpec
CONSTANTS
    Tasks = {t1, t2}
    Connections = {c1}
    QueueSize = 2
    MaxHistory = 1
    Tokens = {"CELO", "USDm", "EURm"}
    Requests <- MCRequests
    InitialFunds <- MCFunds
    Margin = 1
    MaxSlip = 0
    Idle = Idle
INVARIANTS
    StatusDelivered
    ShortOnlyByLateSpend
    AnswersMatchChain
PROPERTIES
    StreamSpec
    AnswersUnlessAbandoned
CHECK_DEADLOCK FALSE
