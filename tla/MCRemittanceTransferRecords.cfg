\* The entries of the records against the chain.
SPECIFICATION Spec
CONSTANTS
    Tasks = {t1, t2}
    Connections = {c1}
    QueueSize = 1
    MaxHistory = 1
    Tokens = {"CELO", "USDm", "EURm"}
    Requests <- MCRequests
    InitialFunds <- MCFunds
    Margin = 1
    MaxSlip = 1
    Idle = Idle
INVARIANT
    RecordedIsCompleted
CHECK_DEADLOCK FALSE
