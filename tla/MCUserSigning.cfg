\* One user and one request, over two and a half minutes of two instants; an expiry of three.
SPECIFICATION MCSpec
CONSTANTS
    Users = {u1}
    Requests = {r1}
    Minute = 2
    Expiry = 3
    NoEntry = NoEntry
    NoNonce = NoNonce
    MaxTime = 4
    MaxNonce = 2
INVARIANTS
    SentAtMostOnce
    RejectedIsNeverSent
CHECK_DEADLOCK FALSE
