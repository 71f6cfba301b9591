\* Authentication: one origin, one address, an access token that outlives the refresh token.
\* Recurring transfers: two users, two recipients, one of them a phone number, two starts.
\* Chats: two users.
SPECIFICATION MCSpec
CONSTANTS
    Wallets = {}
    Origins = {o1}
    Addresses = {a1}
    AllowedOrigins = {o1}
    None = None
    Anonymous = Anonymous
    Attested = FALSE
    AccessLife = 2
    RefreshLife = 1
    Window = 2
    MaxRequests = 1
    MaxTime = 3
    MaxTokens = 4
    MaxRestarts = 1
    Missing = Missing
    Torn = Torn
    Users = {u1, u2}
    Recipients = {phone, wallet1}
    Phones = {phone}
    Frequencies = {daily, odd}
    Scheduled = {daily}
    Rebuilt = {daily, odd}
    Hosted = TRUE
    MaxClock = 1
    MaxJobs = 2
    MaxRuns = 2
    MaxStarts = 1
    ChatUsers = {c1, c2}
    Nobody = Nobody
    NoChat = NoChat
SYMMETRY Symmetry
VIEW WhatMatters
INVARIANTS
    LogoutHolds
    SessionEnds
    JobsMatchScheduler
    PromisesOutliveRestart
    EveryRunIsRecorded
    BalancesAreOfTheWallet
    AloneSeesOwn
CHECK_DEADLOCK FALSE
