\* Two callers; two quotes that share a pair of the client; a request a window,
\* two attempts; a cache of two previews; five currencies, one of them an alias.
SPECIFICATION MCSpec
CONSTANTS
    u = u
    cusd = cusd
    usdPhp = usdPhp
    Unsupported = Unsupported
    c1 = c1
    c2 = c2
    NoEntry = NoEntry
    NoCall = NoCall
    NoAnswer = NoAnswer
    Pairs = {usdPhp}
    Quotes = {u, cusd}
    PairOf <- MCPairOf
    Callers = {c1, c2}
    Configured = TRUE
    HasClient = TRUE
    WiseTTL = 2
    Window = 1
    Limit = 1
    MaxRetries = 2
    RealtimeTTL = 1
    FeeTTL = 3
    KeepHistory = 1
    KeepMonitored = 1
    MaxTime = 3
    HasNode = TRUE
    PreviewTTL = 2
    MaxCached = 2
    MaxPreviews = 3
    USDm = USDm
    CELO = CELO
    eurm = eurm
    brlm = brlm
    lone = lone
    cEUR = cEUR
    Currencies = {USDm, CELO, eurm, brlm, lone}
    Aliased = {cEUR}
    Canonical <- MCCanonical
    Pools <- MCPools
    RouteTTL = 2
    MaxRoutes = 2
    RoutesDropped = 1
    MaxRouteTime = 2
VIEW WhatMatters
INVARIANTS
    RealtimeWithinBothTTLs
    PreviewsLastTheirTime
    RecommendedIsShortest
PROPERTIES
    RealtimeNeverGoesBack
    CallsWithinWindow
    EveryComparisonEnds
CHECK_DEADLOCK FALSE
