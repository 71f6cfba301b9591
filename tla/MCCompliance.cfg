\* One user, one recipient, a country of each kind; levels and verdicts live one tick.
SPECIFICATION MCSpec
CONSTANTS
    Users = {u1}
    Addresses = {a1}
    Calls = {c1, c2}
    Countries = {nowhere, risky}
    HighRisk = {risky}
    NoCountry = nowhere
    Suspicious = {}
    Amounts = {40, 60000}
    Limits = {100000}
    Torn = Torn
    KycLife = 1
    ScreenLife = 1
    MaxTime = 1
    MaxAudit = 2
    MaxRestarts = 1
INVARIANTS
    CredentialAgreesWithRecord
    LimitOutlivesRestart
    PassesOnFreshVerdict
PROPERTIES
    LevelFallsOnlyByOverlap
CHECK_DEADLOCK FALSE
