\* Two events delivered up to three times each to a pool of two threads; two
\* threads at a limiter of two, over two windows; two pushes of three attempts.
SPECIFICATION MessagesSpec
CONSTANTS
    Events = {e1, e2}
    Threads = {t1, t2}
    MaxDeliveries = 3
    Requests = {r1, r2}
    Limit = 2
    Window = 2
    Day = 2
    MaxTime = 3
    Calls = {p1, p2}
    MaxRetries = 3
\* Deliveries are used up, calls have returned.
CHECK_DEADLOCK FALSE
INVARIANTS
    TypesOK
    ClaimExclusive
    RepeatsNeedLateFailure
    ClaimsAccountedFor
    LimitsHold
    RefusedForAReason
    AtMostOneCopy
    SentIsDelivered
PROPERTIES
    PushReturns
