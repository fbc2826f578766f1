CONSTANTS
    c1 = c1  q1 = q1
    NoChat = NoChat  NoRequest = NoRequest  NoAttempt = NoAttempt
    Delivery = {1, 2}
    Kind <- Kinds
    Chat = {c1}
    Settings <- Saved
    Request = {q1}
    Lease = 2
    SendNeeds = 1
    Interval = 1
    RetryAfter = {2}
    Backoff <- Doubling
    MAX_AUTOMATIC_ATTEMPTS = 2
    MaxAttempts = 2
    Horizon = 4
SPECIFICATION ActiveFairSpec
INVARIANTS
    ResendIsConfirmed
    ChatSpacing
    RowFollowsAttempt
PROPERTIES
    ClaimsResolve
