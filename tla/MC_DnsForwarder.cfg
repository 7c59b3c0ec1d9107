CONSTANTS
    c1 = c1
    c2 = c2
    x1 = x1
    x2 = x2
    q1 = q1
    q2 = q2
    q3 = q3
    Clients = {c1, c2}
    TxIds = {x1, x2}
    Questions = {q1, q2, q3}
    KeyOf <- MCKeyOf
    NoKey = NoKey
    PENDING_MAX = 2
    CACHE_ENTRIES = 2
    CACHE_TTL_SEC = 1
    TickWrap = 2
    MaxTime = 2
    MaxQueries = 3
    MaxLost = 1
    MaxDuplicates = 1
SPECIFICATION DnsFairSpec
INVARIANTS
    NoQueryForgotten
    OneReplyPerQuery
    EverySlotHasExchange
    FreshAnswers
    CrossedOnlyBySharedId
PROPERTY AllAnswered
CHECK_DEADLOCK FALSE
