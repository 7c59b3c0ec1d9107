CONSTANTS
    c1 = c1
    c2 = c2
    x1 = x1
    x2 = x2
    q1 = q1
    q2 = q2
    q3 = q3
    Clients = {c1, c2}
    TxIds = {x1, x2}
    Questions = {q1, q2}
    KeyOf <- MCKeyOf
    NoKey = NoKey
    PENDING_MAX = 2
    CACHE_ENTRIES = 2
    CACHE_TTL_SEC = 2
    TickWrap = 100
    MaxTime = 1
    MaxQueries = 3
    MaxLost = 0
    MaxDuplicates = 0
SPECIFICATION DnsSpec
INVARIANT RepliesAnswerTheAsker
CHECK_DEADLOCK FALSE
