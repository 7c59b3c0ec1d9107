CONSTANTS
    None = None
    t1 = t1
    t2 = t2
    Tests = {t1, t2}
    e1 = e1
    Endpoints = {e1, e2}
    EndpointsOf <- EndpointsOfTest
    CLIENT_MAX_CONSEC_FAILURES = 1
    CLIENT_REPORT_RETRIES = 1
    Amount <- AmountOfTest
    MaxInFlight = 2
    MaxReports = 1
    MaxFaults = 1
    NoConn = NoConn
    Conns = {c1, c2, c3, c4}
    HEADER = 2
    INTERVAL = 3
    MAX_IDLE = 2
    MaxLen = 3
    MaxBytes = 6
    MaxWrites = 2
SPECIFICATION IperfFairSpec
CHECK_DEADLOCK FALSE
INVARIANTS
    SequenceAccounting
    ReportCoversTest
    ReportTruthful
    ReportedOnce
    ReportNotCrossed
    PcbMatches
    ReportedOncePerConnection
    ServerKeepsListening
    ServerBytes
PROPERTIES
    ClientFinishes
    ConnectionEnds
    IdleLimit
