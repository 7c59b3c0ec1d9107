CONSTANTS
    MaxRouteFaults = 2
    MaxLeases = 2
SPECIFICATION RoutesFairSpec
CHECK_DEADLOCK FALSE
INVARIANT CorrectionDue
PROPERTY NatPathSettles
