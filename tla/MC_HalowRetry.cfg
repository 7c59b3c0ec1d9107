CONSTANTS
    FaultKinds = {"loss", "enable"}
    MaxFaults = 2
SPECIFICATION LinkFairSpec
PROPERTY KeepsTrying
CHECK_DEADLOCK FALSE
