CONSTANTS
    FaultKinds = {"loss"}
    MaxFaults = 1
SPECIFICATION LinkSpec
PROPERTY ReconnectsOnlyWhenDown
CHECK_DEADLOCK FALSE
