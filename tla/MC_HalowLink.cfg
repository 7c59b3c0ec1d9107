CONSTANTS
    FaultKinds = {"loss", "address", "disable", "enable", "start", "create"}
    MaxFaults = 4
SPECIFICATION LinkFairSpec
INVARIANTS
    FlagNeverSticks
    WokenOnce
    LedShowsLink
PROPERTIES
    StartupCompletes
    LinkRecovers
CHECK_DEADLOCK FALSE
