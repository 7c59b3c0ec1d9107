CONSTANTS
    Empty = Empty
    Absent = Absent
    Cut = Cut
    TooLong <- LongTexts
    Default <- Factory
    Forms <- SomeForms
    Networks <- AllNetworks
    Reachable <- InRangeNow
    Countries <- KnownCountries
    ApPasswords <- LongPasswords
    MaxFaults = 1
    MaxResets = 1
    MaxReconnects = 1
    MaxParts = 1
SPECIFICATION BridgeFairSpec
CHECK_DEADLOCK FALSE
PROPERTIES
    CredentialsMatch
    KeepsPromise
    RestartsExplained
    WebPageComesUp
