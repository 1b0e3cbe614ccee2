SPECIFICATION ClientFairSpec
CONSTANTS
    MaxListens = 2
    Nothing = Nothing
    Failed = Failed
    MaxVersion = 1
    MaxFaults = 0
PROPERTIES
    OfflineWithinTimeout
CHECK_DEADLOCK FALSE
