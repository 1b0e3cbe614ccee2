SPECIFICATION Spec
CONSTANTS
    MaxListens = 2
    Nothing = Nothing
    Failed = Failed
    MaxVersion = 2
    MaxFaults = 0
INVARIANTS
    CurrentMeansCaughtUp
CHECK_DEADLOCK FALSE
