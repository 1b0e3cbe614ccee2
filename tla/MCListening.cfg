SPECIFICATION Spec
CONSTANTS
    MaxListens = 3
    Nothing = Nothing
    Failed = Failed
    MaxVersion = 2
    MaxFaults = 2
INVARIANTS
    ListensAgree
    OutstandingMatchesWire
    SyncedMeansCaughtUp
    ListenersSeeTheView
    OnlineStateSound
    QuietStreamIsUpToDate
CHECK_DEADLOCK FALSE
