SPECIFICATION FairFeedSpec
CONSTANTS
    MaxListens = 2
    Nothing = Nothing
    Failed = Failed
    MaxVersion = 1
    MaxFaults = 1
INVARIANTS
    RegistrationsFollowScreens
    QuietScreensShowTheCache
PROPERTIES
    OffScreenStaysQuiet
    DeliveredPostsNeverGoBack
    ScreensCatchUp
CHECK_DEADLOCK FALSE
