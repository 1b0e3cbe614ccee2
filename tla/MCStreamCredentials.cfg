SPECIFICATION FairSpec
CONSTANTS
    alice = alice
    bob = bob
    c1 = c1
    Users <- MCUsers
    Calls <- MCCalls
    None = None
    MaxChanges = 2
    MaxCloses = 1
INVARIANTS
    StartingHasToken
    StreamSpeaksForCurrentUser
    TokenFindsStreamStarting
    WritesBelongToCaller
PROPERTIES
    StartingResolves
CHECK_DEADLOCK FALSE
