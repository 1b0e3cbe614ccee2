SPECIFICATION FairSpec
CONSTANTS
    alice = alice
    bob = bob
    r1 = r1
    r2 = r2
    r3 = r3
    Users <- MCUsers
    Requests <- MCRequests
    NoUser = NoUser
INVARIANTS
    InstagramNeedsUser
    ChainsMatchSession
PROPERTIES
    OrphansStayOrphans
    LoginResolves
