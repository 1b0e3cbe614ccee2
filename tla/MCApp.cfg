SPECIFICATION FairSpec
CONSTANTS
    alice = alice
    bob = bob
    r1 = r1
    r2 = r2
    Users <- MCUsers
    Requests <- MCRequests
    PostIds = {p1}
    Images = {i1}
    Captions = {c1}
    NoUser = NoUser
    Nil = Nil
CONSTRAINT Bounds
INVARIANTS
    AuthorsHaveDocuments
PROPERTIES
    ComponentsInApp
    AuthorWasSignedIn
    PostsResolve
