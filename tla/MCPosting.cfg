SPECIFICATION Spec
CONSTANTS
    p1 = p1
    p2 = p2
    i1 = i1
    i2 = i2
    Captions = {c1}
    NoUser = NoUser
    Nil = Nil
    Users = {alice}
    PostIds <- MCPostIds
    Images <- MCImages
SYMMETRY MCSymmetry
INVARIANTS
    PhotoMatchesPost
    ServicesMatchChain
PROPERTIES
    StrandedPostStaysPhotoless
    DraftSurvivesFailure
    PublishesDrafts
