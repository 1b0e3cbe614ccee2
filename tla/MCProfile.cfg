SPECIFICATION Spec
CONSTANTS
    e1 = e1
    e2 = e2
    s1 = s1
    s2 = s2
    Users = {alice}
    Infos = {d}
    DefaultInfo = d
    Blank = Blank
    Unset = Unset
    Pictures = {q}
    Editors <- MCEditors
    Saves <- MCSaves
    NoUser = NoUser
    Nil = Nil
SYMMETRY MCSymmetry
INVARIANTS
    PhotoURLHasObject
    SavesMatchServices
    PresentedOnProfile
PROPERTIES
    EditsStayUntilSaved
