SPECIFICATION Spec
CONSTANTS
    Post = {p1, p2}
    Thread = {t1}
    File = {k1, k2}
    Worker = {w1, w2}
    MaxRef = 2
    Worlds <- Drifts
    NoPost = NoPost
    NoThread = NoThread
SYMMETRY Symmetry
INVARIANTS
    LostIncrementsOnlyHide
    LostDecrementsOnlyLeak
    DeletedFlagsAgree
CHECK_DEADLOCK FALSE
