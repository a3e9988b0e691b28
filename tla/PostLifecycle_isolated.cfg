SPECIFICATION Spec
CONSTANTS
    Post = {p1, p2, p3}
    Thread = {t1, t2}
    File = {k1}
    Worker = {w1, w2}
    MaxRef = 3
    Worlds <- Isolation
    NoPost = NoPost
    NoThread = NoThread
SYMMETRY Symmetry
INVARIANTS
    RefsExact
    RepliesExact
CHECK_DEADLOCK FALSE
