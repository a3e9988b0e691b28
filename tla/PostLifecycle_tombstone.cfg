SPECIFICATION Spec
CONSTANTS
    Post = {p1, p2}
    Thread = {t1, t2}
    File = {k1}
    Worker = {w1, w2}
    MaxRef = 3
    Worlds <- TombstoneOnly
    NoPost = NoPost
    NoThread = NoThread
INVARIANT
    EmbeddedIsServed
CHECK_DEADLOCK FALSE
