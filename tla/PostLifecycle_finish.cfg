SPECIFICATION FairSpec
CONSTANTS
    Post = {p1}
    Thread = {t1}
    File = {k1}
    Worker = {w1, w2}
    MaxRef = 1
    Worlds <- EverythingButACrash
    NoPost = NoPost
    NoThread = NoThread
PROPERTIES
    RequestsFinish
    DeleteTakesEffect
CHECK_DEADLOCK FALSE
