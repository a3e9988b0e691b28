SPECIFICATION AccountSpec
CONSTANTS
    User = {u1, u2}
    Worker = {w1, w2}
    FirstAdmin = u1
    Ttl = 2
    Lifetime = 1
    Worlds <- RoleWorlds
    Client = {w1, w2}
    Moderator = {m1, m2}
    Token = {r1}
    AccessTtl = 2
    RefreshTtl = 3
    ResetTtl = 2
    Attempts = 2
    LockTime = 2
    BanTime = 2
    SessionWorlds <- AllSessionWorlds
    NoToken = NoToken
    Slot = {s1, s2}
    File = {k1, k2}
    MaxRef = 2
    MaxJobs = 2
    BlobWorlds <- ImageWorlds
    NoFile = NoFile
    Name = {n1, n2}
    Address = {k1, k2}
    DefaultRole = {o1, o2}
    RegistrationWorlds <- Joined
    NoAccount = NoAccount
    Image <- Icons
    SiteWorlds <- SiteImageWorlds
    NoImage = NoImage
    b1 = b1
    b2 = b2
    b3 = b3
    t1 = t1
    t2 = t2
    t3 = t3
    Member = {b1, b2, b3}
    Thread = {t1, t2, t3}
    MaxAdded = 2
    MarkWorlds <- Marked
    NoMark = NoMark
SYMMETRY Symmetry
INVARIANTS
    AlwaysAnAdmin
    RolesServed
    BansHold
    CredentialsHold
    ImagesKept
    MembersHold

    
CHECK_DEADLOCK FALSE
