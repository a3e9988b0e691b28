SPECIFICATION CommunitySpec
CONSTANTS
    c1 = c1
    c2 = c2
    g = g
    m = m
    s = s
    u1 = u1
    m1 = m1
    m2 = m2
    t1 = t1
    t2 = t2
    p1 = p1
    p2 = p2
    Worker = {w1}
    Lister = {l1}
    Category = {c1, c2}
    Watchable = {c1}
    Top = {c1}
    Thread = {t1, t2}
    Shown = {t1}
    Post = {p1, p2}
    Ttl = 1
    NoEntry = NoEntry
    Theme = {light}
    PreferenceWorlds <- Watched
    Reader = {g, m, s}
    Access <- Levels
    CategoryTtl = 2
    CountTtl = 1
    ListWorlds = {}
    User = {u1, m1}
    Guest = Guest
    Rights <- UserRights
    TrustLevel <- Trusted
    PerPage = 2
    MaxPosts = 3
    Limits = {}
    Reactor = {r1}
    Reaction = {helpful, like}
    Meaningful = {helpful}
    Standings <- NearPromotion
    TrustWorlds = {}
    MaxChanges = 2
    PostCounts = {29, 30, 499, 500}
    VisitDays = {14, 15, 99, 100}
    MaxTasks = 1
    None = None
    Report = {f1}
    PostThread <- Homes
    Moderator = {m1, m2}
    Scope <- Scopes
    Everywhere = Everywhere
    ReportWorlds = {}
    Nobody = Nobody
    Absent = Absent
PROPERTY
    SavePreserves
CHECK_DEADLOCK FALSE
