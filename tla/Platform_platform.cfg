SPECIFICATION PlatformSpec
CONSTANTS
    h1 = h1
    r1 = r1
    r2 = r2
    v1 = v1
    base = base
    extra = extra
    dark = dark
    default = default
    aspen = aspen
    birch = birch
    a1 = a1
    a2 = a2
    root = root
    c1 = c1
    c2 = c2
    s1 = s1
    s2 = s2
    Thread = {t1}
    Viewer = {v1}
    LastDay = 2
    MaxVisits = 2
    StatWorlds <- Days
    Never = Never
    Event = {w1, w2, e3}
    Notice = {w1, w2}
    Conn = {w1, w2}
    Hook = {h1}
    MaxFailures = 2
    EventWorlds <- Deliveries
    Process = {w1, w2}
    Client = {a1, a2}
    Address = {a1, a2, proxy}
    Proxy = proxy
    Headers <- Forged
    Window = 2
    Limit = {1, 2}
    MaxAsked = 4
    LimitWorlds <- Limiters
    Nobody = Nobody
    NoWindow = NoWindow
    Key = {k1, k2, k3}
    Swept = {k1, k2}
    Claim = {k3}
    Ttl = 1
    CacheWorlds <- Stores
    Empty = Empty
    Admin = {w1, w2}
    Author = {u1, u2, u3}
    TagCreator = {u1, u2}
    Category = {c1, c2, c3}
    Slug = {s1, s2, s3}
    Founding <- Founded
    Topic = {o1}
    Tag = {g1}
    MaxTags = 1
    StructureWorlds <- Boards
    NoRow = NoRow
    Gone = Gone
    Runner = {b0, w1, w2}
    Boot = b0
    Name = {root, moderator, alice, bob}
    Moderator = moderator
    Alice = alice
    Bob = bob
    BulkUsers = 2
    BulkThreads = 3
    PostsPerThread = 3
    BulkReactions = 4
    BulkNotices = 3
    SetupWorlds <- FirstRuns
    HookCall = {h1}
    RpcCall = {r1, r2}
    AfterEvent = {v1}
    Capacity = 1
    MaxRuntimes = 2
    ScriptWorlds <- ScriptsRun
    NoValue = NoValue
    Shutdown = Shutdown
    Default = default
    Order <- Slugs
    Page = {base, extra}
    Base = base
    Macros = extra
    Package <- Packages
    Scheme = {dark, auto}
    AutoScheme = auto
    Image = {i1}
    NoImage = NoImage
    MaxRef = 1
    Visitor = {v1}
    ThemeWorlds <- Stylings
    NoTheme = NoTheme
    NoPackage = NoPackage
    Absent = Absent
SYMMETRY Symmetry
INVARIANTS
    ViewsCounted
    NoticesHeard
    StoresHold
    BoardHolds
    SetupHolds
    CallsHeard
    ThemesHold
PROPERTIES
    DisabledByFailures
    KeepsWindows
CHECK_DEADLOCK FALSE
