SPECIFICATION PluginSpec
CONSTANTS
    p1 = p1
    p2 = p2
    Plugin = {p1, p2}
    Admin = {a1}
    Config = {c1, c2}
    Tier <- BothTiers
    Environments <- Orderly
    MaxWebhooks = 1
    NoPlugin = NoPlugin
    NoConfig = NoConfig
    s1 = s1
    s2 = s2
    f1 = f1
    f2 = f2
    h1 = h1
    Slug = {s1, s2}
    Part = {f1, f2}
    Manifest = Manifest
    Refused = Refused
    Huge = Huge
    Package <- Packages
    Place = {h1, h2}
    Image = {i1, i2}
    Temp = {t1, t2}
    Worker = {w1, w2}
    MaxMade = 2
    MaxRef = 2
    PackageWorlds <- AllPackageWorlds
    NoDir = NoDir
    NoPackage = NoPackage
SYMMETRY AllSymmetry
INVARIANTS
    RegistryFollowsRow
    WebhooksFollowStatus
    HookOnce
    NoStrayFiles
    PackagesHold
CHECK_DEADLOCK FALSE
