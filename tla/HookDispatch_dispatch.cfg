SPECIFICATION FairDispatchSpec
CONSTANTS
    h1 = h1
    r1 = r1
    e1 = e1
    HookCall = {h1}
    RpcCall = {r1}
    AfterEvent = {e1}
    Capacity = 1
    MaxRuntimes = 2
    ScriptWorlds <- Scripts
    Nobody = Nobody
    NoValue = NoValue
    Shutdown = Shutdown
    Call = {c1, c2}
    Threshold = 2
    Window = 2
    Reset = 2
    Never = Never
    Worker = {t1, t2, t3, t4}
    Hook = {h1, h2, h3}
    Reload = {r1, r2, r3}
    Plugin = {p1}
    Admin = {a1, a2}
    Config = {k1}
    Tier <- ScriptPlugin
    MaxWebhooks = 1
    Environments <- Overlapping
    NoPlugin = NoPlugin
    NoConfig = NoConfig
INVARIANTS
    ThresholdOpens
PROPERTIES
    OpenIsEarned
    Recovers
    HookReturns
    RuntimesEnd
    UninstallCompletes
CHECK_DEADLOCK FALSE
