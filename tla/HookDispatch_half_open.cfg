SPECIFICATION DispatchSpec
CONSTANTS
    h1 = h1
    r1 = r1
    e1 = e1
    HookCall = {h1}
    RpcCall = {r1}
    AfterEvent = {e1}
    Capacity = 1
    MaxRuntimes = 2
    ScriptWorlds <- Scripts
    Nobody = Nobody
    NoValue = NoValue
    Shutdown = Shutdown
    Call = {c1}
    Threshold = 2
    Window = 3
    Reset = 2
    Never = Never
    Worker = {t1}
    Hook = {h1}
    Reload = {r1}
    Plugin = {p1}
    Admin = {a1, a2}
    Config = {k1}
    Tier <- ScriptPlugin
    MaxWebhooks = 1
    Environments <- Overlapping
    NoPlugin = NoPlugin
    NoConfig = NoConfig
PROPERTY
    FailureAtThresholdOpens
CHECK_DEADLOCK FALSE
