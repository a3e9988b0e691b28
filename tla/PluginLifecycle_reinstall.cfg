SPECIFICATION Spec
CONSTANTS
    p1 = p1
    p2 = p2
    Plugin = {p1}
    Admin = {a1}
    Config = {c1}
    Tier <- ScriptOnly
    Environments <- JustReinstall
    MaxWebhooks = 1
    NoPlugin = NoPlugin
    NoConfig = NoConfig
INVARIANT
    InstalledHasFiles
CHECK_DEADLOCK FALSE
