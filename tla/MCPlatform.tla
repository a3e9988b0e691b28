------------------------------- MODULE MCPlatform -------------------------------
(***************************************************************************)
(* What the parts above run on, for TLC: Statistics, Events, RateLimits,   *)
(* Caches, Structure, Setup, ScriptRuntime and Themes.  As in MCCommunity  *)
(* a behaviour is about one of them, which share no state, and the         *)
(* variables of the others are Absent.                                     *)
(***************************************************************************)
EXTENDS Structure

CONSTANTS
    Thread, Viewer, LastDay, MaxVisits, StatWorlds, Never,
    Event, Notice, Conn, Hook, MaxFailures, EventWorlds,
    Process, Client, Address, Proxy, Headers, Window, Limit, MaxAsked, LimitWorlds,
    Nobody, NoWindow,
    Key, Swept, Claim, Ttl, CacheWorlds, Empty,
    Runner, Boot, Name, Moderator, Alice, Bob, BulkUsers, BulkThreads, PostsPerThread,
    BulkReactions, BulkNotices, SetupWorlds,
    HookCall, RpcCall, AfterEvent, Capacity, MaxRuntimes, ScriptWorlds, NoValue, Shutdown,
    Default, Order, Page, Base, Macros, Package, Scheme, AutoScheme, Image, NoImage, MaxRef,
    Visitor, ThemeWorlds, NoTheme, NoPackage,
    Absent,
    h1, r1, r2, v1, a1, a2, root, c1, c2, s1, s2, base, extra, dark,
    default, aspen, birch                                       \* model values

VARIABLES
    side,
    stat_world, today, view_count, born, alive, dedup, visits, buffer, draining, daily,
    flushing,
    event_world, stage, inbox, audit_log, senders, conn, heard, known, jobs, webhooks,
    streak,
    limit_world, limit, store, gate, call, asked, admitted,
    cache_world, cells, cache_pc, found, ahead, fresh, claims, due,
    setup_world, server, setup_complete, setup_lock, run, form, reported, accounts, site,
    script_world, enabled, turn, current, made, let_go, failed, worker, queue, running,
    hand, deed, home, told, post, kv,
    theme_world, row, dir, tera, slug_cache, chain_cache, color_cache, preview, refs,
    theme_pc, theme_req, visit

Statistics == INSTANCE Statistics
Events == INSTANCE Events
Limits == INSTANCE RateLimits WITH Worker <- Process
Caches == INSTANCE Caches WITH Worker <- Process
Setup == INSTANCE Setup WITH Worker <- Runner, stage <- run, told <- reported
Scripts == INSTANCE ScriptRuntime
Themes == INSTANCE Themes WITH Worker <- Process

ASSUME PlatformConstants ==
       /\ Statistics!StatConstants
       /\ Events!EventConstants
       /\ Limits!LimitConstants
       /\ Caches!CacheConstants
       /\ StructureConstants
       /\ Setup!SetupConstants
       /\ Scripts!ScriptConstants
       /\ Themes!ThemeConstants

statVars == <<stat_world, today, view_count, born, alive, dedup, visits, buffer, draining,
              daily, flushing>>
eventVars == <<event_world, stage, inbox, audit_log, senders, conn, heard, known, jobs,
               webhooks, streak>>
limitVars == <<limit_world, limit, store, gate, call, asked, admitted>>
cacheVars == <<cache_world, cells, cache_pc, found, ahead, fresh, claims, due>>
setupVars == <<setup_world, server, setup_complete, setup_lock, run, form, reported,
               accounts, site>>
scriptVars == <<script_world, enabled, turn, current, made, let_go, failed, worker, queue,
                running, hand, deed, home, told, post, kv>>
themeVars == <<theme_world, row, dir, tera, slug_cache, chain_cache, color_cache, preview,
               refs, theme_pc, theme_req, visit>>
platformVars == <<side, statVars, eventVars, limitVars, cacheVars, structureVars, setupVars,
                 scriptVars, themeVars>>

NoStatistics ==
    /\ stat_world = Absent /\ today = Absent /\ view_count = Absent /\ born = Absent
    /\ alive = Absent /\ dedup = Absent /\ visits = Absent /\ buffer = Absent
    /\ draining = Absent /\ daily = Absent /\ flushing = Absent
NoEvents ==
    /\ event_world = Absent /\ stage = Absent /\ inbox = Absent /\ audit_log = Absent
    /\ senders = Absent /\ conn = Absent /\ heard = Absent /\ known = Absent
    /\ jobs = Absent /\ webhooks = Absent /\ streak = Absent
NoLimits ==
    /\ limit_world = Absent /\ limit = Absent /\ store = Absent /\ gate = Absent
    /\ call = Absent /\ asked = Absent /\ admitted = Absent
NoCaches ==
    /\ cache_world = Absent /\ cells = Absent /\ cache_pc = Absent /\ found = Absent
    /\ ahead = Absent /\ fresh = Absent /\ claims = Absent /\ due = Absent
NoStructure ==
    /\ structure_world = Absent /\ cats = Absent /\ topics = Absent /\ tags = Absent
    /\ errand = Absent
NoSetup ==
    /\ setup_world = Absent /\ server = Absent /\ setup_complete = Absent
    /\ setup_lock = Absent /\ run = Absent /\ form = Absent /\ reported = Absent
    /\ accounts = Absent /\ site = Absent
NoScripts ==
    /\ script_world = Absent /\ enabled = Absent /\ turn = Absent /\ current = Absent
    /\ made = Absent /\ let_go = Absent /\ failed = Absent /\ worker = Absent
    /\ queue = Absent /\ running = Absent /\ hand = Absent /\ deed = Absent
    /\ home = Absent /\ told = Absent /\ post = Absent /\ kv = Absent
NoThemes ==
    /\ theme_world = Absent /\ row = Absent /\ dir = Absent /\ tera = Absent
    /\ slug_cache = Absent /\ chain_cache = Absent /\ color_cache = Absent
    /\ preview = Absent /\ refs = Absent /\ theme_pc = Absent /\ theme_req = Absent
    /\ visit = Absent

PlatformInit ==
    /\ side \in {"statistics", "events", "limits", "caches", "structure", "setup",
                "scripts", "themes"}
    /\ IF side = "statistics" THEN Statistics!Init ELSE NoStatistics
    /\ IF side = "events" THEN Events!Init ELSE NoEvents
    /\ IF side = "limits" THEN Limits!Init ELSE NoLimits
    /\ IF side = "caches" THEN Caches!Init ELSE NoCaches
    /\ IF side = "structure" THEN StructureInit ELSE NoStructure
    /\ IF side = "setup" THEN Setup!Init ELSE NoSetup
    /\ IF side = "scripts" THEN Scripts!Init ELSE NoScripts
    /\ IF side = "themes" THEN Themes!Init ELSE NoThemes

PlatformNext ==
    /\ side' = side
    /\ IF side = "statistics" THEN Statistics!Next ELSE UNCHANGED statVars
    /\ IF side = "events" THEN Events!Next ELSE UNCHANGED eventVars
    /\ IF side = "limits" THEN Limits!Next ELSE UNCHANGED limitVars
    /\ IF side = "caches" THEN Caches!Next ELSE UNCHANGED cacheVars
    /\ IF side = "structure" THEN StructureNext ELSE UNCHANGED structureVars
    /\ IF side = "setup" THEN Setup!Next ELSE UNCHANGED setupVars
    /\ IF side = "scripts" THEN Scripts!Next ELSE UNCHANGED scriptVars
    /\ IF side = "themes" THEN Themes!Next ELSE UNCHANGED themeVars

PlatformSpec == PlatformInit /\ [][PlatformNext]_platformVars

(* Views are counted once a day and reported once (see Statistics).        *)
ViewsCounted ==
    side = "statistics" => /\ Statistics!TypeOK
                           /\ Statistics!ViewsCounted /\ Statistics!NoViewOnTwoDays

(* An open connection hears every notice (see Events).                     *)
NoticesHeard == side = "events" => Events!TypeOK /\ Events!NoticesHeard

(* A webhook is disabled for as many failures in a row as it takes (see    *)
(* Events).                                                                *)
DisabledByFailures == [][side = "events" => Events!DisablingStep]_eventVars

(* At most twice the limit is let through under one key in a window, it is *)
(* refused for its own requests only, and whose key it is, is the client's *)
(* to choose in one case only (see RateLimits); a key is claimed once, and *)
(* a sweep leaves none of its prefix (see Caches).                         *)
StoresHold ==
    /\ side = "limits" => /\ Limits!TypeOK
                          /\ Limits!AdmittedBounded /\ Limits!DeniedIsEarned
                          /\ Limits!KeyOfClient
    /\ side = "caches" => Caches!TypeOK /\ Caches!ClaimedOnce /\ Caches!SweptGone

(* Both limiters are the rate windows of RateWindow, the one in Redis if   *)
(* no request stops or lingers between its two commands.                   *)
KeepsWindows == [][side = "limits" => Limits!WindowStep]_limitVars

(* Categories are two levels, every thread is in one of them, and none is  *)
(* left without a post but by a failing call (see Structure).              *)
BoardHolds == side = "structure" => StructureTypeOK /\ StructureHolds

(* A site has one first administrator and example data that agrees with    *)
(* itself (see Setup).                                                     *)
SetupHolds == side = "setup" => Setup!TypeOK /\ Setup!SetupHolds

(* A request is answered by the plugin's handler or by the timer, never by *)
(* a reload, and handlers of one runtime do not interleave (see            *)
(* ScriptRuntime).                                                         *)
CallsHeard ==
    side = "scripts" => Scripts!TypeOK /\ Scripts!CallsHeard /\ Scripts!HandlersSerial

(* Whatever is uploaded, the pages of the default theme are served and the *)
(* engine holds every theme that can be loaded (see Themes).               *)
ThemesHold == side = "themes" => Themes!TypeOK /\ Themes!ThemesHold

-----------------------------------------------------------------------------

Days == {{}, {"missed"}, {"delete"}, {"restart", "error"}, {"raw"}}

Deliveries == {{"clients"}, {"hooks", "restart"}, {"error"}}

Limiter(backend, proxies, real, clients, events) ==
    [backend |-> backend, proxies |-> proxies, real |-> real, clients |-> clients,
     events |-> events]
Limiters == {Limiter("memory", 1, "set", {a1, a2}, {}),
             Limiter("memory", 1, "set", {a1}, {"reconfigure"}),
             Limiter("memory", 1, "removed", {a1}, {"restart"}),
             Limiter("redis", 1, "passed", {a1, a2}, {}),
             Limiter("redis", 0, "set", {a1}, {"slow"}),
             Limiter("redis", 2, "set", {a1}, {"error"})}
Header(xff, readable, real) == [xff |-> xff, readable |-> readable, real |-> real]
Forged == {Header(<<a2>>, TRUE, Nobody), Header(<<a2>>, FALSE, a2)}

Cache(backend, ops) == [backend |-> backend, ops |-> ops]
Stores == {Cache("redis", {"set", "sweep"}), Cache("memory", {"get", "set", "set_nx", "sweep"})}

Founded == {c1 :> s1, c1 :> s1 @@ c2 :> s2}
Boards == {{"categories"}, {"delete", "threads", "moves"}, {"threads", "retag", "refuse"},
           {"threads", "retag", "refuse", "tag_error", "undo_error"},
           {"delete", "threads", "moves", "drop"}}

FirstRun(headless, names, seeds, events) ==
    [headless |-> headless, names |-> names, seeds |-> seeds, events |-> events]
FirstRuns == {FirstRun(Nobody, {root, Alice}, BOOLEAN, {"error"}),
              FirstRun(Nobody, {root}, {TRUE}, {"restart"}),
              FirstRun(root, {root}, {FALSE}, {"error", "restart"})}

Script(calls, deeds, granted, events) ==
    [calls |-> calls, deeds |-> deeds, manifest |-> {"rpc", "http", "api", "db"},
     granted |-> granted, events |-> events]
Natives == {"keep", "fetch", "profile", "notify", "select", "write", "ddl", "deny",
            "nothing", "throw", "missing"}
ScriptsRun == {Script({r1, r2, v1}, {"count"}, {"rpc"}, {"reload"}),
               Script({h1, r1, v1}, {"count"}, {"rpc"}, {"reload"}),
               Script({h1, r1, r2}, {"count", "loop"}, {"rpc"}, {"timeout"}),
               Script({h1, r1}, {"deny", "nothing"}, {"rpc"}, {"reload", "bad_bundle"}),
               Script({h1, r1}, Natives, {"rpc", "api"}, {}),
               Script({r1, v1}, {"count", "fetch", "write"}, {"rpc", "http", "db"}, {"db_error"}),
               Script({r1}, {"count"}, {}, {})}

Dark(slug, parent, pages) ==
    [slug |-> slug, parent |-> parent, scheme |-> dark, pages |-> pages]
Extending(template) == [ok |-> TRUE, needs |-> {template}]
Plain == [ok |-> TRUE, needs |-> {}]
Child == Dark(aspen, birch, base :> Extending(<<birch, base>>))
Sound == Dark(aspen, default, base :> Extending(<<default, base>>))
Parent == Dark(birch, default, base :> Extending(<<default, base>>) @@ extra :> Plain)
Broken == Dark(birch, default, base :> [ok |-> FALSE, needs |-> {}])
BuiltIn == Dark(default, default, base :> [ok |-> FALSE, needs |-> {}])
Packages == {Child, Sound, Parent, Broken, BuiltIn}
Slugs == <<aspen, birch>>

Styling(requests, packages, events) ==
    [requests |-> requests, packages |-> packages, events |-> events]
Stylings == {Styling({"upload", "activate", "delete"}, {Child, Parent}, {}),
             Styling({"upload"}, {Sound, Parent}, {"overlap"}),
             Styling({"upload", "activate"}, {Sound, Parent}, {}),
             Styling({"upload", "activate"}, {BuiltIn, Parent}, {"restart"}),
             Styling({"upload", "activate", "preview"}, {Broken}, {"unknown", "restart"}),
             Styling({"upload"}, {BuiltIn, Parent}, {}),
             Styling({"upload"}, {Parent}, {"root"}),
             Styling({"upload", "delete", "preview"}, {Parent, Broken},
                     {"too_big", "dir_error", "db_error"})}

Symmetry == Permutations(Process)

=============================================================================
