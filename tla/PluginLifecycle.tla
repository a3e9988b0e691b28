----------------------------- MODULE PluginLifecycle -----------------------------
(***************************************************************************)
(* Installing, configuring, activating, deactivating and uninstalling one  *)
(* plugin, and what the registry holds of it in memory: the entries of the *)
(* hook dispatch table and the script runtime.                             *)
(*                                                                         *)
(* Sources: PluginUseCase, the install handler, PluginRegistry and their   *)
(* repositories.  All requests concern one slug; a row of the plugins      *)
(* table is one installation of it, from a package of one of two tiers.    *)
(* Its manifest declares one of each of what its tier may declare: a hook  *)
(* (script), a webhook (manifest), a UI slot (both), and a database        *)
(* schema.  Every database call is a step; code between two awaits is one. *)
(***************************************************************************)
EXTENDS Naturals, FiniteSets

CONSTANTS
    Plugin,        \* installations: a bound on how many there are
    Admin,         \* requests in flight
    Config,        \* configurations an administrator can save
    Tier,          \* the tier of each installation's package
    MaxWebhooks,   \* bound: no activation starts with more webhooks than this
    Environments,  \* the environments a behaviour may have
    NoPlugin, NoConfig

(***************************************************************************)
(* An environment is the set of what may happen:                           *)
(*   overlap        requests may be in flight together                     *)
(*   early          requests may concern a plugin still being installed    *)
(*   reinstall      a package may be uploaded for an installed slug        *)
(*   db_error       a database call may fail                               *)
(*   schema_error   provisioning or dropping the schema may fail           *)
(*   bad_bundle     the script may fail to load                            *)
(*   restart        the process may restart                                *)
(***************************************************************************)
Disturbance == {"overlap", "early", "reinstall", "db_error", "schema_error",
                "bad_bundle", "restart"}

ASSUME PluginConstants ==
    /\ Tier \in [Plugin -> {"manifest", "script"}]
    /\ MaxWebhooks \in Nat
    /\ Environments \subseteq SUBSET Disturbance
    /\ NoPlugin \notin Plugin /\ NoConfig \notin Config

VARIABLES
    environment,  \* chosen once
    status,    \* plugins.status; "none" before the row, "gone" after it
    config,    \* plugins.config
    hooks,     \* rows of plugin_hooks, by plugin
    slots,     \* rows of plugin_ui_slots, by plugin
    webhooks,  \* rows of webhooks owned by the plugin
    files,     \* whether plugins_dir/slug exists
    dispatch,  \* entries of the dispatch table, by plugin
    runtime,   \* the configuration the script runtime was started with
    pc,
    req

db == <<status, config, hooks, slots, webhooks>>
registry == <<dispatch, runtime>>
vars == <<environment, status, config, hooks, slots, webhooks, files,
          dispatch, runtime, pc, req>>

Status == {"installing", "inactive", "active", "error", "uninstalling"}
Operation == {"none", "install", "activate", "deactivate", "configure", "uninstall"}
Request == [op: Operation, plugin: Plugin \cup {NoPlugin}, config: Config \cup {NoConfig},
            status: Status \cup {"none"}, hooks: Nat]
NoRequest == [op |-> "none", plugin |-> NoPlugin, config |-> NoConfig,
              status |-> "none", hooks |-> 0]

(* Where a request stands, by what it does next. *)
Control == {"idle", "register", "create", "provision", "unprovisioned", "registered",
            "confirm", "delete_hooks", "create_hook", "delete_slots", "create_slot",
            "create_webhook", "set_active", "set_activated_at", "find", "read_hooks",
            "table", "runtime", "mark_error", "set_inactive", "delete_webhooks",
            "drop_slots", "configure", "set_uninstalling", "drop_schema", "delete_row"}

TypeOK ==
    /\ environment \in Environments
    /\ status \in [Plugin -> Status \cup {"none", "gone"}]
    /\ config \in [Plugin -> Config \cup {NoConfig}]
    /\ hooks \in [Plugin -> Nat]
    /\ slots \in [Plugin -> Nat]
    /\ webhooks \in [Plugin -> Nat]
    /\ files \in BOOLEAN
    /\ dispatch \in [Plugin -> Nat]
    /\ runtime \in [Plugin -> Config \cup {NoConfig, "none"}]
    /\ pc \in [Admin -> Control]
    /\ req \in [Admin -> Request]

Init ==
    /\ environment \in Environments
    /\ status = [p \in Plugin |-> "none"]
    /\ config = [p \in Plugin |-> NoConfig]
    /\ hooks = [p \in Plugin |-> 0]
    /\ slots = [p \in Plugin |-> 0]
    /\ webhooks = [p \in Plugin |-> 0]
    /\ files = FALSE
    /\ dispatch = [p \in Plugin |-> 0]
    /\ runtime = [p \in Plugin |-> "none"]
    /\ pc = [a \in Admin |-> "idle"]
    /\ req = [a \in Admin |-> NoRequest]

-----------------------------------------------------------------------------

Row == {p \in Plugin : status[p] \in Status}
Its(a) == req[a].plugin

Begin(a, label, r) ==
    /\ pc[a] = "idle"
    /\ "overlap" \in environment \/ \A b \in Admin : pc[b] = "idle"
    /\ pc' = [pc EXCEPT ![a] = label]
    /\ req' = [req EXCEPT ![a] = r]

(* A plugin the administrator finds in the list. *)
Listed(p) ==
    /\ p \in Row
    /\ \/ "early" \in environment
       \/ \A b \in Admin : ~(req[b].op = "install" /\ req[b].plugin = p)

Goto(a, label) == pc' = [pc EXCEPT ![a] = label] /\ UNCHANGED req

Finish(a) ==
    /\ pc' = [pc EXCEPT ![a] = "idle"]
    /\ req' = [req EXCEPT ![a] = NoRequest]

(* A database call that changes a row of the plugin and goes on, or ends   *)
(* the request because the row is gone.                                    *)
OnRow(a, label, change) ==
    IF Its(a) \in Row THEN change /\ Goto(a, label)
                      ELSE UNCHANGED db /\ Finish(a)

SetStatus(p, s) ==
    /\ status' = [status EXCEPT ![p] = s]
    /\ UNCHANGED <<environment, config, hooks, slots, webhooks>>

SetRows(h, s, w) ==
    /\ hooks' = h
    /\ slots' = s
    /\ webhooks' = w
    /\ UNCHANGED <<environment, status, config>>

-----------------------------------------------------------------------------
(* install_plugin and register_extracted.  When the registration fails the *)
(* handler removes the directory it extracted.                             *)

Extract(a) ==
    /\ "reinstall" \in environment \/ Row = {}
    /\ Begin(a, "register", [NoRequest EXCEPT !.op = "install"])
    /\ files' = TRUE
    /\ UNCHANGED <<environment, db, registry>>

(* A slug that is taken is a conflict: find_by_slug first, then the unique *)
(* key at the insertion.                                                   *)
Register(a) ==
    /\ pc[a] = "register"
    /\ IF Row = {} THEN Goto(a, "create") /\ UNCHANGED files
                   ELSE Finish(a) /\ files' = FALSE
    /\ UNCHANGED <<environment, db, registry>>

Create(a) ==
    /\ pc[a] = "create"
    /\ \/ /\ Row = {}
          /\ \E p \in Plugin :
                /\ status[p] = "none"
                /\ SetStatus(p, "installing")
                /\ req' = [req EXCEPT ![a].plugin = p]
          /\ pc' = [pc EXCEPT ![a] = "provision"]
          /\ UNCHANGED files
       \/ /\ Row # {}
          /\ UNCHANGED db
          /\ Finish(a)
          /\ files' = FALSE
    /\ UNCHANGED <<environment, registry>>

Provision(a) ==
    /\ pc[a] = "provision"
    /\ \/ Goto(a, "registered")
       \/ "schema_error" \in environment /\ Goto(a, "unprovisioned")
    /\ UNCHANGED <<environment, db, files, registry>>

Unprovisioned(a) ==
    /\ pc[a] = "unprovisioned"
    /\ IF Its(a) \in Row THEN SetStatus(Its(a), "error") ELSE UNCHANGED db
    /\ files' = FALSE
    /\ Finish(a)
    /\ UNCHANGED <<environment, registry>>

Registered(a) ==
    /\ pc[a] = "registered"
    /\ IF Its(a) \in Row
       THEN SetStatus(Its(a), "inactive") /\ Goto(a, "confirm") /\ UNCHANGED files
       ELSE UNCHANGED db /\ Finish(a) /\ files' = FALSE
    /\ UNCHANGED <<environment, registry>>

(* The plugin as registered is read back for the answer. *)
Confirm(a) ==
    /\ pc[a] = "confirm"
    /\ files' = (files /\ Its(a) \in Row)
    /\ Finish(a)
    /\ UNCHANGED <<environment, db, registry>>

-----------------------------------------------------------------------------
(* activate: the rows the manifest declares, then the status. *)

BeginActivate(a, p) ==
    /\ Listed(p) /\ status[p] # "active" /\ webhooks[p] <= MaxWebhooks
    /\ Begin(a, IF Tier[p] = "script" THEN "delete_hooks" ELSE "delete_slots",
             [NoRequest EXCEPT !.op = "activate", !.plugin = p])
    /\ UNCHANGED <<environment, db, files, registry>>

DeleteHooks(a) ==
    /\ pc[a] = "delete_hooks"
    /\ SetRows([hooks EXCEPT ![Its(a)] = 0], slots, webhooks)
    /\ Goto(a, "create_hook")
    /\ UNCHANGED <<environment, files, registry>>

CreateHook(a) ==
    /\ pc[a] = "create_hook"
    /\ OnRow(a, "delete_slots",
             SetRows([hooks EXCEPT ![Its(a)] = @ + 1], slots, webhooks))
    /\ UNCHANGED <<environment, files, registry>>

DeleteSlots(a) ==
    /\ pc[a] = "delete_slots"
    /\ SetRows(hooks, [slots EXCEPT ![Its(a)] = 0], webhooks)
    /\ Goto(a, "create_slot")
    /\ UNCHANGED <<environment, files, registry>>

CreateSlot(a) ==
    /\ pc[a] = "create_slot"
    /\ OnRow(a, IF Tier[Its(a)] = "manifest" THEN "create_webhook" ELSE "set_active",
             SetRows(hooks, [slots EXCEPT ![Its(a)] = @ + 1], webhooks))
    /\ UNCHANGED <<environment, files, registry>>

CreateWebhook(a) ==
    /\ pc[a] = "create_webhook"
    /\ OnRow(a, "set_active",
             SetRows(hooks, slots, [webhooks EXCEPT ![Its(a)] = @ + 1]))
    /\ UNCHANGED <<environment, files, registry>>

(* An activation that forgets to refresh the registry. *)
SetActiveOnly(a) ==
    /\ pc[a] = "set_active"
    /\ OnRow(a, "idle", SetStatus(Its(a), "active"))
    /\ UNCHANGED <<environment, files, registry>>

SetActive(a) ==
    /\ pc[a] = "set_active"
    /\ OnRow(a, "set_activated_at", SetStatus(Its(a), "active"))
    /\ UNCHANGED <<environment, files, registry>>

(* The time of activation, on a row that may be gone. *)
SetActivatedAt(a) ==
    /\ pc[a] = "set_activated_at"
    /\ Goto(a, "find")
    /\ UNCHANGED <<environment, db, files, registry>>

-----------------------------------------------------------------------------
(* deactivate: the status, then the webhooks and the slots. *)

BeginDeactivate(a, p) ==
    /\ Listed(p)
    /\ Begin(a, "set_inactive", [NoRequest EXCEPT !.op = "deactivate", !.plugin = p])
    /\ UNCHANGED <<environment, db, files, registry>>

SetInactive(a) ==
    /\ pc[a] = "set_inactive"
    /\ OnRow(a, "delete_webhooks", SetStatus(Its(a), "inactive"))
    /\ UNCHANGED <<environment, files, registry>>

(* A deactivation that leaves the webhooks alone. *)
KeepWebhooks(a) ==
    /\ pc[a] = "delete_webhooks"
    /\ UNCHANGED db
    /\ Goto(a, "drop_slots")
    /\ UNCHANGED <<environment, files, registry>>

DeleteWebhooks(a) ==
    /\ pc[a] = "delete_webhooks"
    /\ SetRows(hooks, slots, [webhooks EXCEPT ![Its(a)] = 0])
    /\ Goto(a, "drop_slots")
    /\ UNCHANGED <<environment, files, registry>>

DropSlots(a) ==
    /\ pc[a] = "drop_slots"
    /\ SetRows(hooks, [slots EXCEPT ![Its(a)] = 0], webhooks)
    /\ Goto(a, "find")
    /\ UNCHANGED <<environment, files, registry>>

-----------------------------------------------------------------------------
(* configure *)

BeginConfigure(a, p, c) ==
    /\ Listed(p)
    /\ Begin(a, "configure",
             [NoRequest EXCEPT !.op = "configure", !.plugin = p, !.config = c])
    /\ UNCHANGED <<environment, db, files, registry>>

UpdateConfig(a) ==
    /\ pc[a] = "configure"
    /\ OnRow(a, "find",
             /\ config' = [config EXCEPT ![Its(a)] = req[a].config]
             /\ UNCHANGED <<status, hooks, slots, webhooks>>)
    /\ UNCHANGED <<environment, files, registry>>

-----------------------------------------------------------------------------
(* uninstall *)

BeginUninstall(a, p) ==
    /\ Listed(p)
    /\ Begin(a, "set_uninstalling", [NoRequest EXCEPT !.op = "uninstall", !.plugin = p])
    /\ UNCHANGED <<environment, db, files, registry>>

SetUninstalling(a) ==
    /\ pc[a] = "set_uninstalling"
    /\ OnRow(a, "find", SetStatus(Its(a), "uninstalling"))
    /\ UNCHANGED <<environment, files, registry>>

(* An uninstallation that gives up when the schema cannot be dropped. *)
DropSchemaOrStop(a) ==
    /\ pc[a] = "drop_schema"
    /\ \/ Goto(a, "delete_row")
       \/ "schema_error" \in environment /\ Finish(a)
    /\ UNCHANGED <<environment, db, files, registry>>

DropSchema(a) ==
    /\ pc[a] = "drop_schema"
    /\ Goto(a, "delete_row")
    /\ UNCHANGED <<environment, db, files, registry>>

(* ON DELETE CASCADE takes the plugin's other rows along. *)
Cascade(p) ==
    /\ status' = [status EXCEPT ![p] = "gone"]
    /\ hooks' = [hooks EXCEPT ![p] = 0]
    /\ slots' = [slots EXCEPT ![p] = 0]
    /\ webhooks' = [webhooks EXCEPT ![p] = 0]
    /\ UNCHANGED config

(* An uninstallation that leaves the directory. *)
DeleteRowOnly(a) ==
    /\ pc[a] = "delete_row"
    /\ IF Its(a) \in Row THEN Cascade(Its(a)) ELSE UNCHANGED db
    /\ Finish(a)
    /\ UNCHANGED <<environment, files, registry>>

(* The directory is removed in the same breath. *)
DeleteRow(a) ==
    /\ pc[a] = "delete_row"
    /\ IF Its(a) \in Row THEN Cascade(Its(a)) ELSE UNCHANGED db
    /\ files' = FALSE
    /\ Finish(a)
    /\ UNCHANGED <<environment, registry>>

-----------------------------------------------------------------------------
(* reload_plugin: what it reads first is what it puts into the table and   *)
(* starts the runtime with.                                                *)

Reloaded(a) == IF req[a].op = "uninstall" THEN Goto(a, "drop_schema") ELSE Finish(a)

Find(a) ==
    /\ pc[a] = "find"
    /\ IF Its(a) \in Row
       THEN /\ req' = [req EXCEPT ![a].status = status[Its(a)],
                                  ![a].config = config[Its(a)]]
            /\ pc' = [pc EXCEPT ![a] = IF status[Its(a)] = "active" THEN "read_hooks"
                                                                   ELSE "table"]
       ELSE Reloaded(a)
    /\ UNCHANGED <<environment, db, files, registry>>

ReadHooks(a) ==
    /\ pc[a] = "read_hooks"
    /\ req' = [req EXCEPT ![a].hooks = hooks[Its(a)]]
    /\ pc' = [pc EXCEPT ![a] = "table"]
    /\ UNCHANGED <<environment, db, files, registry>>

(* A reload that adds to the table what it should replace. *)
AddToTable(a) ==
    /\ pc[a] = "table"
    /\ dispatch' = [dispatch EXCEPT ![Its(a)] = @ + req[a].hooks]
    /\ Goto(a, "runtime")
    /\ UNCHANGED <<environment, db, files, runtime>>

Table(a) ==
    /\ pc[a] = "table"
    /\ dispatch' = [dispatch EXCEPT ![Its(a)] = req[a].hooks]
    /\ Goto(a, "runtime")
    /\ UNCHANGED <<environment, db, files, runtime>>

Wanted(a) == req[a].status = "active" /\ Tier[Its(a)] = "script"

Runtime(a) ==
    /\ pc[a] = "runtime"
    /\ \/ /\ ~Wanted(a)
          /\ runtime' = [runtime EXCEPT ![Its(a)] = "none"]
          /\ Reloaded(a)
       \/ /\ Wanted(a) /\ files
          /\ runtime' = [runtime EXCEPT ![Its(a)] = req[a].config]
          /\ Reloaded(a)
       \/ /\ Wanted(a) /\ (~files \/ "bad_bundle" \in environment)
          /\ runtime' = [runtime EXCEPT ![Its(a)] = "none"]
          /\ Goto(a, "mark_error")
    /\ UNCHANGED <<environment, db, files, dispatch>>

MarkError(a) ==
    /\ pc[a] = "mark_error"
    /\ IF Its(a) \in Row THEN SetStatus(Its(a), "error") ELSE UNCHANGED db
    /\ Reloaded(a)
    /\ UNCHANGED <<environment, files, registry>>

-----------------------------------------------------------------------------

(* A failed call ends the request; an installation removes its directory.  *)
(* A failed read ends the reload only, and a failure to record an error is *)
(* ignored.                                                                *)
DbError(a) ==
    /\ "db_error" \in environment
    /\ \/ /\ pc[a] \in {"register", "create", "registered", "confirm",
                        "unprovisioned"}
          /\ files' = FALSE
          /\ Finish(a)
       \/ /\ pc[a] \in {"delete_hooks", "create_hook", "delete_slots", "create_slot",
                        "create_webhook", "set_active", "set_activated_at", "set_inactive",
                        "delete_webhooks", "drop_slots", "configure",
                        "set_uninstalling", "delete_row"}
          /\ UNCHANGED files
          /\ Finish(a)
       \/ /\ pc[a] \in {"find", "read_hooks", "mark_error"}
          /\ UNCHANGED files
          /\ Reloaded(a)
    /\ UNCHANGED <<environment, db, registry>>

(* load_from_db at startup; a runtime that does not start is only logged. *)
Restart ==
    /\ "restart" \in environment
    /\ dispatch' = [p \in Plugin |-> IF status[p] = "active" THEN hooks[p] ELSE 0]
    /\ runtime' = [p \in Plugin |-> IF status[p] = "active" /\ Tier[p] = "script" /\ files
                                    THEN config[p] ELSE "none"]
    /\ pc' = [a \in Admin |-> "idle"]
    /\ req' = [a \in Admin |-> NoRequest]
    /\ UNCHANGED <<environment, db, files>>

Step(a) ==
    \/ Register(a) \/ Create(a) \/ Provision(a) \/ Unprovisioned(a)
    \/ Registered(a) \/ Confirm(a)
    \/ DeleteHooks(a) \/ CreateHook(a) \/ DeleteSlots(a) \/ CreateSlot(a)
    \/ CreateWebhook(a) \/ SetActive(a) \/ SetActivatedAt(a)
    \/ SetInactive(a) \/ DeleteWebhooks(a) \/ DropSlots(a)
    \/ UpdateConfig(a)
    \/ SetUninstalling(a) \/ DropSchema(a) \/ DeleteRow(a)
    \/ Find(a) \/ ReadHooks(a) \/ Table(a) \/ Runtime(a) \/ MarkError(a)

Next ==
    \/ \E a \in Admin :
        \/ Extract(a) \/ Step(a) \/ DbError(a)
        \/ \E p \in Plugin :
            \/ BeginActivate(a, p) \/ BeginDeactivate(a, p) \/ BeginUninstall(a, p)
            \/ \E c \in Config : BeginConfigure(a, p, c)
    \/ Restart

Spec == Init /\ [][Next]_vars

(* A started handler is polled until it returns. *)
FairSpec == Spec /\ \A a \in Admin : WF_vars(Step(a))

-----------------------------------------------------------------------------

Quiet == \A a \in Admin : pc[a] = "idle"
Only(allowed) == environment \subseteq allowed
Without(excluded) == environment \cap excluded = {}
Script(p) == Tier[p] = "script"

(* Between requests that come one at a time, and after every restart, the  *)
(* dispatch table has a script plugin's hook once while the plugin is      *)
(* active and not at all while it is not, and its runtime works with the   *)
(* configuration that was saved last: what reload_plugin is for.           *)
RegistryFollowsRow ==
    (Only({"restart"}) \/ Only({"schema_error"})) /\ Quiet =>
        \A p \in Plugin :
            /\ status[p] = "active" /\ Script(p) => dispatch[p] = 1
            /\ status[p] \notin {"active", "error"} => dispatch[p] = 0
            /\ runtime[p] = IF status[p] = "active" /\ Script(p)
                            THEN config[p] ELSE "none"

(* A manifest plugin's webhook is registered once while it is active, and  *)
(* not at all while it is not: events are delivered once or not at all.    *)
WebhooksFollowStatus ==
    Only({"schema_error"}) /\ Quiet =>
        \A p \in Plugin :
            webhooks[p] = IF status[p] = "active" /\ ~Script(p) THEN 1 ELSE 0

(* register_hooks_from_manifest says activating again is idempotent: a     *)
(* hook is never in the table twice, and so never run twice for one event, *)
(* whichever calls failed before.                                          *)
HookOnceEver == \A p \in Plugin : dispatch[p] <= 1
HookOnce == Without({"overlap"}) => HookOnceEver

(* Without a plugin there is no plugin directory between requests,         *)
(* whichever call failed and however requests overlapped: only a restart   *)
(* in the middle of an installation leaves one behind.                     *)
NoStrayFiles ==
    Without({"restart"}) /\ Quiet /\ Row = {} => ~files

(* An uninstallation that has begun removes the plugin, even if its schema *)
(* cannot be dropped and whatever other requests do meanwhile.             *)
UninstallCompletes ==
    Without({"db_error", "restart"}) =>
        \A p \in Plugin : status[p] = "uninstalling" ~> status[p] = "gone"

(* deactivate says the reload is sufficient to stop dispatch: a plugin     *)
(* that is inactive between requests is not dispatched.                    *)
InactiveIsSilent ==
    Quiet => \A p \in Plugin : status[p] = "inactive" => dispatch[p] = 0

(* uninstall says the hooks stop being dispatched before the row goes.     *)
GoneIsSilent ==
    Quiet => \A p \in Plugin : status[p] = "gone" => dispatch[p] = 0

(* remove_plugin_dir says the directory is removed during uninstall: a     *)
(* plugin that is installed and ready has its files.                       *)
InstalledHasFiles ==
    Quiet => \A p \in Plugin : status[p] \in {"inactive", "active"} => files

=============================================================================
