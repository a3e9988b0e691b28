----------------------------- MODULE MCHookDispatch -----------------------------
(***************************************************************************)
(* What the liveness of plugins rests on: what before-hook calls record in *)
(* the circuit breaker, what they and the reloads hold of the worker       *)
(* threads, the plugin's own thread and its channel, and uninstallations   *)
(* that overlap other requests.  The sides share no state, so a behaviour  *)
(* is about one of them and the others stay as they began.                 *)
(***************************************************************************)
EXTENDS CircuitBreaker, TLC

CONSTANTS Worker, Hook, Reload,
          HookCall, RpcCall, AfterEvent, Capacity, MaxRuntimes, ScriptWorlds,
          Nobody, NoValue, Shutdown,
          Plugin, Admin, Config, Tier, MaxWebhooks, Environments, NoPlugin, NoConfig,
          h1, r1, e1                                             \* model values

VARIABLES hook, reload,
          script_world, enabled, turn, current, made, let_go, failed, worker, queue,
          running, hand, deed, home, told, post, kv,
          environment, status, config, hooks, slots, webhooks, files, table, runtime,
          plugin_pc, plugin_req,
          side

W == INSTANCE HookWorkers
R == INSTANCE ScriptRuntime
L == INSTANCE PluginLifecycle WITH dispatch <- table, pc <- plugin_pc, req <- plugin_req

ASSUME R!ScriptConstants

workerVars == <<hook, reload>>
scriptVars == <<script_world, enabled, turn, current, made, let_go, failed, worker, queue,
                running, hand, deed, home, told, post, kv>>
pluginVars == <<environment, status, config, hooks, slots, webhooks, files, table,
                runtime, plugin_pc, plugin_req>>
dispatchVars == <<vars, workerVars, scriptVars, pluginVars, side>>

DispatchInit ==
    /\ Init /\ W!Init /\ R!Init /\ L!Init
    /\ side \in {"breaker", "workers", "scripts", "plugins"}
    /\ side # "scripts" => script_world = CHOOSE x \in ScriptWorlds : TRUE

DispatchNext ==
    /\ side' = side
    /\ \/ side = "breaker" /\ Next /\ UNCHANGED <<workerVars, scriptVars, pluginVars>>
       \/ side = "workers" /\ W!Next /\ UNCHANGED <<vars, scriptVars, pluginVars>>
       \/ side = "scripts" /\ R!Next /\ UNCHANGED <<vars, workerVars, pluginVars>>
       \/ side = "plugins" /\ L!Next /\ UNCHANGED <<vars, workerVars, scriptVars>>

DispatchSpec == DispatchInit /\ [][DispatchNext]_dispatchVars

OnBreaker(A) == side = "breaker" /\ A
OnWorkers(A) == side = "workers" /\ A
OnScripts(A) == side = "scripts" /\ A
OnPlugins(A) == side = "plugins" /\ A

(* The fairness of CircuitBreaker, HookWorkers, ScriptRuntime and          *)
(* PluginLifecycle.                                                        *)
FairDispatchSpec ==
    /\ DispatchSpec
    /\ WF_vars(OnBreaker(Tick))
    /\ \A c \in Call : WF_vars(OnBreaker(Return(c))) /\ WF_vars(OnBreaker(Record(c)))
    /\ \A h \in Hook : /\ WF_workerVars(OnWorkers(W!Timeout(h)))
                       /\ WF_workerVars(OnWorkers(W!Return(h)))
    /\ \A r \in Reload : WF_workerVars(OnWorkers(W!Removed(r)))
    /\ WF_scriptVars(OnScripts(R!Progress))
    /\ \A a \in Admin : WF_pluginVars(OnPlugins(L!Step(a)))

(* A request that dispatches a before-hook gets its turn back, whatever    *)
(* the plugin does and however often administrators reload it: "the forum  *)
(* always stays up"; and so does an RPC (see HookWorkers, ScriptRuntime).  *)
HookReturns == W!HookReturns /\ R!CallsReturn

(* The thread of a runtime that was replaced ends (see ScriptRuntime).     *)
RuntimesEnd == R!RuntimesEnd

(* An uninstallation that has begun removes the plugin, even if its schema *)
(* cannot be dropped and whatever other requests do meanwhile (see         *)
(* PluginLifecycle).                                                       *)
UninstallCompletes == L!UninstallCompletes

-----------------------------------------------------------------------------

Script(calls, deeds, granted, events) ==
    [calls |-> calls, deeds |-> deeds, manifest |-> {"rpc", "http", "api", "db"},
     granted |-> granted, events |-> events]
Scripts == {Script({r1, e1}, {"count", "loop"}, {"rpc"}, {"reload", "timeout"}),
            Script({h1, r1}, {"deny", "loop"}, {"rpc"}, {"timeout"})}

ScriptPlugin == [p \in Plugin |-> "script"]
Overlapping == {{"overlap", "schema_error"}}

=============================================================================
