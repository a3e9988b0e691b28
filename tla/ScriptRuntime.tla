------------------------------ MODULE ScriptRuntime ------------------------------
(***************************************************************************)
(* The runtime of one script plugin: a thread of its own that takes        *)
(* messages from a bounded channel and runs the plugin's handlers one at a *)
(* time, and the requests that wait for them.                              *)
(*                                                                         *)
(* Whoever calls the plugin holds the runtime meanwhile; the registry      *)
(* replaces it at a reload, and the last holder's release is what closes   *)
(* the channel.  A request that stops waiting leaves its message behind:   *)
(* it is sent, and handled, all the same.                                  *)
(***************************************************************************)
EXTENDS Naturals, Sequences, FiniteSets

CONSTANTS
    HookCall,      \* before-hooks, each dispatched once
    RpcCall,       \* calls through /api/plugins/:slug/rpc/:action
    AfterEvent,    \* after-events
    Capacity,      \* messages the channel holds (32 in the code)
    MaxRuntimes,   \* bound: runtimes started
    ScriptWorlds,
    Nobody, NoValue, Shutdown

ScriptCall == HookCall \cup RpcCall \cup AfterEvent
Runtime == 1 .. MaxRuntimes

(***************************************************************************)
(* A world: which calls are made, what their handlers do, which            *)
(* capabilities the manifest names and the administrator granted, and what *)
(* may happen: reloads, time-outs, a bundle that does not load, database   *)
(* errors.                                                                 *)
(***************************************************************************)
Deed == {"count", "keep", "fetch", "profile", "notify", "select", "write", "ddl",
         "deny", "nothing", "throw", "missing", "loop"}
Capability == {"rpc", "http", "api", "db"}

ScriptConstants ==
    /\ Capacity \in Nat \ {0} /\ MaxRuntimes \in Nat \ {0}
    /\ HookCall \cap RpcCall = {} /\ AfterEvent \cap (HookCall \cup RpcCall) = {}
    /\ IsFiniteSet(ScriptCall) /\ {Nobody, Shutdown} \cap ScriptCall = {}
    /\ NoValue \notin Nat
    /\ \A x \in ScriptWorlds :
          /\ x.calls \subseteq ScriptCall /\ x.deeds \subseteq Deed
          /\ x.manifest \subseteq Capability /\ x.granted \subseteq Capability
          /\ x.events \subseteq {"reload", "timeout", "bad_bundle", "db_error"}

VARIABLES
    script_world,
    enabled,     \* plugins.status is active
    turn,        \* where the administrator's reload stands
    current,     \* the registry's runtime, 0 for none
    made,        \* runtimes started so far
    let_go,      \* runtimes whose last holder is gone: the sender is dropped
    failed,      \* runtimes whose bundle did not load
    worker, queue, running, hand,      \* by runtime
    deed, home, told, post,            \* by call: what its handler does, its
                                       \* runtime, its caller, its message
    kv           \* a number the plugin keeps in its storage

callVars == <<deed, home, told, post>>
registryVars == <<enabled, turn, current, made>>
scriptVars == <<script_world, registryVars, let_go, failed, worker, queue, running, hand,
                callVars, kv>>

May(event) == event \in script_world.events
Granted == script_world.manifest \cap script_world.granted

Told == {"idle", "found", "waiting", "allow", "deny", "answer", "error", "not_found",
         "forbidden", "timeout", "unheard", "sent"}
Fate == {"none", "sending", "queued", "running", "allow", "deny", "answer", "error",
         "handled", "dropped"}
Over == {"allow", "deny", "answer", "error", "handled", "dropped"}

TypeOK ==
    /\ script_world \in ScriptWorlds
    /\ enabled \in BOOLEAN /\ turn \in {"idle", "remove", "insert"}
    /\ made \in 0 .. MaxRuntimes /\ current \in 0 .. made
    /\ let_go \subseteq 1 .. made /\ failed \subseteq 1 .. made
    /\ worker \in [Runtime -> {"none", "booting", "ready", "running", "ended"}]
    /\ \A g \in Runtime : Len(queue[g]) <= Capacity
    /\ running \in [Runtime -> ScriptCall \cup {Nobody}]
    /\ deed \in [ScriptCall -> Deed] /\ home \in [ScriptCall -> 0 .. made]
    /\ told \in [ScriptCall -> Told] /\ post \in [ScriptCall -> Fate]
    /\ kv \in 0 .. Cardinality(ScriptCall)

Init ==
    /\ script_world \in ScriptWorlds
    /\ enabled = TRUE /\ turn = "idle" /\ current = 1 /\ made = 1
    /\ let_go = {} /\ failed = {}
    /\ worker = [g \in Runtime |-> IF g = 1 THEN "booting" ELSE "none"]
    /\ queue = [g \in Runtime |-> <<>>]
    /\ running = [g \in Runtime |-> Nobody]
    /\ hand = [g \in Runtime |-> NoValue]
    /\ deed = [c \in ScriptCall |-> "missing"]
    /\ home = [c \in ScriptCall |-> 0]
    /\ told = [c \in ScriptCall |-> "idle"]
    /\ post = [c \in ScriptCall |-> "none"]
    /\ kv = 0

-----------------------------------------------------------------------------
(* Holding a runtime.  A hook and an RPC hold it until they are told, the  *)
(* task of an after-event until it has tried to send.                      *)

HeldBy(g) == {c \in ScriptCall : told[c] = "waiting" /\ home[c] = g}

(* Drop: a Shutdown if there is room for it, and the sender is gone.       *)
Closing(g, q) ==
    IF Len(q) < Capacity /\ worker[g] # "ended" THEN Append(q, Shutdown) ELSE q

(* The queue of g becomes q, and c no longer holds g.                      *)
Release(c, g, q) ==
    LET last == current # g /\ HeldBy(g) \subseteq {c}
    IN  /\ queue' = [queue EXCEPT ![g] = IF last THEN Closing(g, q) ELSE q]
        /\ let_go' = IF last THEN let_go \cup {g} ELSE let_go

-----------------------------------------------------------------------------
(* The requests.                                                           *)

(* A call nobody made yet, and what its handler will do.                   *)
Arrives(c) ==
    /\ told[c] = "idle" /\ c \in script_world.calls
    /\ \E d \in script_world.deeds : deed' = [deed EXCEPT ![c] = d]

(* dispatch_before_hook, for the plugin's entry: without a runtime it      *)
(* allows.                                                                 *)
DispatchHook(c) ==
    /\ c \in HookCall /\ Arrives(c)
    /\ told' = [told EXCEPT ![c] = IF current = 0 THEN "allow" ELSE "waiting"]
    /\ post' = [post EXCEPT ![c] = IF current = 0 THEN "none" ELSE "sending"]
    /\ home' = [home EXCEPT ![c] = current]
    /\ UNCHANGED <<script_world, registryVars, let_go, failed, worker, queue, running,
                   hand, kv>>

(* dispatch_rpc reads the row, then looks the runtime up.                  *)
InvokeRpc(c) ==
    /\ c \in RpcCall /\ Arrives(c)
    /\ told' = [told EXCEPT ![c] = IF ~enabled THEN "not_found"
                                   ELSE IF "rpc" \notin Granted THEN "forbidden"
                                   ELSE "found"]
    /\ UNCHANGED <<script_world, registryVars, let_go, failed, worker, queue, running,
                   hand, home, post, kv>>

DispatchRpc(c) ==
    /\ told[c] = "found"
    /\ told' = [told EXCEPT ![c] = IF current = 0 THEN "error" ELSE "waiting"]
    /\ post' = [post EXCEPT ![c] = IF current = 0 THEN "none" ELSE "sending"]
    /\ home' = [home EXCEPT ![c] = current]
    /\ UNCHANGED <<script_world, registryVars, let_go, failed, worker, queue, running,
                   hand, deed, kv>>

(* dispatch_after_event spawns a task, which tries once.                   *)
DispatchEvent(c) ==
    /\ c \in AfterEvent /\ Arrives(c) /\ current # 0
    /\ told' = [told EXCEPT ![c] = "waiting"]
    /\ home' = [home EXCEPT ![c] = current]
    /\ UNCHANGED <<script_world, registryVars, let_go, failed, worker, queue, running,
                   hand, post, kv>>

TrySend(c) ==
    /\ c \in AfterEvent /\ told[c] = "waiting"
    /\ LET g == home[c]
           room == Len(queue[g]) < Capacity /\ worker[g] # "ended"
       IN  /\ post' = [post EXCEPT ![c] = IF room THEN "queued" ELSE "dropped"]
           /\ Release(c, g, IF room THEN Append(queue[g], c) ELSE queue[g])
    /\ told' = [told EXCEPT ![c] = "sent"]
    /\ UNCHANGED <<script_world, registryVars, failed, worker, running, hand, deed, home,
                   kv>>

(* The blocking send, on a thread of its own: it waits for room, and goes  *)
(* on when its caller has given up.                                        *)
Send(c) ==
    /\ post[c] = "sending"
    /\ LET g == home[c]
       IN  IF worker[g] = "ended"
           THEN /\ post' = [post EXCEPT ![c] = "dropped"]
                /\ UNCHANGED queue
           ELSE /\ Len(queue[g]) < Capacity
                /\ post' = [post EXCEPT ![c] = "queued"]
                /\ queue' = [queue EXCEPT ![g] = Append(@, c)]
    /\ UNCHANGED <<script_world, registryVars, let_go, failed, worker, running, hand, deed,
                   home, told, kv>>

(* The caller of a hook or an RPC gets the reply, or learns that there     *)
(* will be none: the hook then allows, the RPC is an error.                *)
Take(c) ==
    /\ c \notin AfterEvent /\ told[c] = "waiting" /\ post[c] \in Over
    /\ told' = [told EXCEPT ![c] = IF post[c] = "dropped" THEN "unheard" ELSE post[c]]
    /\ Release(c, home[c], queue[home[c]])
    /\ UNCHANGED <<script_world, registryVars, failed, worker, running, hand, deed, home,
                   post, kv>>

TimedOut(c) ==
    /\ c \notin AfterEvent /\ told[c] = "waiting" /\ post[c] \notin Over
    /\ May("timeout")
    /\ told' = [told EXCEPT ![c] = "timeout"]
    /\ Release(c, home[c], queue[home[c]])
    /\ UNCHANGED <<script_world, registryVars, failed, worker, running, hand, deed, home,
                   post, kv>>

-----------------------------------------------------------------------------
(* The thread.                                                             *)

(* A thread that ends drops what is still in the channel.                  *)
EndThread(g) ==
    /\ worker' = [worker EXCEPT ![g] = "ended"]
    /\ post' = [c \in ScriptCall |-> IF home[c] = g /\ post[c] = "queued" THEN "dropped"
                               ELSE post[c]]
    /\ queue' = [queue EXCEPT ![g] = <<>>]

StartThread(g) ==
    /\ worker[g] = "booting"
    /\ \/ /\ worker' = [worker EXCEPT ![g] = "ready"]
          /\ UNCHANGED <<failed, post, queue>>
       \/ /\ May("bad_bundle")
          /\ failed' = failed \cup {g}
          /\ EndThread(g)
    /\ UNCHANGED <<script_world, registryVars, let_go, running, hand, deed, home, told, kv>>

Receive(g) ==
    /\ worker[g] = "ready" /\ queue[g] # <<>>
    /\ IF Head(queue[g]) = Shutdown
       THEN EndThread(g) /\ UNCHANGED running
       ELSE /\ worker' = [worker EXCEPT ![g] = "running"]
            /\ running' = [running EXCEPT ![g] = Head(queue[g])]
            /\ post' = [post EXCEPT ![Head(queue[g])] = "running"]
            /\ queue' = [queue EXCEPT ![g] = Tail(@)]
    /\ UNCHANGED <<script_world, registryVars, let_go, failed, hand, deed, home, told, kv>>

(* A thread that waits for a Shutdown and nothing else.                    *)
DisconnectedUnnoticed(g) == FALSE /\ worker[g] = "ready" /\ UNCHANGED scriptVars

(* The channel is empty and nobody is left who could send.                 *)
Disconnected(g) ==
    /\ worker[g] = "ready" /\ queue[g] = <<>> /\ g \in let_go
    /\ \A c \in ScriptCall : ~(home[c] = g /\ post[c] = "sending")
    /\ EndThread(g)
    /\ UNCHANGED <<script_world, registryVars, let_go, failed, running, hand, deed, home,
                   told, kv>>

-----------------------------------------------------------------------------
(* What a handler may ask for, and whether it gets a value or an exception *)
(* (which plugins do not catch).                                           *)

Denied == {"throw"}

(* Configuration, log, cache, hashing, the keys of the storage and         *)
(* deleting one: whatever fails, the plugin is not told.                   *)
Keep == {"value"}

(* http.get and http.post: only to hosts that are both declared and        *)
(* granted; anything that fails is thrown.                                 *)
Fetch == IF "http" \in Granted THEN {"value", "throw"} ELSE Denied

(* forum.getUserPublic: null for an unknown user, and for an error.        *)
GetUserPublic == IF "api" \in Granted THEN {"value"} ELSE Denied

(* forum.createNotification: whether one was created is not told.          *)
CreateNotification == IF "api" \in Granted THEN {"value"} ELSE Denied

(* db.query: one statement that is not on the list, in the plugin's schema *)
(* and a transaction of its own.                                           *)
ValidatePluginSql(statement) == statement # "ddl"
Query(statement) ==
    IF ~ValidatePluginSql(statement) THEN Denied
    ELSE IF May("db_error") THEN {"value", "throw"} ELSE {"value"}
DbQuery(statement) == IF "db" \in Granted THEN Query(statement) ELSE Denied

Outcomes(d) ==
    CASE d = "fetch" -> Fetch
      [] d = "profile" -> GetUserPublic
      [] d = "notify" -> CreateNotification
      [] d \in {"select", "write", "ddl"} -> DbQuery(d)
      [] d = "throw" -> {"throw"}
      [] OTHER -> Keep

(* What the reply to a hook, to an RPC and to an event is.  Hooks fail     *)
(* open, RPC does not.                                                     *)
Decision(d) == IF d = "deny" THEN "deny" ELSE "allow"
HookReply(d, outcome) == IF outcome = "value" THEN Decision(d) ELSE "allow"
RpcReply(d, outcome) ==
    IF outcome = "throw" \/ d \in {"missing", "nothing", "deny"} THEN "error" ELSE "answer"
Reply(c, outcome) ==
    IF c \in HookCall THEN HookReply(deed[c], outcome)
    ELSE IF c \in RpcCall THEN RpcReply(deed[c], outcome) ELSE "handled"

Handled(g, outcome) ==
    /\ worker' = [worker EXCEPT ![g] = "ready"]
    /\ running' = [running EXCEPT ![g] = Nobody]
    /\ hand' = [hand EXCEPT ![g] = NoValue]
    /\ post' = [post EXCEPT ![running[g]] = Reply(running[g], outcome)]

(* A handler that counts: storage.get, then storage.set.  An error of the  *)
(* first reads as null, one of the second goes unnoticed.                  *)
StorageGet(g) ==
    /\ running[g] # Nobody /\ deed[running[g]] = "count" /\ hand[g] = NoValue
    /\ \/ hand' = [hand EXCEPT ![g] = kv]
       \/ May("db_error") /\ hand' = [hand EXCEPT ![g] = 0]
    /\ UNCHANGED <<script_world, registryVars, let_go, failed, worker, queue, running,
                   callVars, kv>>

StorageSet(g) ==
    /\ running[g] # Nobody /\ deed[running[g]] = "count" /\ hand[g] # NoValue
    /\ \/ kv' = hand[g] + 1
       \/ May("db_error") /\ UNCHANGED kv
    /\ Handled(g, "value")
    /\ UNCHANGED <<script_world, registryVars, let_go, failed, queue, deed, home, told>>

(* Any other handler, in one step; one that loops does not end.            *)
RunHandler(g) ==
    /\ running[g] # Nobody /\ deed[running[g]] \notin {"count", "loop"}
    /\ \E outcome \in Outcomes(deed[running[g]]) : Handled(g, outcome)
    /\ UNCHANGED <<script_world, registryVars, let_go, failed, queue, deed, home, told, kv>>

-----------------------------------------------------------------------------
(* reload_plugin, after the administrator changed the plugin's row.        *)

Change ==
    /\ May("reload") /\ turn = "idle" /\ made < MaxRuntimes
    /\ enabled' \in BOOLEAN
    /\ turn' = "remove"
    /\ UNCHANGED <<script_world, current, made, let_go, failed, worker, queue, running,
                   hand, callVars, kv>>

(* A registry that stops the runtime it removes, whoever holds it.         *)
RemoveRuntimeHasty ==
    /\ turn = "remove"
    /\ \A c \in HookCall : told[c] # "waiting"
    /\ turn' = "insert" /\ current' = 0
    /\ IF current # 0
       THEN /\ queue' = [queue EXCEPT ![current] = Closing(current, @)]
            /\ let_go' = let_go \cup {current}
       ELSE UNCHANGED <<queue, let_go>>
    /\ UNCHANGED <<script_world, enabled, made, failed, worker, running, hand, callVars, kv>>

(* The removal waits for hooks, whose look-up is still locked.             *)
RemoveRuntime ==
    /\ turn = "remove"
    /\ \A c \in HookCall : told[c] # "waiting"
    /\ turn' = "insert" /\ current' = 0
    /\ IF current # 0 /\ HeldBy(current) = {}
       THEN /\ queue' = [queue EXCEPT ![current] = Closing(current, @)]
            /\ let_go' = let_go \cup {current}
       ELSE UNCHANGED <<queue, let_go>>
    /\ UNCHANGED <<script_world, enabled, made, failed, worker, running, hand, callVars, kv>>

NewRuntime(g) ==
    /\ made' = g /\ current' = g
    /\ worker' = [worker EXCEPT ![g] = "booting"]

(* A bundle that cannot be read leaves the plugin in status error.         *)
InsertRuntime ==
    /\ turn = "insert"
    /\ turn' = "idle"
    /\ \/ enabled /\ NewRuntime(made + 1) /\ UNCHANGED enabled
       \/ /\ enabled => May("bad_bundle")
          /\ enabled' = FALSE
          /\ UNCHANGED <<made, current, worker>>
    /\ UNCHANGED <<script_world, let_go, failed, queue, running, hand, callVars, kv>>

Run(g) == StartThread(g) \/ Receive(g) \/ Disconnected(g) \/ StorageGet(g) \/ StorageSet(g)
            \/ RunHandler(g)
Request(c) == DispatchHook(c) \/ InvokeRpc(c) \/ DispatchRpc(c) \/ DispatchEvent(c)
Answer(c) == TrySend(c) \/ Send(c) \/ Take(c) \/ TimedOut(c)

Next ==
    \/ \E c \in ScriptCall : Request(c) \/ Answer(c)
    \/ \E g \in Runtime : Run(g)
    \/ Change \/ RemoveRuntime \/ InsertRuntime

Spec == Init /\ [][Next]_scriptVars

Progress ==
    \/ \E c \in ScriptCall : DispatchRpc(c) \/ Answer(c)
    \/ \E g \in Runtime : Run(g)

(* The threads run, a task that is ready is polled, and the timer fires.   *)
(* One weak fairness for all of them is enough: a call is made once, so    *)
(* that there is only so much to do.                                       *)
FairSpec == Spec /\ WF_scriptVars(Progress)

-----------------------------------------------------------------------------

(* A request that waits is answered by its handler or by the timer: only   *)
(* when the bundle did not load does it find the channel closed, however   *)
(* the plugin is reloaded meanwhile.  (execute_hook and execute_rpc keep   *)
(* the runtime; a hook that is not heard would be allowed.)                *)
CallsHeard == \A c \in ScriptCall : told[c] = "unheard" => home[c] \in failed

(* Handlers of one runtime do not interleave: what they count adds up.     *)
HandlersSerial ==
    made = 1 /\ ~May("db_error") =>
        kv = Cardinality({c \in ScriptCall : deed[c] = "count" /\ post[c] \in Over \ {"dropped"}})

(* A request that dispatched to the plugin is told something: with the     *)
(* timer on, even if the handler never ends.                               *)
Waiting == {c \in ScriptCall : told[c] = "waiting"}
CallsReturn == []<>(May("timeout") => Waiting = {})

(* The thread of a runtime that was let go ends, unless it is caught in a  *)
(* handler: also when there was no room for the Shutdown, and messages of  *)
(* requests that gave up come late.                                        *)
Caught(g) == running[g] # Nobody /\ deed[running[g]] = "loop"
Lingering == {g \in let_go : worker[g] # "ended" /\ ~Caught(g)}
RuntimesEnd == []<>(Lingering = {})

=============================================================================
