--------------------------- MODULE PluginLifecycleProof ---------------------------
(***************************************************************************)
(* Proofs about PluginLifecycle, for any number of installations, requests *)
(* and configurations, any tiers and any set of environments, and about    *)
(* Packages, for any archives, slugs, contents and requests.               *)
(***************************************************************************)
EXTENDS MCPlugins, TLAPS

Busy(a) == pc[a] # "idle"

(* Past the insertion of the row an installation knows its plugin, and     *)
(* every other request does from the start.                                *)
Targeted ==
    \A a \in Admin : pc[a] \notin {"idle", "register", "create"} => Its(a) \in Plugin

TypeInv == TypeOK /\ Targeted

-----------------------------------------------------------------------------
(* The inductive invariants. *)

(* The unique key of slug. *)
OneRow == \A p, q \in Row : p = q

(* One request at a time. *)
SerialInv == Without({"overlap"}) => \A a, b \in Admin : Busy(a) /\ Busy(b) => a = b

(* A plugin's hook is in plugin_hooks once at most, and so it is in what a *)
(* reload read and in the dispatch table.                                  *)
HookInv ==
    Without({"overlap"}) =>
        /\ \A a \in Admin : /\ req[a].hooks <= 1
                            /\ pc[a] = "create_hook" => hooks[Its(a)] = 0
        /\ \A p \in Plugin : hooks[p] <= 1 /\ dispatch[p] <= 1

(* A directory without a plugin belongs to an installation in flight.      *)
Installing == {"register", "create", "provision", "unprovisioned", "registered", "confirm"}
FilesInv ==
    Without({"restart"}) /\ Row = {} /\ files => \E a \in Admin : pc[a] \in Installing

InOrder == Only({"restart"}) \/ Only({"schema_error"})

(* What a request at each of its steps knows of its plugin. *)
Activating == {"delete_hooks", "create_hook", "delete_slots", "create_slot",
               "create_webhook", "set_active"}
Reloading == {"read_hooks", "table", "runtime", "mark_error"}
Dropping == {"drop_schema", "delete_row"}
ToDispatch(p) == IF status[p] = "active" THEN hooks[p] ELSE 0

Knows(a) ==
    /\ pc[a] \in {"register", "create"} => Row = {} /\ files
    /\ pc[a] \notin {"idle", "register", "create"} => Its(a) \in Row
    /\ pc[a] \in {"provision", "unprovisioned", "registered"} =>
           status[Its(a)] = "installing"
    /\ pc[a] = "unprovisioned" => "schema_error" \in environment
    /\ pc[a] \in Activating => status[Its(a)] # "active"
    /\ pc[a] \in {"delete_hooks", "create_hook"} => Script(Its(a))
    /\ pc[a] = "create_hook" => hooks[Its(a)] = 0
    /\ pc[a] = "create_webhook" => ~Script(Its(a))
    /\ pc[a] \in Activating \ {"delete_hooks", "create_hook"} /\ Script(Its(a)) =>
           hooks[Its(a)] = 1
    /\ pc[a] \in {"delete_webhooks", "drop_slots"} => status[Its(a)] = "inactive"
    /\ pc[a] = "read_hooks" => status[Its(a)] = "active"
    /\ pc[a] \in Reloading => /\ req[a].status = status[Its(a)]
                              /\ req[a].config = config[Its(a)]
    /\ pc[a] \notin Reloading \cup Dropping => req[a].hooks = 0
    /\ pc[a] = "read_hooks" => req[a].hooks = 0
    /\ pc[a] = "table" => req[a].hooks = ToDispatch(Its(a))
    /\ pc[a] \in {"runtime", "mark_error"} => dispatch[Its(a)] = ToDispatch(Its(a))
    /\ pc[a] = "mark_error" => Wanted(a) /\ runtime[Its(a)] = "none"
    /\ pc[a] \in Dropping \cup {"set_uninstalling"} => req[a].op = "uninstall"
    /\ req[a].op = "uninstall" =>
           pc[a] \in {"idle", "set_uninstalling", "find"} \cup Reloading \cup Dropping
    /\ pc[a] \in Dropping \cup Reloading \cup {"find"} /\ req[a].op = "uninstall" =>
           status[Its(a)] = "uninstalling"

KnowsInv == InOrder => \A a \in Admin : Knows(a)

(* The hook of an active plugin is stored, and with no error but a restart *)
(* its files are there.                                                    *)
Ready ==
    /\ \A p \in Plugin : status[p] = "active" /\ Script(p) => hooks[p] = 1
    /\ Only({"restart"}) /\ Row # {} => files
ReadyInv == InOrder => Ready

(* The registry follows the row of every plugin but the one a request has  *)
(* changed and not reloaded yet.                                           *)
Ahead == {"set_activated_at", "delete_webhooks", "drop_slots", "find", "read_hooks",
          "table", "runtime", "mark_error"}
Follows(p) ==
    /\ status[p] = "active" /\ Script(p) => dispatch[p] = 1
    /\ status[p] \notin {"active", "error"} => dispatch[p] = 0
    /\ runtime[p] = IF status[p] = "active" /\ Script(p) THEN config[p] ELSE "none"
FollowsInv ==
    InOrder => \A p \in Plugin :
                  (\E a \in Admin : Its(a) = p /\ pc[a] \in Ahead) \/ Follows(p)

(* The webhook of a plugin follows its status, unless a request is about   *)
(* to change the one or the other.                                         *)
Excuses(a, p) ==
    /\ Its(a) = p
    /\ \/ pc[a] \in {"set_active", "delete_webhooks"}
       \/ req[a].op = "uninstall" /\ pc[a] \notin {"idle", "set_uninstalling"}
WebhookInv ==
    Only({"schema_error"}) =>
        /\ \A p \in Plugin : Script(p) => webhooks[p] = 0
        /\ \A p \in Plugin : ~Script(p) =>
               \/ \E a \in Admin : Excuses(a, p)
               \/ webhooks[p] = IF status[p] = "active" THEN 1 ELSE 0
        /\ \A a \in Admin : pc[a] = "set_active" /\ ~Script(Its(a)) => webhooks[Its(a)] = 1

-----------------------------------------------------------------------------
(***************************************************************************)
(* Type correctness.                                                       *)
(***************************************************************************)

(* What one administrator's request does in a step. *)
Act(a) ==
    \/ Extract(a) \/ Step(a) \/ DbError(a)
    \/ \E p \in Plugin :
        \/ BeginActivate(a, p) \/ BeginDeactivate(a, p) \/ BeginUninstall(a, p)
        \/ \E c \in Config : BeginConfigure(a, p, c)

LEMMA NextIsActs == Next <=> (\E a \in Admin : Act(a)) \/ Restart
  BY DEF Next, Act

LEMMA NoRequestTyped == NoRequest \in Request
  BY DEF NoRequest, Request, Operation, Status

(* A request begins, goes on or ends in a legal place. *)
LEMMA BeginTyped ==
    ASSUME TypeOK, NEW a \in Admin, NEW label \in Control, NEW r \in Request,
           Begin(a, label, r)
    PROVE  pc' \in [Admin -> Control] /\ req' \in [Admin -> Request]
  BY DEF TypeOK, Begin

LEMMA GotoTyped ==
    ASSUME TypeOK, NEW a \in Admin, NEW label \in Control, Goto(a, label)
    PROVE  pc' \in [Admin -> Control] /\ req' \in [Admin -> Request]
  BY DEF TypeOK, Goto

LEMMA FinishTyped ==
    ASSUME TypeOK, NEW a \in Admin, Finish(a)
    PROVE  pc' \in [Admin -> Control] /\ req' \in [Admin -> Request]
  BY NoRequestTyped DEF TypeOK, Finish, Control

LEMMA ReloadedTyped ==
    ASSUME TypeOK, NEW a \in Admin, Reloaded(a)
    PROVE  pc' \in [Admin -> Control] /\ req' \in [Admin -> Request]
  BY FinishTyped, GotoTyped DEF Reloaded, Control

(* A request that sits at a label keeps to its plugin. *)
LEMMA GotoTargeted ==
    ASSUME TypeInv, NEW a \in Admin, NEW label, Goto(a, label),
           label \in {"idle", "register", "create"} \/ Its(a) \in Plugin
    PROVE  Targeted'
  BY DEF TypeInv, TypeOK, Targeted, Goto, Its

LEMMA FinishTargeted ==
    ASSUME TypeInv, NEW a \in Admin, Finish(a)
    PROVE  Targeted'
  BY DEF TypeInv, TypeOK, Targeted, Finish, Its

LEMMA ReloadedTargeted ==
    ASSUME TypeInv, NEW a \in Admin, Reloaded(a), Its(a) \in Plugin
    PROVE  Targeted'
  BY GotoTargeted, FinishTargeted DEF Reloaded

LEMMA BeginTargeted ==
    ASSUME TypeInv, NEW a \in Admin, NEW label, NEW r, Begin(a, label, r),
           label = "register" \/ r.plugin \in Plugin
    PROVE  Targeted'
  BY DEF TypeInv, TypeOK, Targeted, Begin, Its

LEMMA InitTypeInv == Init => TypeInv
<1> SUFFICES ASSUME Init PROVE TypeInv
  OBVIOUS
<1>1. req \in [Admin -> Request]
  BY NoRequestTyped DEF Init
<1> QED
  BY <1>1 DEF Init, TypeInv, TypeOK, Targeted, Control, Status

LEMMA BeginTypeInv ==
    ASSUME TypeInv, NEW a \in Admin,
           \/ Extract(a)
           \/ \E p \in Plugin : \/ BeginActivate(a, p) \/ BeginDeactivate(a, p)
                                \/ BeginUninstall(a, p)
                                \/ \E c \in Config : BeginConfigure(a, p, c)
    PROVE  TypeInv'
<1> USE DEF db, registry
<1>t. TypeOK
  BY DEF TypeInv
<1>1. CASE Extract(a)
  <2>1. [NoRequest EXCEPT !.op = "install"] \in Request
    BY DEF NoRequest, Request, Operation, Status
  <2> QED
    BY <1>t, <1>1, <2>1, BeginTyped, BeginTargeted DEF Extract, TypeInv, TypeOK, Control
<1>2. ASSUME NEW p \in Plugin, BeginActivate(a, p) PROVE TypeInv'
  <2>1. [NoRequest EXCEPT !.op = "activate", !.plugin = p] \in Request
    BY DEF NoRequest, Request, Operation, Status
  <2>2. [NoRequest EXCEPT !.op = "activate", !.plugin = p].plugin = p
    BY DEF NoRequest
  <2>3. (IF Tier[p] = "script" THEN "delete_hooks" ELSE "delete_slots") \in Control
    BY DEF Control
  <2>4. pc' \in [Admin -> Control] /\ req' \in [Admin -> Request]
    BY <1>t, <1>2, <2>1, <2>3, BeginTyped DEF BeginActivate
  <2>5. Targeted'
    BY <1>2, <2>2, BeginTargeted DEF BeginActivate
  <2> QED
    BY <1>t, <1>2, <2>4, <2>5 DEF BeginActivate, TypeInv, TypeOK
<1>3. ASSUME NEW p \in Plugin, BeginDeactivate(a, p) PROVE TypeInv'
  <2>1. [NoRequest EXCEPT !.op = "deactivate", !.plugin = p] \in Request
    BY DEF NoRequest, Request, Operation, Status
  <2>2. [NoRequest EXCEPT !.op = "deactivate", !.plugin = p].plugin = p
    BY DEF NoRequest
  <2>4. pc' \in [Admin -> Control] /\ req' \in [Admin -> Request]
    BY <1>t, <1>3, <2>1, BeginTyped DEF BeginDeactivate, Control
  <2>5. Targeted'
    BY <1>3, <2>2, BeginTargeted DEF BeginDeactivate
  <2> QED
    BY <1>t, <1>3, <2>4, <2>5 DEF BeginDeactivate, TypeInv, TypeOK
<1>4. ASSUME NEW p \in Plugin, BeginUninstall(a, p) PROVE TypeInv'
  <2>1. [NoRequest EXCEPT !.op = "uninstall", !.plugin = p] \in Request
    BY DEF NoRequest, Request, Operation, Status
  <2>2. [NoRequest EXCEPT !.op = "uninstall", !.plugin = p].plugin = p
    BY DEF NoRequest
  <2>4. pc' \in [Admin -> Control] /\ req' \in [Admin -> Request]
    BY <1>t, <1>4, <2>1, BeginTyped DEF BeginUninstall, Control
  <2>5. Targeted'
    BY <1>4, <2>2, BeginTargeted DEF BeginUninstall
  <2> QED
    BY <1>t, <1>4, <2>4, <2>5 DEF BeginUninstall, TypeInv, TypeOK
<1>5. ASSUME NEW p \in Plugin, NEW c \in Config, BeginConfigure(a, p, c) PROVE TypeInv'
  <2>1. [NoRequest EXCEPT !.op = "configure", !.plugin = p, !.config = c] \in Request
    BY DEF NoRequest, Request, Operation, Status
  <2>2. [NoRequest EXCEPT !.op = "configure", !.plugin = p, !.config = c].plugin = p
    BY DEF NoRequest
  <2>4. pc' \in [Admin -> Control] /\ req' \in [Admin -> Request]
    BY <1>t, <1>5, <2>1, BeginTyped DEF BeginConfigure, Control
  <2>5. Targeted'
    BY <1>5, <2>2, BeginTargeted DEF BeginConfigure
  <2> QED
    BY <1>t, <1>5, <2>4, <2>5 DEF BeginConfigure, TypeInv, TypeOK
<1> QED
  BY <1>1, <1>2, <1>3, <1>4, <1>5

(* A step of a request that leaves the place it stands at in a legal way   *)
(* leaves everything typed if it leaves the data typed.                    *)
DataTyped ==
    /\ environment \in Environments
    /\ status \in [Plugin -> Status \cup {"none", "gone"}]
    /\ config \in [Plugin -> Config \cup {NoConfig}]
    /\ hooks \in [Plugin -> Nat]
    /\ slots \in [Plugin -> Nat]
    /\ webhooks \in [Plugin -> Nat]
    /\ files \in BOOLEAN
    /\ dispatch \in [Plugin -> Nat]
    /\ runtime \in [Plugin -> Config \cup {NoConfig, "none"}]

LEMMA TypedInTwo == TypeOK <=> /\ DataTyped
                               /\ pc \in [Admin -> Control]
                               /\ req \in [Admin -> Request]
  BY DEF TypeOK, DataTyped

LEMMA GoesOn ==
    ASSUME TypeInv, NEW a \in Admin, DataTyped',
           \/ Finish(a)
           \/ Its(a) \in Plugin /\ Reloaded(a)
           \/ \E label \in Control :
                 /\ label \in {"idle", "register", "create"} \/ Its(a) \in Plugin
                 /\ Goto(a, label)
    PROVE  TypeInv'
<1>t. TypeOK
  BY DEF TypeInv
<1>1. pc' \in [Admin -> Control] /\ req' \in [Admin -> Request]
  BY <1>t, FinishTyped, ReloadedTyped, GotoTyped
<1>2. Targeted'
  BY FinishTargeted, ReloadedTargeted, GotoTargeted
<1> QED
  BY <1>1, <1>2 DEF TypeInv, TypeOK, DataTyped

LEMMA StepTypeInv ==
    ASSUME TypeInv, NEW a \in Admin, Step(a)
    PROVE  TypeInv'
<1> DEFINE p == Its(a)
<1> USE DEF db, registry
<1>t. TypeOK
  BY DEF TypeInv
<1>d. DataTyped
  BY <1>t, TypedInTwo
<1>q. req[a] \in Request /\ req[a].hooks \in Nat /\ req[a].config \in Config \cup {NoConfig}
  BY <1>t DEF TypeOK, Request
<1>p. pc[a] \notin {"idle", "register", "create"} => p \in Plugin
  BY DEF TypeInv, Targeted
<1>r. Row \subseteq Plugin
  BY DEF Row
<1>1. CASE Register(a)
  BY <1>1, <1>d, GoesOn DEF Register, DataTyped, Control
<1>2. CASE Create(a)
  <2>1. CASE Row # {}
    BY <1>2, <2>1, <1>d, GoesOn DEF Create, DataTyped
  <2>2. ASSUME NEW x \in Plugin, SetStatus(x, "installing"), pc[a] = "create",
               req' = [req EXCEPT ![a].plugin = x], pc' = [pc EXCEPT ![a] = "provision"],
               UNCHANGED files, UNCHANGED <<environment, registry>>
        PROVE  TypeInv'
    <3>1. [req[a] EXCEPT !.plugin = x] \in Request
      BY <1>q DEF Request
    <3>2. req' \in [Admin -> Request]
      BY <1>t, <2>2, <3>1 DEF TypeOK
    <3>3. pc' \in [Admin -> Control]
      BY <1>t, <2>2 DEF TypeOK, Control
    <3>4. Targeted'
      <4> SUFFICES ASSUME NEW b \in Admin, pc'[b] \notin {"idle", "register", "create"}
                   PROVE  req'[b].plugin \in Plugin
        BY DEF Targeted, Its
      <4>1. CASE b = a
        BY <4>1, <1>t, <1>q, <2>2 DEF TypeOK, Request
      <4>2. CASE b # a
        BY <4>2, <1>t, <2>2 DEF TypeOK, TypeInv, Targeted, Its
      <4> QED
        BY <4>1, <4>2
    <3>5. DataTyped'
      BY <1>d, <2>2 DEF DataTyped, SetStatus, Status
    <3> QED
      BY <3>2, <3>3, <3>4, <3>5 DEF TypeInv, TypeOK, DataTyped
  <2> QED
    BY <1>2, <2>1, <2>2 DEF Create
<1>3. CASE Provision(a)
  BY <1>3, <1>d, <1>p, GoesOn DEF Provision, DataTyped, Control
<1>4. CASE Unprovisioned(a)
  BY <1>4, <1>d, <1>r, GoesOn DEF Unprovisioned, DataTyped, SetStatus, Status
<1>5. CASE Registered(a)
  <2>1. DataTyped'
    BY <1>5, <1>d DEF Registered, DataTyped, SetStatus, Status
  <2> QED
    BY <1>5, <1>p, <2>1, GoesOn DEF Registered, Control
<1>6. CASE Confirm(a)
  BY <1>6, <1>d, GoesOn DEF Confirm, DataTyped
<1>7. CASE DeleteHooks(a)
  BY <1>7, <1>d, <1>p, GoesOn DEF DeleteHooks, DataTyped, SetRows, Control
<1>8. CASE CreateHook(a)
  <2>1. DataTyped'
    BY <1>8, <1>d DEF CreateHook, OnRow, DataTyped, SetRows
  <2> QED
    BY <1>8, <1>p, <2>1, GoesOn DEF CreateHook, OnRow, Control
<1>9. CASE DeleteSlots(a)
  BY <1>9, <1>d, <1>p, GoesOn DEF DeleteSlots, DataTyped, SetRows, Control
<1>10. CASE CreateSlot(a)
  <2>1. DataTyped'
    BY <1>10, <1>d DEF CreateSlot, OnRow, DataTyped, SetRows
  <2>2. (IF Tier[Its(a)] = "manifest" THEN "create_webhook" ELSE "set_active") \in Control
    BY DEF Control
  <2> QED
    BY <1>10, <1>p, <2>1, <2>2, GoesOn DEF CreateSlot, OnRow
<1>11. CASE CreateWebhook(a)
  <2>1. DataTyped'
    BY <1>11, <1>d DEF CreateWebhook, OnRow, DataTyped, SetRows
  <2> QED
    BY <1>11, <1>p, <2>1, GoesOn DEF CreateWebhook, OnRow, Control
<1>12. CASE SetActive(a)
  <2>1. DataTyped'
    BY <1>12, <1>d DEF SetActive, OnRow, DataTyped, SetStatus, Status
  <2> QED
    BY <1>12, <1>p, <2>1, GoesOn DEF SetActive, OnRow, Control
<1>13. CASE SetActivatedAt(a)
  BY <1>13, <1>d, <1>p, GoesOn DEF SetActivatedAt, DataTyped, Control
<1>14. CASE SetInactive(a)
  <2>1. DataTyped'
    BY <1>14, <1>d DEF SetInactive, OnRow, DataTyped, SetStatus, Status
  <2> QED
    BY <1>14, <1>p, <2>1, GoesOn DEF SetInactive, OnRow, Control
<1>15. CASE DeleteWebhooks(a)
  BY <1>15, <1>d, <1>p, GoesOn DEF DeleteWebhooks, DataTyped, SetRows, Control
<1>16. CASE DropSlots(a)
  BY <1>16, <1>d, <1>p, GoesOn DEF DropSlots, DataTyped, SetRows, Control
<1>17. CASE UpdateConfig(a)
  <2>1. DataTyped'
    BY <1>17, <1>d, <1>q DEF UpdateConfig, OnRow, DataTyped
  <2> QED
    BY <1>17, <1>p, <2>1, GoesOn DEF UpdateConfig, OnRow, Control
<1>18. CASE SetUninstalling(a)
  <2>1. DataTyped'
    BY <1>18, <1>d DEF SetUninstalling, OnRow, DataTyped, SetStatus, Status
  <2> QED
    BY <1>18, <1>p, <2>1, GoesOn DEF SetUninstalling, OnRow, Control
<1>19. CASE DropSchema(a)
  BY <1>19, <1>d, <1>p, GoesOn DEF DropSchema, DataTyped, Control
<1>20. CASE DeleteRow(a)
  <2>1. DataTyped'
    <3>1. CASE p \in Row
      <4>1. status' \in [Plugin -> Status \cup {"none", "gone"}]
        BY <1>20, <1>d, <3>1 DEF DeleteRow, Cascade, DataTyped
      <4>2. /\ hooks' \in [Plugin -> Nat]
            /\ slots' \in [Plugin -> Nat]
            /\ webhooks' \in [Plugin -> Nat]
        BY <1>20, <1>d, <3>1 DEF DeleteRow, Cascade, DataTyped
      <4> QED
        BY <1>20, <1>d, <3>1, <4>1, <4>2 DEF DeleteRow, Cascade, DataTyped
    <3>2. CASE p \notin Row
      BY <1>20, <1>d, <3>2 DEF DeleteRow, Cascade, DataTyped
    <3> QED
      BY <3>1, <3>2
  <2> QED
    BY <1>20, <2>1, GoesOn DEF DeleteRow, Cascade
<1>21. CASE Find(a)
  <2>1. CASE p \notin Row
    BY <1>21, <1>d, <1>p, <2>1, GoesOn DEF Find, DataTyped
  <2>2. CASE p \in Row
    <3>1. req' = [req EXCEPT ![a].status = status[p], ![a].config = config[p]]
      BY <1>21, <2>2 DEF Find
    <3>2. status[p] \in Status \cup {"none"} /\ config[p] \in Config \cup {NoConfig}
      BY <1>t, <2>2 DEF TypeOK, Row
    <3>3. [req[a] EXCEPT !.status = status[p], !.config = config[p]] \in Request
      BY <1>q, <3>2 DEF Request
    <3>4. req' \in [Admin -> Request]
      BY <1>t, <3>1, <3>3 DEF TypeOK
    <3>5. pc' = [pc EXCEPT ![a] = IF status[p] = "active" THEN "read_hooks" ELSE "table"]
      BY <1>21, <2>2 DEF Find
    <3>6. pc' \in [Admin -> Control]
      BY <1>t, <3>5 DEF TypeOK, Control
    <3>7. Targeted'
      <4> SUFFICES ASSUME NEW b \in Admin, pc'[b] \notin {"idle", "register", "create"}
                   PROVE  req'[b].plugin \in Plugin
        BY DEF Targeted, Its
      <4>1. CASE b = a
        BY <4>1, <1>t, <1>q, <1>r, <2>2, <3>1 DEF TypeOK, Request, Its
      <4>2. CASE b # a
        BY <4>2, <1>t, <3>1, <3>5 DEF TypeOK, TypeInv, Targeted, Its
      <4> QED
        BY <4>1, <4>2
    <3> QED
      BY <1>d, <1>21, <3>4, <3>6, <3>7 DEF Find, TypeInv, TypeOK, DataTyped
  <2> QED
    BY <2>1, <2>2
<1>22. CASE ReadHooks(a)
  <2>1. req' = [req EXCEPT ![a].hooks = hooks[p]] /\ pc' = [pc EXCEPT ![a] = "table"]
    BY <1>22 DEF ReadHooks
  <2>2. p \in Plugin
    BY <1>22, <1>p DEF ReadHooks
  <2>3. [req[a] EXCEPT !.hooks = hooks[p]] \in Request
    BY <1>t, <1>q, <2>2 DEF Request, TypeOK
  <2>4. req' \in [Admin -> Request] /\ pc' \in [Admin -> Control]
    BY <1>t, <2>1, <2>3 DEF TypeOK, Control
  <2>5. Targeted'
    <3> SUFFICES ASSUME NEW b \in Admin, pc'[b] \notin {"idle", "register", "create"}
                 PROVE  req'[b].plugin \in Plugin
      BY DEF Targeted, Its
    <3>1. CASE b = a
      BY <3>1, <1>t, <1>q, <2>1, <2>2 DEF TypeOK, Request, Its
    <3>2. CASE b # a
      BY <3>2, <1>t, <2>1 DEF TypeOK, TypeInv, Targeted, Its
    <3> QED
      BY <3>1, <3>2
  <2> QED
    BY <1>d, <1>22, <2>4, <2>5 DEF ReadHooks, TypeInv, TypeOK, DataTyped
<1>23. CASE Table(a)
  BY <1>23, <1>d, <1>q, <1>p, GoesOn DEF Table, DataTyped, Control
<1>24. CASE Runtime(a)
  <2>1. DataTyped'
    BY <1>24, <1>d, <1>q DEF Runtime, DataTyped
  <2> QED
    BY <1>24, <1>p, <2>1, GoesOn DEF Runtime, Control
<1>25. CASE MarkError(a)
  <2>1. DataTyped'
    BY <1>25, <1>d DEF MarkError, DataTyped, SetStatus, Status
  <2> QED
    BY <1>25, <1>p, <2>1, GoesOn DEF MarkError
<1> QED
  BY <1>1, <1>2, <1>3, <1>4, <1>5, <1>6, <1>7, <1>8, <1>9, <1>10, <1>11, <1>12, <1>13,
     <1>14, <1>15, <1>16, <1>17, <1>18, <1>19, <1>20, <1>21, <1>22, <1>23, <1>24, <1>25
  DEF Step

LEMMA DbErrorTypeInv ==
    ASSUME TypeInv, NEW a \in Admin, DbError(a)
    PROVE  TypeInv'
<1>1. DataTyped'
  BY TypedInTwo DEF TypeInv, DbError, db, registry, DataTyped
<1>2. pc[a] \in {"find", "read_hooks", "mark_error"} => Its(a) \in Plugin
  BY DEF TypeInv, Targeted
<1> QED
  BY <1>1, <1>2, GoesOn DEF DbError

LEMMA RestartTypeInv ==
    ASSUME TypeInv, Restart
    PROVE  TypeInv'
<1>t. TypeOK
  BY DEF TypeInv
<1>1. dispatch' \in [Plugin -> Nat]
  BY <1>t DEF Restart, TypeOK
<1>2. runtime' \in [Plugin -> Config \cup {NoConfig, "none"}]
  BY <1>t DEF Restart, TypeOK
<1>3. pc' \in [Admin -> Control] /\ req' \in [Admin -> Request] /\ Targeted'
  BY NoRequestTyped DEF Restart, Control, Targeted
<1> QED
  BY <1>t, <1>1, <1>2, <1>3 DEF Restart, db, TypeInv, TypeOK

LEMMA NextTypeInv == TypeInv /\ [Next]_vars => TypeInv'
<1> SUFFICES ASSUME TypeInv, [Next]_vars PROVE TypeInv'
  OBVIOUS
<1>1. CASE UNCHANGED vars
  BY <1>1 DEF vars, TypeInv, TypeOK, Targeted, Its
<1>2. ASSUME NEW a \in Admin, Act(a) PROVE TypeInv'
  BY <1>2, BeginTypeInv, StepTypeInv, DbErrorTypeInv DEF Act
<1> QED
  BY <1>1, <1>2, RestartTypeInv, NextIsActs

(* Whatever is uploaded, fails, overlaps or restarts, every request and    *)
(* every record of a plugin keeps its type, and a request past the         *)
(* insertion of its row has a plugin.                                      *)
THEOREM PluginsTypeCorrect == Spec => []TypeOK
<1>1. Init => TypeInv
  BY InitTypeInv
<1>2. TypeInv /\ [Next]_vars => TypeInv'
  BY NextTypeInv
<1>3. TypeInv => TypeOK
  BY DEF TypeInv
<1> QED
  BY <1>1, <1>2, <1>3, PTL DEF Spec

-----------------------------------------------------------------------------
(***************************************************************************)
(* Requests among each other.                                              *)
(***************************************************************************)

(* A request's step leaves the other requests where they are. *)
LEMMA OthersStay ==
    ASSUME TypeInv, NEW a \in Admin, Act(a), NEW b \in Admin, b # a
    PROVE  pc'[b] = pc[b] /\ req'[b] = req[b]
<1> USE DEF TypeInv, TypeOK
<1>1. CASE Step(a)
  BY <1>1 DEF Step, Register, Create, Provision, Unprovisioned, Registered, Confirm,
              DeleteHooks, CreateHook, DeleteSlots, CreateSlot, CreateWebhook, SetActive,
              SetActivatedAt, SetInactive, DeleteWebhooks, DropSlots, UpdateConfig,
              SetUninstalling, DropSchema, DeleteRow, Cascade, Find, ReadHooks, Table, Runtime,
              MarkError, OnRow, Reloaded, Goto, Finish
<1>2. CASE DbError(a)
  BY <1>2 DEF DbError, Reloaded, Goto, Finish
<1> QED
  BY <1>1, <1>2 DEF Act, Extract, BeginActivate, BeginDeactivate, BeginUninstall,
                    BeginConfigure, Begin

LEMMA EnvironmentStays == ASSUME [Next]_vars PROVE environment' = environment
<1>1. ASSUME NEW a \in Admin, Step(a) PROVE environment' = environment
  BY <1>1 DEF Step, Register, Create, Provision, Unprovisioned, Registered, Confirm,
              DeleteHooks, CreateHook, DeleteSlots, CreateSlot, CreateWebhook, SetActive,
              SetActivatedAt, SetInactive, DeleteWebhooks, DropSlots, UpdateConfig,
              SetUninstalling, DropSchema, DeleteRow, Cascade, Find, ReadHooks, Table, Runtime,
              MarkError
<1> QED
  BY <1>1 DEF Next, DbError, Restart, Extract, BeginActivate, BeginDeactivate,
              BeginUninstall, BeginConfigure, vars

(* Who acts is busy, or begins. *)
LEMMA ActorBusy ==
    ASSUME NEW a \in Admin, Act(a)
    PROVE  Busy(a) \/ "overlap" \in environment \/ \A b \in Admin : ~Busy(b)
<1>1. CASE Step(a)
  BY <1>1 DEF Busy, Step, Register, Create, Provision, Unprovisioned, Registered, Confirm,
              DeleteHooks, CreateHook, DeleteSlots, CreateSlot, CreateWebhook, SetActive,
              SetActivatedAt, SetInactive, DeleteWebhooks, DropSlots, UpdateConfig,
              SetUninstalling, DropSchema, DeleteRow, Cascade, Find, ReadHooks, Table, Runtime,
              MarkError
<1>2. CASE DbError(a)
  BY <1>2 DEF Busy, DbError
<1> QED
  BY <1>1, <1>2 DEF Act, Busy, Extract, BeginActivate, BeginDeactivate, BeginUninstall,
                    BeginConfigure, Begin

(* One at a time, whoever acts is alone. *)
LEMMA ActsAlone ==
    ASSUME TypeInv, SerialInv, Without({"overlap"}), NEW a \in Admin, Act(a),
           NEW b \in Admin, b # a
    PROVE  pc[b] = "idle" /\ pc'[b] = "idle" /\ req'[b] = req[b]
  BY OthersStay, ActorBusy DEF SerialInv, Busy, Without

LEMMA NextSerial == TypeInv /\ SerialInv /\ [Next]_vars => SerialInv'
<1> SUFFICES ASSUME TypeInv, SerialInv, [Next]_vars, Without({"overlap"})'
             PROVE  \A a, b \in Admin : (Busy(a) /\ Busy(b))' => a = b
  BY DEF SerialInv
<1>e. Without({"overlap"})
  BY EnvironmentStays DEF Without
<1>1. CASE UNCHANGED vars
  BY <1>1, <1>e DEF vars, SerialInv, Busy
<1>2. ASSUME NEW a \in Admin, Act(a) PROVE \A b \in Admin : b # a => ~Busy(b)'
  BY <1>2, <1>e, ActsAlone DEF Busy
<1>3. CASE Restart
  BY <1>3 DEF Restart, Busy
<1> QED
  BY <1>1, <1>2, <1>3, NextIsActs

-----------------------------------------------------------------------------
(***************************************************************************)
(* The row and the directory.                                              *)
(***************************************************************************)

(* The rows of the table only change where a row is inserted and where it  *)
(* is deleted.                                                             *)
LEMMA RowStays ==
    ASSUME TypeInv, NEW a \in Admin, Act(a), ~Create(a), ~DeleteRow(a)
    PROVE  Row' = Row
<1> USE DEF db
<1>s. ASSUME NEW p \in Row, NEW s \in Status, SetStatus(p, s) PROVE Row' = Row
  BY <1>s DEF Row, SetStatus, TypeInv, TypeOK
<1>1. CASE UNCHANGED status
  BY <1>1 DEF Row
<1>2. CASE Step(a)
  <2>1. \/ UNCHANGED status
        \/ \E s \in Status : Its(a) \in Row /\ SetStatus(Its(a), s)
    BY <1>2 DEF Step, Register, Provision, Unprovisioned, Registered, Confirm,
              DeleteHooks, CreateHook, DeleteSlots, CreateSlot, CreateWebhook, SetActive,
              SetActivatedAt, SetInactive, DeleteWebhooks, DropSlots, UpdateConfig,
              SetUninstalling, DropSchema, Find, ReadHooks, Table, Runtime,
              MarkError, OnRow, SetRows, Status
  <2> QED
    BY <1>s, <1>1, <2>1
<1> QED
  BY <1>1, <1>2 DEF Act, DbError, Extract, BeginActivate, BeginDeactivate,
                    BeginUninstall, BeginConfigure

LEMMA CreateRow ==
    ASSUME TypeInv, NEW a \in Admin, Create(a)
    PROVE  \/ Row' = Row /\ Row # {} /\ files' = FALSE
           \/ Row = {} /\ pc'[a] = "provision" /\ \E p \in Plugin : Row' = {p}
  BY DEF Create, Row, SetStatus, Status, TypeInv, TypeOK, db

LEMMA DeleteOneRow ==
    ASSUME TypeInv, NEW a \in Admin, DeleteRow(a)
    PROVE  Row' = Row \ {Its(a)} /\ files' = FALSE
  BY DEF DeleteRow, Cascade, Row, Status, TypeInv, TypeOK, db

LEMMA NextOneRow == TypeInv /\ OneRow /\ [Next]_vars => OneRow'
<1> SUFFICES ASSUME TypeInv, OneRow, [Next]_vars PROVE OneRow'
  OBVIOUS
<1>1. CASE UNCHANGED vars \/ Restart
  BY <1>1 DEF vars, db, Restart, OneRow, Row
<1>2. ASSUME NEW a \in Admin, Act(a) PROVE OneRow'
  BY <1>2, RowStays, CreateRow, DeleteOneRow DEF OneRow
<1> QED
  BY <1>1, <1>2, NextIsActs

(* An installation ends with its plugin in place or its directory removed. *)
LEMMA InstallationEnds ==
    ASSUME TypeInv, NEW a \in Admin, Act(a), pc[a] \in Installing, pc'[a] \notin Installing
    PROVE  Row' # {} \/ ~files'
<1>1. pc[a] \notin {"idle"}
  BY DEF Installing
<1>2. CASE DbError(a)
  BY <1>2 DEF DbError, Installing
<1>3. CASE Step(a)
  <2>1. \/ Register(a) \/ Create(a) \/ Provision(a) \/ Unprovisioned(a)
        \/ Registered(a) \/ Confirm(a)
    BY <1>3 DEF Installing, Step, DeleteHooks, CreateHook, DeleteSlots, CreateSlot, CreateWebhook,
              SetActive, SetActivatedAt, SetInactive, DeleteWebhooks, DropSlots, UpdateConfig,
              SetUninstalling, DropSchema, DeleteRow, Cascade, Find, ReadHooks, Table, Runtime,
              MarkError
  <2>2. CASE Register(a)
    BY <2>2 DEF Register, Goto, Installing, TypeInv, TypeOK
  <2>3. CASE Create(a)
    BY <2>3, CreateRow DEF Installing
  <2>4. CASE Provision(a)
    BY <2>4 DEF Provision, Goto, Installing, TypeInv, TypeOK
  <2>5. CASE Unprovisioned(a)
    BY <2>5 DEF Unprovisioned
  <2>6. CASE Registered(a)
    BY <2>6 DEF Registered, Goto, Installing, TypeInv, TypeOK
  <2>7. CASE Confirm(a)
    BY <2>7 DEF Confirm, db, Row
  <2> QED
    BY <2>1, <2>2, <2>3, <2>4, <2>5, <2>6, <2>7
<1> QED
  BY <1>1, <1>2, <1>3 DEF Act, Extract, BeginActivate, BeginDeactivate, BeginUninstall,
                     BeginConfigure, Begin

(* Only an upload makes the directory. *)
LEMMA OnlyExtractMakes ==
    ASSUME TypeInv, NEW a \in Admin, Act(a), files', ~files
    PROVE  pc'[a] \in Installing
<1>1. CASE Extract(a)
  BY <1>1 DEF Extract, Begin, Installing, TypeInv, TypeOK
<1>2. CASE Step(a)
  BY <1>2 DEF Step, Register, Create, Provision, Unprovisioned, Registered, Confirm,
              DeleteHooks, CreateHook, DeleteSlots, CreateSlot, CreateWebhook, SetActive,
              SetActivatedAt, SetInactive, DeleteWebhooks, DropSlots, UpdateConfig,
              SetUninstalling, DropSchema, DeleteRow, Cascade, Find, ReadHooks, Table, Runtime,
              MarkError
<1> QED
  BY <1>1, <1>2 DEF Act, DbError, BeginActivate, BeginDeactivate, BeginUninstall,
                    BeginConfigure

LEMMA NextFiles == TypeInv /\ FilesInv /\ [Next]_vars => FilesInv'
<1> SUFFICES ASSUME TypeInv, FilesInv, [Next]_vars, Without({"restart"})', Row' = {}, files'
             PROVE  \E a \in Admin : pc'[a] \in Installing
  BY DEF FilesInv
<1>e. Without({"restart"}) /\ ~Restart
  BY EnvironmentStays DEF Without, Restart
<1>1. CASE UNCHANGED vars
  BY <1>1, <1>e DEF vars, FilesInv, Row
<1>2. ASSUME NEW a \in Admin, Act(a) PROVE \E b \in Admin : pc'[b] \in Installing
  <2>1. CASE ~files
    BY <1>2, <2>1, OnlyExtractMakes
  <2>2. CASE files
    <3>1. Row = {}
      BY <1>2, RowStays, CreateRow, DeleteOneRow
    <3>2. PICK b \in Admin : pc[b] \in Installing
      BY <1>e, <2>2, <3>1 DEF FilesInv
    <3>3. CASE b = a
      BY <1>2, <3>2, <3>3, InstallationEnds
    <3>4. CASE b # a
      BY <1>2, <3>2, <3>4, OthersStay
    <3> QED
      BY <3>3, <3>4
  <2> QED
    BY <2>1, <2>2
<1> QED
  BY <1>e, <1>1, <1>2, NextIsActs

(* Without a plugin there is no plugin directory between requests,         *)
(* whichever call of an installation or an uninstallation failed and       *)
(* however they overlapped.                                                *)
THEOREM NoFilesAstray == Spec => []NoStrayFiles
<1>1. Init => TypeInv /\ FilesInv
  BY InitTypeInv DEF Init, FilesInv
<1>2. TypeInv /\ FilesInv /\ [Next]_vars => (TypeInv /\ FilesInv)'
  BY NextTypeInv, NextFiles
<1>3. FilesInv => NoStrayFiles
  BY DEF FilesInv, NoStrayFiles, Quiet, Installing
<1> QED
  BY <1>1, <1>2, <1>3, PTL DEF Spec

-----------------------------------------------------------------------------
(***************************************************************************)
(* The hook.                                                               *)
(***************************************************************************)

(* What a step does to the counts of hooks.                                *)
HooksUntouched(a) ==
    /\ UNCHANGED <<hooks, dispatch>>
    /\ req'[a].hooks \in {0, req[a].hooks}

LEMMA OnlyTheseTouchHooks ==
    ASSUME TypeInv, NEW a \in Admin, Act(a),
           ~DeleteHooks(a), ~CreateHook(a), ~DeleteRow(a), ~ReadHooks(a), ~Table(a)
    PROVE  HooksUntouched(a)
<1> USE DEF HooksUntouched, db, registry, NoRequest
<1>t. pc \in [Admin -> Control] /\ req \in [Admin -> Request]
  BY DEF TypeInv, TypeOK
<1>q. req[a] \in Request
  BY <1>t
<1>r. ASSUME Reloaded(a) PROVE req'[a].hooks \in {0, req[a].hooks}
  BY <1>r, <1>t DEF Reloaded, Finish, Goto
<1>1. CASE Step(a)
  <2>1. CASE Create(a)
    <3>1. req' = [req EXCEPT ![a] = NoRequest]
             \/ \E p \in Plugin : req' = [req EXCEPT ![a].plugin = p]
      BY <2>1 DEF Create, Finish
    <3>2. req'[a].hooks \in {0, req[a].hooks}
      BY <1>t, <1>q, <3>1 DEF Request
    <3> QED
      BY <2>1, <3>2 DEF Create, SetStatus
  <2>2. CASE Find(a)
    <3>1. \/ Reloaded(a)
          \/ req' = [req EXCEPT ![a].status = status[Its(a)], ![a].config = config[Its(a)]]
      BY <2>2 DEF Find
    <3>2. req'[a].hooks \in {0, req[a].hooks}
      BY <1>t, <1>q, <1>r, <3>1 DEF Request
    <3> QED
      BY <2>2, <3>2 DEF Find
  <2>3. CASE \/ Register(a) \/ Provision(a) \/ Unprovisioned(a) \/ Registered(a)
             \/ Confirm(a) \/ DeleteSlots(a) \/ CreateSlot(a) \/ CreateWebhook(a)
             \/ SetActive(a) \/ SetActivatedAt(a) \/ SetInactive(a)
             \/ DeleteWebhooks(a) \/ DropSlots(a) \/ UpdateConfig(a)
             \/ SetUninstalling(a) \/ DropSchema(a)
    BY <1>t, <2>3 DEF Register, Provision, Unprovisioned, Registered, Confirm, DeleteSlots,
              CreateSlot, CreateWebhook, SetActive, SetActivatedAt, SetInactive,
              DeleteWebhooks, DropSlots, UpdateConfig, SetUninstalling, DropSchema,
              OnRow, SetStatus, SetRows, Goto, Finish
  <2>4. CASE Runtime(a) \/ MarkError(a)
    BY <1>t, <1>r, <2>4 DEF Runtime, MarkError, SetStatus, Goto
  <2> QED
    BY <1>1, <2>1, <2>2, <2>3, <2>4 DEF Step
<1>2. CASE DbError(a)
  BY <1>t, <1>r, <1>2 DEF DbError, Finish
<1>3. ASSUME NEW label, NEW r, Begin(a, label, r), r.hooks = 0 PROVE req'[a].hooks = 0
  BY <1>3, <1>t DEF Begin
<1>4. CASE Extract(a)
  BY <1>3, <1>4 DEF Extract
<1>5. ASSUME NEW p \in Plugin, BeginActivate(a, p) PROVE HooksUntouched(a)
  BY <1>3, <1>5 DEF BeginActivate
<1>6. ASSUME NEW p \in Plugin, BeginDeactivate(a, p) PROVE HooksUntouched(a)
  BY <1>3, <1>6 DEF BeginDeactivate
<1>7. ASSUME NEW p \in Plugin, BeginUninstall(a, p) PROVE HooksUntouched(a)
  BY <1>3, <1>7 DEF BeginUninstall
<1>8. ASSUME NEW p \in Plugin, NEW c \in Config, BeginConfigure(a, p, c)
      PROVE  HooksUntouched(a)
  BY <1>3, <1>8 DEF BeginConfigure
<1> QED
  BY <1>1, <1>2, <1>4, <1>5, <1>6, <1>7, <1>8 DEF Act

(* The hook is created where it was deleted just before. *)
LEMMA OnlyDeletionLeadsToCreation ==
    ASSUME TypeInv, NEW a \in Admin, Act(a), ~DeleteHooks(a), pc'[a] = "create_hook"
    PROVE  FALSE
<1>t. pc \in [Admin -> Control]
  BY DEF TypeInv, TypeOK
<1>r. Reloaded(a) => pc'[a] # "create_hook"
  BY <1>t DEF Reloaded, Finish, Goto
<1>1. CASE Step(a)
  BY <1>t, <1>r, <1>1 DEF Step, Register, Create, Provision, Unprovisioned, Registered,
              Confirm, CreateHook, DeleteSlots, CreateSlot, CreateWebhook, SetActive,
              SetActivatedAt, SetInactive, DeleteWebhooks, DropSlots, UpdateConfig,
              SetUninstalling, DropSchema, DeleteRow, Cascade, Find, ReadHooks, Table, Runtime,
              MarkError, OnRow, Goto, Finish
<1>2. CASE DbError(a)
  BY <1>t, <1>r, <1>2 DEF DbError, Finish
<1> QED
  BY <1>1, <1>2, <1>t DEF Act, Extract, BeginActivate, BeginDeactivate, BeginUninstall,
                     BeginConfigure, Begin

HooksOnce ==
    /\ \A a \in Admin : /\ req[a].hooks <= 1
                        /\ pc[a] = "create_hook" => hooks[Its(a)] = 0
    /\ \A p \in Plugin : hooks[p] <= 1 /\ dispatch[p] <= 1

LEMMA NextHooks == TypeInv /\ SerialInv /\ HookInv /\ [Next]_vars => HookInv'
<1> SUFFICES ASSUME TypeInv, SerialInv, HookInv, [Next]_vars, Without({"overlap"})'
             PROVE  HooksOnce'
  BY DEF HookInv, HooksOnce
<1>e. Without({"overlap"})
  BY EnvironmentStays DEF Without
<1>h. HooksOnce
  BY <1>e DEF HookInv, HooksOnce
<1>t. /\ pc \in [Admin -> Control] /\ req \in [Admin -> Request]
      /\ hooks \in [Plugin -> Nat] /\ dispatch \in [Plugin -> Nat]
  BY DEF TypeInv, TypeOK
<1>1. CASE UNCHANGED vars
  BY <1>1, <1>h DEF vars, HooksOnce, Its
<1>2. ASSUME NEW a \in Admin, Act(a) PROVE HooksOnce'
  <2>b. \A b \in Admin : b # a => /\ req'[b].hooks <= 1
                                  /\ pc'[b] # "create_hook"
    BY <1>2, <1>e, <1>h, ActsAlone DEF HooksOnce
  <2>q. req[a] \in Request /\ req[a].hooks <= 1 /\ req[a].hooks \in Nat
    BY <1>h, <1>t DEF HooksOnce, Request
  <2>1. CASE HooksUntouched(a) /\ pc'[a] # "create_hook"
    <3>1. req'[a].hooks <= 1
      BY <2>1, <2>q DEF HooksUntouched
    <3>2. \A p \in Plugin : hooks'[p] <= 1 /\ dispatch'[p] <= 1
      BY <2>1, <1>h DEF HooksUntouched, HooksOnce
    <3> QED
      BY <2>1, <2>b, <3>1, <3>2 DEF HooksOnce
  <2>2. CASE DeleteHooks(a)
    <3>1. req' = req /\ dispatch' = dispatch /\ hooks' = [hooks EXCEPT ![Its(a)] = 0]
      BY <2>2 DEF DeleteHooks, Goto, SetRows, registry
    <3>2. Its(a) \in Plugin
      BY <2>2 DEF DeleteHooks, TypeInv, Targeted
    <3>3. hooks'[Its(a)] = 0 /\ \A p \in Plugin : hooks'[p] <= 1
      BY <1>t, <1>h, <3>1, <3>2 DEF HooksOnce
    <3> QED
      BY <1>h, <2>b, <3>1, <3>3 DEF HooksOnce, Its
  <2>3. CASE CreateHook(a)
    <3>1. /\ dispatch' = dispatch
          /\ hooks' = hooks \/ hooks' = [hooks EXCEPT ![Its(a)] = hooks[Its(a)] + 1]
      BY <2>3 DEF CreateHook, OnRow, SetRows, registry, db
    <3>2. Its(a) \in Plugin /\ hooks[Its(a)] = 0
      BY <2>3, <1>h DEF CreateHook, TypeInv, Targeted, HooksOnce
    <3>3. \A p \in Plugin : hooks'[p] <= 1
      BY <1>t, <1>h, <3>1, <3>2 DEF HooksOnce
    <3>4. req'[a].hooks <= 1 /\ pc'[a] # "create_hook"
      BY <1>t, <2>q, <2>3 DEF CreateHook, OnRow, Goto, Finish, NoRequest
    <3> QED
      BY <1>h, <2>b, <3>1, <3>3, <3>4 DEF HooksOnce
  <2>4. CASE DeleteRow(a)
    <3>1. /\ dispatch' = dispatch
          /\ hooks' = hooks \/ hooks' = [hooks EXCEPT ![Its(a)] = 0]
      BY <2>4 DEF DeleteRow, Cascade, registry, db
    <3>2. \A p \in Plugin : hooks'[p] <= 1
      BY <1>t, <1>h, <3>1 DEF HooksOnce
    <3>3. req'[a].hooks <= 1 /\ pc'[a] # "create_hook"
      BY <1>t, <2>4 DEF DeleteRow, Cascade, Finish, NoRequest
    <3> QED
      BY <1>h, <2>b, <3>1, <3>2, <3>3 DEF HooksOnce
  <2>5. CASE ReadHooks(a)
    <3>1. /\ UNCHANGED <<hooks, dispatch>>
          /\ req' = [req EXCEPT ![a].hooks = hooks[Its(a)]]
          /\ pc' = [pc EXCEPT ![a] = "table"]
      BY <2>5 DEF ReadHooks, registry, db
    <3>2. Its(a) \in Plugin
      BY <2>5 DEF ReadHooks, TypeInv, Targeted
    <3>3. req'[a].hooks = hooks[Its(a)] /\ pc'[a] # "create_hook"
      BY <1>t, <2>q, <3>1 DEF Request
    <3> QED
      BY <1>h, <2>b, <3>1, <3>2, <3>3 DEF HooksOnce
  <2>6. CASE Table(a)
    <3>1. /\ hooks' = hooks /\ req' = req
          /\ dispatch' = [dispatch EXCEPT ![Its(a)] = req[a].hooks]
          /\ pc' = [pc EXCEPT ![a] = "runtime"]
      BY <2>6 DEF Table, Goto, db
    <3>2. \A p \in Plugin : dispatch'[p] <= 1
      BY <1>t, <1>h, <2>q, <3>1 DEF HooksOnce
    <3>3. pc'[a] # "create_hook"
      BY <1>t, <3>1
    <3> QED
      BY <1>h, <2>b, <3>1, <3>2, <3>3 DEF HooksOnce
  <2> QED
    BY <1>2, <2>1, <2>2, <2>3, <2>4, <2>5, <2>6, OnlyTheseTouchHooks,
       OnlyDeletionLeadsToCreation
<1>3. CASE Restart
  <2>1. \A p \in Plugin : dispatch'[p] <= 1 /\ hooks'[p] <= 1
    BY <1>3, <1>h, <1>t DEF Restart, HooksOnce, db
  <2> QED
    BY <1>3, <2>1 DEF Restart, HooksOnce, NoRequest
<1> QED
  BY <1>1, <1>2, <1>3, NextIsActs

(* Activating again is idempotent: among requests that come one at a time, *)
(* whatever failed or restarted between them, the dispatch table has a     *)
(* plugin's hook at most once, so no event runs it twice.                  *)
THEOREM HookDispatchedOnce == Spec => []HookOnce
<1>1. Init => TypeInv /\ SerialInv /\ HookInv
  BY InitTypeInv DEF Init, SerialInv, HookInv, Busy, NoRequest
<1>2. TypeInv /\ SerialInv /\ HookInv /\ [Next]_vars => (TypeInv /\ SerialInv /\ HookInv)'
  BY NextTypeInv, NextSerial, NextHooks
<1>3. HookInv => HookOnce
  BY DEF HookInv, HookOnce, HookOnceEver
<1> QED
  BY <1>1, <1>2, <1>3, PTL DEF Spec

-----------------------------------------------------------------------------
(***************************************************************************)
(* The registry follows the row.  One request at a time, what the request  *)
(* in flight knows, what is stored and what is in memory fit together.     *)
(***************************************************************************)

FollowedBut(a) == \A q \in Plugin : (Its(a) = q /\ pc[a] \in Ahead) \/ Follows(q)
Consistent(a) == Knows(a) /\ Ready /\ FollowedBut(a)

LEMMA InOrderMeans ==
    InOrder => /\ Without({"overlap"})
               /\ environment \cap {"early", "reinstall", "db_error", "bad_bundle"} = {}
               /\ "restart" \in environment => Only({"restart"})
               /\ "schema_error" \in environment => ~Only({"restart"})
  BY DEF InOrder, Only, Without

(* A request that has ended knows nothing. *)
LEMMA FinishKnows ==
    ASSUME TypeInv, NEW a \in Admin, Finish(a)
    PROVE  Knows(a)' /\ pc'[a] \notin Ahead
<1>1. pc'[a] = "idle" /\ req'[a] = NoRequest
  BY DEF TypeInv, TypeOK, Finish
<1>2. req'[a].hooks = 0 /\ req'[a].op = "none"
  BY <1>1 DEF NoRequest
<1> QED
  BY <1>1, <1>2 DEF Knows, Activating, Reloading, Dropping, Ahead

(* What is stored and in memory stays, and what is known of it.            *)
LEMMA StoreStays ==
    ASSUME NEW a \in Admin, environment' = environment,
           UNCHANGED <<status, config, hooks, files, dispatch, runtime>>,
           Ready, FollowedBut(a),
           pc[a] \notin Ahead \/ (pc'[a] \in Ahead /\ Its(a)' = Its(a))
    PROVE  Ready' /\ FollowedBut(a)'
  BY DEF Ready, FollowedBut, Follows, Only, Row, Script

LEMMA BeginConsistent ==
    ASSUME TypeInv, InOrder, NEW a \in Admin, Consistent(a),
           \/ Extract(a)
           \/ \E p \in Plugin : \/ BeginActivate(a, p) \/ BeginDeactivate(a, p)
                                \/ BeginUninstall(a, p)
                                \/ \E c \in Config : BeginConfigure(a, p, c)
    PROVE  Consistent(a)'
<1> USE DEF registry, db
<1>t. pc \in [Admin -> Control] /\ req \in [Admin -> Request]
  BY DEF TypeInv, TypeOK
<1>c. Knows(a) /\ Ready /\ FollowedBut(a)
  BY DEF Consistent
<1>b. ASSUME NEW label, NEW r, Begin(a, label, r)
      PROVE  pc[a] = "idle" /\ pc'[a] = label /\ req'[a] = r
  BY <1>b, <1>t DEF Begin
<1>1. CASE Extract(a)
  <2>1. /\ pc[a] = "idle" /\ pc'[a] = "register"
        /\ req'[a] = [NoRequest EXCEPT !.op = "install"]
    BY <1>1, <1>b DEF Extract
  <2>2. Row' = {} /\ Row = {} /\ files'
    BY <1>1, InOrderMeans DEF Extract, Row
  <2>3. req'[a].hooks = 0 /\ req'[a].op = "install"
    BY <2>1 DEF NoRequest
  <2>4. Knows(a)'
    BY <2>1, <2>2, <2>3 DEF Knows, Activating, Reloading, Dropping
  <2>5. Ready' /\ FollowedBut(a)'
    BY <1>1, <1>c, <2>1, <2>2 DEF Extract, Ready, FollowedBut, Follows, Ahead
  <2> QED
    BY <2>4, <2>5 DEF Consistent
<1>2. ASSUME NEW p \in Plugin, BeginActivate(a, p) PROVE Consistent(a)'
  <2>1. /\ pc[a] = "idle"
        /\ pc'[a] = IF Script(p) THEN "delete_hooks" ELSE "delete_slots"
        /\ req'[a] = [NoRequest EXCEPT !.op = "activate", !.plugin = p]
    BY <1>2, <1>b DEF BeginActivate, Script
  <2>2. req'[a].hooks = 0 /\ req'[a].op = "activate" /\ req'[a].plugin = p
    BY <2>1 DEF NoRequest
  <2>3. p \in Row' /\ status'[p] # "active"
    BY <1>2 DEF BeginActivate, Listed, Row
  <2>4. Knows(a)'
    BY <2>1, <2>2, <2>3 DEF Knows, Activating, Reloading, Dropping, Its, Script
  <2>5. Ready' /\ FollowedBut(a)'
    BY <1>2, <1>c, <2>1, StoreStays DEF BeginActivate, Ahead
  <2> QED
    BY <2>4, <2>5 DEF Consistent
<1>3. ASSUME NEW p \in Plugin, BeginDeactivate(a, p) PROVE Consistent(a)'
  <2>1. /\ pc[a] = "idle" /\ pc'[a] = "set_inactive"
        /\ req'[a] = [NoRequest EXCEPT !.op = "deactivate", !.plugin = p]
    BY <1>3, <1>b DEF BeginDeactivate
  <2>2. req'[a].hooks = 0 /\ req'[a].op = "deactivate" /\ req'[a].plugin = p
    BY <2>1 DEF NoRequest
  <2>3. p \in Row'
    BY <1>3 DEF BeginDeactivate, Listed, Row
  <2>4. Knows(a)'
    BY <2>1, <2>2, <2>3 DEF Knows, Activating, Reloading, Dropping, Its
  <2>5. Ready' /\ FollowedBut(a)'
    BY <1>3, <1>c, <2>1, StoreStays DEF BeginDeactivate, Ahead
  <2> QED
    BY <2>4, <2>5 DEF Consistent
<1>4. ASSUME NEW p \in Plugin, BeginUninstall(a, p) PROVE Consistent(a)'
  <2>1. /\ pc[a] = "idle" /\ pc'[a] = "set_uninstalling"
        /\ req'[a] = [NoRequest EXCEPT !.op = "uninstall", !.plugin = p]
    BY <1>4, <1>b DEF BeginUninstall
  <2>2. req'[a].hooks = 0 /\ req'[a].op = "uninstall" /\ req'[a].plugin = p
    BY <2>1 DEF NoRequest
  <2>3. p \in Row'
    BY <1>4 DEF BeginUninstall, Listed, Row
  <2>4. Knows(a)'
    BY <2>1, <2>2, <2>3 DEF Knows, Activating, Reloading, Dropping, Its
  <2>5. Ready' /\ FollowedBut(a)'
    BY <1>4, <1>c, <2>1, StoreStays DEF BeginUninstall, Ahead
  <2> QED
    BY <2>4, <2>5 DEF Consistent
<1>5. ASSUME NEW p \in Plugin, NEW c \in Config, BeginConfigure(a, p, c)
      PROVE  Consistent(a)'
  <2>1. /\ pc[a] = "idle" /\ pc'[a] = "configure"
        /\ req'[a] = [NoRequest EXCEPT !.op = "configure", !.plugin = p, !.config = c]
    BY <1>5, <1>b DEF BeginConfigure
  <2>2. req'[a].hooks = 0 /\ req'[a].op = "configure" /\ req'[a].plugin = p
    BY <2>1 DEF NoRequest
  <2>3. p \in Row'
    BY <1>5 DEF BeginConfigure, Listed, Row
  <2>4. Knows(a)'
    BY <2>1, <2>2, <2>3 DEF Knows, Activating, Reloading, Dropping, Its
  <2>5. Ready' /\ FollowedBut(a)'
    BY <1>5, <1>c, <2>1, StoreStays DEF BeginConfigure, Ahead
  <2> QED
    BY <2>4, <2>5 DEF Consistent
<1> QED
  BY <1>1, <1>2, <1>3, <1>4, <1>5

LEMMA InstallConsistent ==
    ASSUME TypeInv, InOrder, NEW a \in Admin, Consistent(a),
           \/ Register(a) \/ Create(a) \/ Provision(a) \/ Unprovisioned(a)
           \/ Registered(a) \/ Confirm(a)
    PROVE  Consistent(a)'
<1> DEFINE p == Its(a)
<1> USE DEF registry, db
<1>t. /\ pc \in [Admin -> Control] /\ req \in [Admin -> Request]
      /\ status \in [Plugin -> Status \cup {"none", "gone"}]
  BY DEF TypeInv, TypeOK
<1>c. Knows(a) /\ Ready /\ FollowedBut(a)
  BY DEF Consistent
<1>g. ASSUME NEW label, Goto(a, label) PROVE pc'[a] = label /\ req'[a] = req[a]
  BY <1>g, <1>t DEF Goto
<1>1. CASE Register(a)
  <2>1. Row = {} /\ files /\ req[a].hooks = 0 /\ pc[a] = "register" /\ req[a].op # "uninstall"
    BY <1>1, <1>c DEF Register, Knows, Reloading, Dropping
  <2>2. pc'[a] = "create" /\ req'[a] = req[a] /\ UNCHANGED <<files, status>>
    BY <1>1, <1>g, <2>1 DEF Register
  <2>3. Knows(a)'
    BY <2>1, <2>2 DEF Knows, Activating, Reloading, Dropping, Row
  <2>4. Ready' /\ FollowedBut(a)'
    BY <1>1, <1>c, <2>1, <2>2, StoreStays DEF Register, Ahead
  <2> QED
    BY <2>3, <2>4 DEF Consistent
<1>2. CASE Create(a)
  <2>1. Row = {} /\ files /\ req[a].hooks = 0 /\ pc[a] = "create" /\ req[a].op # "uninstall"
    BY <1>2, <1>c DEF Create, Knows, Reloading, Dropping
  <2>2. PICK x \in Plugin : /\ status[x] = "none"
                            /\ SetStatus(x, "installing")
                            /\ req' = [req EXCEPT ![a].plugin = x]
                            /\ pc' = [pc EXCEPT ![a] = "provision"]
                            /\ files' = files
    BY <1>2, <2>1 DEF Create
  <2>3. pc'[a] = "provision" /\ req'[a].plugin = x /\ req'[a].hooks = 0
        /\ req'[a].op # "uninstall"
    BY <1>t, <2>1, <2>2 DEF Request
  <2>4. status'[x] = "installing" /\ \A q \in Plugin : q # x => status'[q] = status[q]
    BY <1>t, <2>2 DEF SetStatus
  <2>5. Knows(a)'
    BY <2>1, <2>2, <2>3, <2>4 DEF Knows, Activating, Reloading, Dropping, Row, Status, Its
  <2>6. Ready'
    BY <1>c, <2>1, <2>2, <2>4 DEF Ready, SetStatus, Script
  <2>7. \A q \in Plugin : Follows(q)
    BY <1>c, <2>1 DEF FollowedBut, Ahead
  <2>8. FollowedBut(a)'
    BY <1>2, <2>2, <2>4, <2>7 DEF Create, FollowedBut, Follows, SetStatus, Script
  <2> QED
    BY <2>5, <2>6, <2>8 DEF Consistent
<1>3. CASE Provision(a)
  <2>1. /\ p \in Row /\ status[p] = "installing" /\ req[a].hooks = 0
        /\ pc[a] = "provision" /\ req[a].op # "uninstall"
    BY <1>3, <1>c DEF Provision, Knows, Reloading, Dropping
  <2>2. /\ \/ pc'[a] = "registered"
           \/ pc'[a] = "unprovisioned" /\ "schema_error" \in environment
        /\ req'[a] = req[a]
        /\ UNCHANGED <<environment, files, status>>
    BY <1>3, <1>g DEF Provision
  <2>3. Knows(a)'
    BY <2>1, <2>2 DEF Knows, Activating, Reloading, Dropping, Row, Its
  <2>4. Ready' /\ FollowedBut(a)'
    BY <1>3, <1>c, <2>1, StoreStays DEF Provision, Ahead
  <2> QED
    BY <2>3, <2>4 DEF Consistent
<1>4. CASE Unprovisioned(a)
  <2>1. /\ p \in Row /\ status[p] = "installing" /\ pc[a] = "unprovisioned"
        /\ "schema_error" \in environment
    BY <1>4, <1>c DEF Unprovisioned, Knows
  <2>2. SetStatus(p, "error") /\ Finish(a)
    BY <1>4, <2>1 DEF Unprovisioned
  <2>3. status'[p] = "error" /\ \A q \in Plugin : q # p => status'[q] = status[q]
    BY <1>t, <2>1, <2>2 DEF SetStatus, Row
  <2>4. Knows(a)'
    BY <2>2, FinishKnows
  <2>5. Ready'
    BY <1>4, <1>c, <2>1, <2>2, <2>3, InOrderMeans DEF Ready, SetStatus, Only, Script
  <2>6. \A q \in Plugin : Follows(q)
    BY <1>c, <2>1 DEF FollowedBut, Ahead
  <2>7. FollowedBut(a)'
    BY <1>4, <2>1, <2>2, <2>3, <2>6 DEF Unprovisioned, FollowedBut, Follows, SetStatus, Script
  <2> QED
    BY <2>4, <2>5, <2>7 DEF Consistent
<1>5. CASE Registered(a)
  <2>1. /\ p \in Row /\ status[p] = "installing" /\ pc[a] = "registered"
        /\ req[a].hooks = 0 /\ req[a].op # "uninstall"
    BY <1>5, <1>c DEF Registered, Knows, Reloading, Dropping
  <2>2. SetStatus(p, "inactive") /\ pc'[a] = "confirm" /\ req'[a] = req[a] /\ files' = files
    BY <1>5, <1>g, <2>1 DEF Registered
  <2>3. status'[p] = "inactive" /\ \A q \in Plugin : q # p => status'[q] = status[q]
    BY <1>t, <2>1, <2>2 DEF SetStatus, Row
  <2>4. p \in Row'
    BY <2>1, <2>3 DEF Row, Status
  <2>5. Knows(a)'
    BY <2>1, <2>2, <2>3, <2>4 DEF Knows, Activating, Reloading, Dropping, Its
  <2>6. Ready'
    BY <1>5, <1>c, <2>1, <2>2, <2>3 DEF Registered, Ready, SetStatus, Only, Script
  <2>7. \A q \in Plugin : Follows(q)
    BY <1>c, <2>1 DEF FollowedBut, Ahead
  <2>8. FollowedBut(a)'
    BY <1>5, <2>1, <2>2, <2>3, <2>7 DEF Registered, FollowedBut, Follows, SetStatus, Script
  <2> QED
    BY <2>5, <2>6, <2>8 DEF Consistent
<1>6. CASE Confirm(a)
  <2>1. p \in Row /\ pc[a] = "confirm"
    BY <1>6, <1>c DEF Confirm, Knows
  <2>2. Finish(a) /\ files' = files
    BY <1>6, <1>t, <2>1 DEF Confirm, TypeInv, TypeOK
  <2>3. Ready' /\ FollowedBut(a)'
    BY <1>6, <1>c, <2>1, <2>2, StoreStays DEF Confirm, Ahead
  <2> QED
    BY <2>2, <2>3, FinishKnows DEF Consistent
<1> QED
  BY <1>1, <1>2, <1>3, <1>4, <1>5, <1>6

LEMMA ActivateConsistent ==
    ASSUME TypeInv, InOrder, NEW a \in Admin, Consistent(a),
           \/ DeleteHooks(a) \/ CreateHook(a) \/ DeleteSlots(a) \/ CreateSlot(a)
           \/ CreateWebhook(a) \/ SetActive(a) \/ SetActivatedAt(a)
    PROVE  Consistent(a)'
<1> DEFINE p == Its(a)
<1> USE DEF registry, db
<1>t. /\ pc \in [Admin -> Control] /\ req \in [Admin -> Request]
      /\ status \in [Plugin -> Status \cup {"none", "gone"}]
      /\ hooks \in [Plugin -> Nat] /\ Tier \in [Plugin -> {"manifest", "script"}]
  BY PluginConstants DEF TypeInv, TypeOK
<1>c. Knows(a) /\ Ready /\ FollowedBut(a)
  BY DEF Consistent
<1>g. ASSUME NEW label, Goto(a, label) PROVE pc'[a] = label /\ req'[a] = req[a]
  BY <1>g, <1>t DEF Goto
<1>r. Row \subseteq Plugin
  BY DEF Row
<1>1. CASE DeleteHooks(a)
  <2>1. /\ p \in Row /\ pc[a] = "delete_hooks" /\ status[p] # "active" /\ Script(p)
        /\ req[a].hooks = 0 /\ req[a].op # "uninstall"
    BY <1>1, <1>c DEF DeleteHooks, Knows, Activating, Reloading, Dropping
  <2>2. /\ pc'[a] = "create_hook" /\ req'[a] = req[a]
        /\ hooks' = [hooks EXCEPT ![p] = 0]
        /\ UNCHANGED <<environment, status, config, files, dispatch, runtime>>
    BY <1>1, <1>g DEF DeleteHooks, SetRows
  <2>h. hooks'[p] = 0
    BY <1>t, <1>r, <2>1, <2>2
  <2>3. Knows(a)'
    BY <2>1, <2>2, <2>h DEF Knows, Activating, Reloading, Dropping, Row, Its, Script
  <2>4. Ready'
    BY <1>c, <1>t, <2>1, <2>2 DEF Ready, Only, Row, Script
  <2>5. FollowedBut(a)'
    BY <1>c, <2>1, <2>2 DEF FollowedBut, Follows, Ahead, Script
  <2> QED
    BY <2>3, <2>4, <2>5 DEF Consistent
<1>2. CASE CreateHook(a)
  <2>1. /\ p \in Row /\ pc[a] = "create_hook" /\ status[p] # "active" /\ Script(p)
        /\ hooks[p] = 0 /\ req[a].hooks = 0 /\ req[a].op # "uninstall"
    BY <1>2, <1>c DEF CreateHook, Knows, Activating, Reloading, Dropping
  <2>2. /\ pc'[a] = "delete_slots" /\ req'[a] = req[a]
        /\ hooks' = [hooks EXCEPT ![p] = @ + 1]
        /\ UNCHANGED <<environment, status, config, files, dispatch, runtime>>
    BY <1>2, <1>g, <2>1 DEF CreateHook, OnRow, SetRows
  <2>3. hooks'[p] = 1 /\ \A q \in Plugin : q # p => hooks'[q] = hooks[q]
    BY <1>t, <1>r, <2>1, <2>2
  <2>4. Knows(a)'
    BY <2>1, <2>2, <2>3 DEF Knows, Activating, Reloading, Dropping, Row, Its, Script
  <2>5. Ready'
    BY <1>c, <2>1, <2>2, <2>3 DEF Ready, Only, Row, Script
  <2>6. FollowedBut(a)'
    BY <1>c, <2>1, <2>2 DEF FollowedBut, Follows, Ahead, Script
  <2> QED
    BY <2>4, <2>5, <2>6 DEF Consistent
<1>3. CASE DeleteSlots(a)
  <2>1. /\ p \in Row /\ pc[a] = "delete_slots" /\ status[p] # "active"
        /\ Script(p) => hooks[p] = 1
        /\ req[a].hooks = 0 /\ req[a].op # "uninstall"
    BY <1>3, <1>c DEF DeleteSlots, Knows, Activating, Reloading, Dropping
  <2>2. /\ pc'[a] = "create_slot" /\ req'[a] = req[a]
        /\ UNCHANGED <<environment, status, config, hooks, files, dispatch, runtime>>
    BY <1>3, <1>g DEF DeleteSlots, SetRows
  <2>3. Knows(a)'
    BY <2>1, <2>2 DEF Knows, Activating, Reloading, Dropping, Row, Its, Script
  <2> QED
    BY <1>c, <2>1, <2>2, <2>3, StoreStays DEF Consistent, Ahead
<1>4. CASE CreateSlot(a)
  <2>1. /\ p \in Row /\ pc[a] = "create_slot" /\ status[p] # "active"
        /\ Script(p) => hooks[p] = 1
        /\ req[a].hooks = 0 /\ req[a].op # "uninstall"
    BY <1>4, <1>c DEF CreateSlot, Knows, Activating, Reloading, Dropping
  <2>2. /\ pc'[a] = IF Script(p) THEN "set_active" ELSE "create_webhook"
        /\ req'[a] = req[a]
        /\ UNCHANGED <<environment, status, config, hooks, files, dispatch, runtime>>
    BY <1>4, <1>g, <1>t, <1>r, <2>1 DEF CreateSlot, OnRow, SetRows, Script
  <2>3. Knows(a)'
    BY <2>1, <2>2 DEF Knows, Activating, Reloading, Dropping, Row, Its, Script
  <2> QED
    BY <1>c, <2>1, <2>2, <2>3, StoreStays DEF Consistent, Ahead
<1>5. CASE CreateWebhook(a)
  <2>1. /\ p \in Row /\ pc[a] = "create_webhook" /\ status[p] # "active"
        /\ Script(p) => hooks[p] = 1
        /\ req[a].hooks = 0 /\ req[a].op # "uninstall"
    BY <1>5, <1>c DEF CreateWebhook, Knows, Activating, Reloading, Dropping
  <2>2. /\ pc'[a] = "set_active" /\ req'[a] = req[a]
        /\ UNCHANGED <<environment, status, config, hooks, files, dispatch, runtime>>
    BY <1>5, <1>g, <2>1 DEF CreateWebhook, OnRow, SetRows
  <2>3. Knows(a)'
    BY <2>1, <2>2 DEF Knows, Activating, Reloading, Dropping, Row, Its, Script
  <2> QED
    BY <1>c, <2>1, <2>2, <2>3, StoreStays DEF Consistent, Ahead
<1>6. CASE SetActive(a)
  <2>1. /\ p \in Row /\ pc[a] = "set_active"
        /\ Script(p) => hooks[p] = 1
        /\ req[a].hooks = 0 /\ req[a].op # "uninstall"
    BY <1>6, <1>c DEF SetActive, Knows, Activating, Reloading, Dropping
  <2>2. /\ pc'[a] = "set_activated_at" /\ req'[a] = req[a]
        /\ status' = [status EXCEPT ![p] = "active"]
        /\ UNCHANGED <<environment, config, hooks, files, dispatch, runtime>>
    BY <1>6, <1>g, <2>1 DEF SetActive, OnRow, SetStatus
  <2>3. status'[p] = "active" /\ \A q \in Plugin : q # p => status'[q] = status[q]
    BY <1>t, <1>r, <2>1, <2>2
  <2>4. p \in Row' /\ Row # {}
    BY <2>1, <2>3 DEF Row, Status
  <2>5. Knows(a)'
    BY <2>1, <2>2, <2>3, <2>4 DEF Knows, Activating, Reloading, Dropping, Its, Script
  <2>6. Ready'
    BY <1>c, <2>1, <2>2, <2>3, <2>4 DEF Ready, Only, Script
  <2>7. FollowedBut(a)'
    BY <1>c, <2>1, <2>2, <2>3 DEF FollowedBut, Follows, Ahead, Script, Its
  <2> QED
    BY <2>5, <2>6, <2>7 DEF Consistent
<1>7. CASE SetActivatedAt(a)
  <2>1. /\ p \in Row /\ pc[a] = "set_activated_at"
        /\ req[a].hooks = 0 /\ req[a].op # "uninstall"
    BY <1>7, <1>c DEF SetActivatedAt, Knows, Activating, Reloading, Dropping
  <2>2. /\ pc'[a] = "find" /\ req'[a] = req[a]
        /\ UNCHANGED <<environment, status, config, hooks, files, dispatch, runtime>>
    BY <1>7, <1>g DEF SetActivatedAt
  <2>3. Knows(a)'
    BY <2>1, <2>2 DEF Knows, Activating, Reloading, Dropping, Row, Its, Script
  <2> QED
    BY <1>c, <2>1, <2>2, <2>3, StoreStays DEF Consistent, Ahead, Its
<1> QED
  BY <1>1, <1>2, <1>3, <1>4, <1>5, <1>6, <1>7

LEMMA DeactivateConsistent ==
    ASSUME TypeInv, InOrder, NEW a \in Admin, Consistent(a),
           \/ SetInactive(a) \/ DeleteWebhooks(a) \/ DropSlots(a) \/ UpdateConfig(a)
    PROVE  Consistent(a)'
<1> DEFINE p == Its(a)
<1> USE DEF registry, db
<1>t. /\ pc \in [Admin -> Control] /\ req \in [Admin -> Request]
      /\ status \in [Plugin -> Status \cup {"none", "gone"}]
      /\ config \in [Plugin -> Config \cup {NoConfig}]
  BY DEF TypeInv, TypeOK
<1>c. Knows(a) /\ Ready /\ FollowedBut(a)
  BY DEF Consistent
<1>g. ASSUME NEW label, Goto(a, label) PROVE pc'[a] = label /\ req'[a] = req[a]
  BY <1>g, <1>t DEF Goto
<1>r. Row \subseteq Plugin
  BY DEF Row
<1>1. CASE SetInactive(a)
  <2>1. /\ p \in Row /\ pc[a] = "set_inactive"
        /\ req[a].hooks = 0 /\ req[a].op # "uninstall"
    BY <1>1, <1>c DEF SetInactive, Knows, Activating, Reloading, Dropping
  <2>2. /\ pc'[a] = "delete_webhooks" /\ req'[a] = req[a]
        /\ status' = [status EXCEPT ![p] = "inactive"]
        /\ UNCHANGED <<environment, config, hooks, files, dispatch, runtime>>
    BY <1>1, <1>g, <2>1 DEF SetInactive, OnRow, SetStatus
  <2>3. status'[p] = "inactive" /\ \A q \in Plugin : q # p => status'[q] = status[q]
    BY <1>t, <1>r, <2>1, <2>2
  <2>4. p \in Row' /\ Row # {}
    BY <2>1, <2>3 DEF Row, Status
  <2>5. Knows(a)'
    BY <2>1, <2>2, <2>3, <2>4 DEF Knows, Activating, Reloading, Dropping, Its, Script
  <2>6. Ready'
    BY <1>c, <2>1, <2>2, <2>3, <2>4 DEF Ready, Only, Script
  <2>7. FollowedBut(a)'
    BY <1>c, <2>1, <2>2, <2>3 DEF FollowedBut, Follows, Ahead, Script, Its
  <2> QED
    BY <2>5, <2>6, <2>7 DEF Consistent
<1>2. CASE DeleteWebhooks(a)
  <2>1. /\ p \in Row /\ pc[a] = "delete_webhooks" /\ status[p] = "inactive"
        /\ req[a].hooks = 0 /\ req[a].op # "uninstall"
    BY <1>2, <1>c DEF DeleteWebhooks, Knows, Activating, Reloading, Dropping
  <2>2. /\ pc'[a] = "drop_slots" /\ req'[a] = req[a]
        /\ UNCHANGED <<environment, status, config, hooks, files, dispatch, runtime>>
    BY <1>2, <1>g DEF DeleteWebhooks, SetRows
  <2>3. Knows(a)'
    BY <2>1, <2>2 DEF Knows, Activating, Reloading, Dropping, Row, Its, Script
  <2> QED
    BY <1>c, <2>1, <2>2, <2>3, StoreStays DEF Consistent, Ahead, Its
<1>3. CASE DropSlots(a)
  <2>1. /\ p \in Row /\ pc[a] = "drop_slots"
        /\ req[a].hooks = 0 /\ req[a].op # "uninstall"
    BY <1>3, <1>c DEF DropSlots, Knows, Activating, Reloading, Dropping
  <2>2. /\ pc'[a] = "find" /\ req'[a] = req[a]
        /\ UNCHANGED <<environment, status, config, hooks, files, dispatch, runtime>>
    BY <1>3, <1>g DEF DropSlots, SetRows
  <2>3. Knows(a)'
    BY <2>1, <2>2 DEF Knows, Activating, Reloading, Dropping, Row, Its, Script
  <2> QED
    BY <1>c, <2>1, <2>2, <2>3, StoreStays DEF Consistent, Ahead, Its
<1>4. CASE UpdateConfig(a)
  <2>1. /\ p \in Row /\ pc[a] = "configure"
        /\ req[a].hooks = 0 /\ req[a].op # "uninstall"
    BY <1>4, <1>c DEF UpdateConfig, Knows, Activating, Reloading, Dropping
  <2>2. /\ pc'[a] = "find" /\ req'[a] = req[a]
        /\ config' = [config EXCEPT ![p] = req[a].config]
        /\ UNCHANGED <<environment, status, hooks, files, dispatch, runtime>>
    BY <1>4, <1>g, <2>1 DEF UpdateConfig, OnRow
  <2>3. \A q \in Plugin : q # p => config'[q] = config[q]
    BY <1>t, <2>2
  <2>4. Knows(a)'
    BY <2>1, <2>2 DEF Knows, Activating, Reloading, Dropping, Row, Its, Script
  <2>5. Ready'
    BY <1>c, <2>2 DEF Ready, Only, Row, Script
  <2>6. FollowedBut(a)'
    BY <1>c, <2>1, <2>2, <2>3 DEF FollowedBut, Follows, Ahead, Script, Its
  <2> QED
    BY <2>4, <2>5, <2>6 DEF Consistent
<1> QED
  BY <1>1, <1>2, <1>3, <1>4

LEMMA UninstallConsistent ==
    ASSUME TypeInv, OneRow, InOrder, NEW a \in Admin, Consistent(a),
           SetUninstalling(a) \/ DropSchema(a) \/ DeleteRow(a)
    PROVE  Consistent(a)'
<1> DEFINE p == Its(a)
<1> USE DEF registry, db
<1>t. /\ pc \in [Admin -> Control] /\ req \in [Admin -> Request]
      /\ status \in [Plugin -> Status \cup {"none", "gone"}]
      /\ hooks \in [Plugin -> Nat]
  BY DEF TypeInv, TypeOK
<1>c. Knows(a) /\ Ready /\ FollowedBut(a)
  BY DEF Consistent
<1>g. ASSUME NEW label, Goto(a, label) PROVE pc'[a] = label /\ req'[a] = req[a]
  BY <1>g, <1>t DEF Goto
<1>r. Row \subseteq Plugin
  BY DEF Row
<1>1. CASE SetUninstalling(a)
  <2>1. /\ p \in Row /\ pc[a] = "set_uninstalling" /\ req[a].hooks = 0
    BY <1>1, <1>c DEF SetUninstalling, Knows, Activating, Reloading, Dropping
  <2>2. /\ pc'[a] = "find" /\ req'[a] = req[a]
        /\ status' = [status EXCEPT ![p] = "uninstalling"]
        /\ UNCHANGED <<environment, config, hooks, files, dispatch, runtime>>
    BY <1>1, <1>g, <2>1 DEF SetUninstalling, OnRow, SetStatus
  <2>3. status'[p] = "uninstalling" /\ \A q \in Plugin : q # p => status'[q] = status[q]
    BY <1>t, <1>r, <2>1, <2>2
  <2>4. p \in Row' /\ Row # {}
    BY <2>1, <2>3 DEF Row, Status
  <2>5. Knows(a)'
    BY <2>1, <2>2, <2>3, <2>4 DEF Knows, Activating, Reloading, Dropping, Its, Script
  <2>6. Ready'
    BY <1>c, <2>1, <2>2, <2>3, <2>4 DEF Ready, Only, Script
  <2>7. FollowedBut(a)'
    BY <1>c, <2>1, <2>2, <2>3 DEF FollowedBut, Follows, Ahead, Script, Its
  <2> QED
    BY <2>5, <2>6, <2>7 DEF Consistent
<1>2. CASE DropSchema(a)
  <2>1. /\ p \in Row /\ pc[a] = "drop_schema" /\ req[a].op = "uninstall"
        /\ status[p] = "uninstalling"
    BY <1>2, <1>c DEF DropSchema, Knows, Activating, Reloading, Dropping
  <2>2. /\ pc'[a] = "delete_row" /\ req'[a] = req[a]
        /\ UNCHANGED <<environment, status, config, hooks, files, dispatch, runtime>>
    BY <1>2, <1>g DEF DropSchema
  <2>3. Knows(a)'
    BY <2>1, <2>2 DEF Knows, Activating, Reloading, Dropping, Row, Its, Script
  <2> QED
    BY <1>c, <2>1, <2>2, <2>3, StoreStays DEF Consistent, Ahead, Its
<1>3. CASE DeleteRow(a)
  <2>1. /\ p \in Row /\ pc[a] = "delete_row" /\ status[p] = "uninstalling"
    BY <1>3, <1>c DEF DeleteRow, Cascade, Knows, Activating, Reloading, Dropping
  <2>2. /\ Finish(a)
        /\ status' = [status EXCEPT ![p] = "gone"]
        /\ hooks' = [hooks EXCEPT ![p] = 0]
        /\ UNCHANGED <<environment, config, dispatch, runtime>>
    BY <1>3, <2>1 DEF DeleteRow, Cascade
  <2>3. status'[p] = "gone" /\ \A q \in Plugin : q # p => /\ status'[q] = status[q]
                                                          /\ hooks'[q] = hooks[q]
    BY <1>t, <1>r, <2>1, <2>2
  <2>4. Row' = {}
    BY <1>3, <2>1, DeleteOneRow DEF OneRow
  <2>5. Ready'
    BY <1>c, <2>2, <2>3, <2>4 DEF Ready, Only, Script
  <2>6. \A q \in Plugin : Follows(q)
    BY <1>c, <2>1 DEF FollowedBut, Ahead
  <2>7. FollowedBut(a)'
    BY <2>1, <2>2, <2>3, <2>6 DEF FollowedBut, Follows, Script
  <2> QED
    BY <2>2, <2>5, <2>7, FinishKnows DEF Consistent
<1> QED
  BY <1>1, <1>2, <1>3

LEMMA ReloadConsistent ==
    ASSUME TypeInv, InOrder, NEW a \in Admin, Consistent(a),
           Find(a) \/ ReadHooks(a) \/ Table(a) \/ Runtime(a) \/ MarkError(a)
    PROVE  Consistent(a)'
<1> DEFINE p == Its(a)
<1> USE DEF registry, db
<1>t. /\ pc \in [Admin -> Control] /\ req \in [Admin -> Request]
      /\ status \in [Plugin -> Status \cup {"none", "gone"}]
      /\ hooks \in [Plugin -> Nat] /\ dispatch \in [Plugin -> Nat]
      /\ runtime \in [Plugin -> Config \cup {NoConfig, "none"}]
  BY DEF TypeInv, TypeOK
<1>c. Knows(a) /\ Ready /\ FollowedBut(a)
  BY DEF Consistent
<1>q. req[a] \in Request
  BY <1>t
<1>g. ASSUME NEW label, Goto(a, label) PROVE pc'[a] = label /\ req'[a] = req[a]
  BY <1>g, <1>t DEF Goto
<1>r. Row \subseteq Plugin
  BY DEF Row
<1>o. \A q \in Plugin : q # p => Follows(q)
  BY <1>c DEF FollowedBut
<1>1. CASE Find(a)
  <2>1. /\ p \in Row /\ pc[a] = "find" /\ req[a].hooks = 0
        /\ req[a].op = "uninstall" => status[p] = "uninstalling"
    BY <1>1, <1>c DEF Find, Knows, Activating, Reloading, Dropping
  <2>2. /\ req' = [req EXCEPT ![a].status = status[p], ![a].config = config[p]]
        /\ pc' = [pc EXCEPT ![a] = IF status[p] = "active" THEN "read_hooks" ELSE "table"]
        /\ UNCHANGED <<environment, status, config, hooks, files, dispatch, runtime>>
    BY <1>1, <2>1 DEF Find
  <2>3. /\ req'[a].op = req[a].op /\ req'[a].hooks = req[a].hooks
        /\ req'[a].plugin = p /\ req'[a].status = status[p] /\ req'[a].config = config[p]
    BY <1>q, <1>t, <2>2 DEF Request, Its
  <2>4. pc'[a] = IF status[p] = "active" THEN "read_hooks" ELSE "table"
    BY <1>t, <2>2
  <2>5. Knows(a)'
    BY <2>1, <2>2, <2>3, <2>4
    DEF Knows, Activating, Reloading, Dropping, Row, Its, ToDispatch
  <2> QED
    BY <1>c, <2>2, <2>3, <2>4, <2>5, StoreStays DEF Consistent, Ahead, Its
<1>2. CASE ReadHooks(a)
  <2>1. /\ p \in Row /\ pc[a] = "read_hooks" /\ status[p] = "active"
        /\ req[a].op = "uninstall" => status[p] = "uninstalling"
        /\ req[a].status = status[p] /\ req[a].config = config[p]
    BY <1>2, <1>c DEF ReadHooks, Knows, Activating, Reloading, Dropping
  <2>2. /\ req' = [req EXCEPT ![a].hooks = hooks[p]]
        /\ pc' = [pc EXCEPT ![a] = "table"]
        /\ UNCHANGED <<environment, status, config, hooks, files, dispatch, runtime>>
    BY <1>2 DEF ReadHooks
  <2>3. /\ req'[a].op = req[a].op /\ req'[a].hooks = hooks[p]
        /\ req'[a].plugin = p /\ req'[a].status = status[p] /\ req'[a].config = config[p]
    BY <1>q, <1>t, <2>1, <2>2 DEF Request, Its
  <2>4. pc'[a] = "table"
    BY <1>t, <2>2
  <2>5. Knows(a)'
    BY <2>1, <2>2, <2>3, <2>4
    DEF Knows, Activating, Reloading, Dropping, Row, Its, ToDispatch
  <2> QED
    BY <1>c, <2>2, <2>3, <2>4, <2>5, StoreStays DEF Consistent, Ahead, Its
<1>3. CASE Table(a)
  <2>1. /\ p \in Row /\ pc[a] = "table" /\ req[a].hooks = ToDispatch(p)
        /\ req[a].op = "uninstall" => status[p] = "uninstalling"
        /\ req[a].status = status[p] /\ req[a].config = config[p]
    BY <1>3, <1>c DEF Table, Knows, Activating, Reloading, Dropping
  <2>2. /\ pc'[a] = "runtime" /\ req'[a] = req[a]
        /\ dispatch' = [dispatch EXCEPT ![p] = req[a].hooks]
        /\ UNCHANGED <<environment, status, config, hooks, files, runtime>>
    BY <1>3, <1>g DEF Table
  <2>3. /\ dispatch'[p] = ToDispatch(p)
        /\ \A q \in Plugin : q # p => dispatch'[q] = dispatch[q]
    BY <1>t, <1>r, <2>1, <2>2
  <2>4. Knows(a)'
    BY <2>1, <2>2, <2>3 DEF Knows, Activating, Reloading, Dropping, Row, Its, ToDispatch
  <2>5. Ready'
    BY <1>c, <2>2 DEF Ready, Only, Row, Script
  <2>6. FollowedBut(a)'
    BY <1>o, <2>2, <2>3 DEF FollowedBut, Follows, Ahead, Its, Script
  <2> QED
    BY <2>4, <2>5, <2>6 DEF Consistent
<1>4. CASE Runtime(a)
  <2>1. /\ p \in Row /\ pc[a] = "runtime" /\ dispatch[p] = ToDispatch(p)
        /\ req[a].op = "uninstall" => status[p] = "uninstalling"
        /\ req[a].status = status[p] /\ req[a].config = config[p]
    BY <1>4, <1>c DEF Runtime, Knows, Activating, Reloading, Dropping
  <2>2. UNCHANGED <<environment, status, config, hooks, files, dispatch>>
    BY <1>4 DEF Runtime
  <2>3. Ready'
    BY <1>c, <2>2 DEF Ready, Only, Row, Script
  <2>w. Wanted(a) <=> status[p] = "active" /\ Script(p)
    BY <2>1 DEF Wanted, Script
  <2>d. /\ status[p] = "active" /\ Script(p) => dispatch[p] = 1
        /\ status[p] # "active" => dispatch[p] = 0
    BY <1>c, <1>r, <2>1 DEF Ready, ToDispatch
  <2>4. CASE /\ Reloaded(a)
             /\ runtime' = [runtime EXCEPT ![p] = IF Wanted(a) THEN config[p] ELSE "none"]
    <3>1. /\ runtime'[p] = IF Wanted(a) THEN config[p] ELSE "none"
          /\ \A q \in Plugin : q # p => runtime'[q] = runtime[q]
      BY <1>t, <1>r, <2>1, <2>4
    <3>2. \A q \in Plugin : q = p => Follows(q)'
      BY <2>2, <2>w, <2>d, <3>1 DEF Follows, Script
    <3>3. FollowedBut(a)'
      BY <1>o, <2>2, <3>1, <3>2 DEF FollowedBut, Follows, Script
    <3>4. CASE req[a].op = "uninstall"
      <4>1. pc'[a] = "drop_schema" /\ req'[a] = req[a]
        BY <1>g, <2>4, <3>4 DEF Reloaded
      <4>2. Knows(a)'
        BY <2>1, <2>2, <3>4, <4>1 DEF Knows, Activating, Reloading, Dropping, Row, Its
      <4> QED
        BY <2>3, <3>3, <4>2 DEF Consistent
    <3>5. CASE req[a].op # "uninstall"
      BY <2>3, <2>4, <3>3, <3>5, FinishKnows DEF Consistent, Reloaded
    <3> QED
      BY <3>4, <3>5
  <2>5. CASE /\ Wanted(a) /\ Goto(a, "mark_error")
             /\ runtime' = [runtime EXCEPT ![p] = "none"]
    <3>1. /\ runtime'[p] = "none"
          /\ \A q \in Plugin : q # p => runtime'[q] = runtime[q]
      BY <1>t, <1>r, <2>1, <2>5
    <3>2. pc'[a] = "mark_error" /\ req'[a] = req[a]
      BY <1>g, <2>5
    <3>3. Knows(a)'
      BY <2>1, <2>2, <2>5, <3>1, <3>2
      DEF Knows, Activating, Reloading, Dropping, Row, Its, ToDispatch, Wanted
    <3>4. FollowedBut(a)'
      BY <1>o, <2>2, <3>1, <3>2 DEF FollowedBut, Follows, Ahead, Its, Script
    <3> QED
      BY <2>3, <3>3, <3>4 DEF Consistent
  <2> QED
    BY <1>4, <2>1, <2>4, <2>5 DEF Runtime
<1>5. CASE MarkError(a)
  <2>1. /\ p \in Row /\ pc[a] = "mark_error" /\ Wanted(a) /\ runtime[p] = "none"
        /\ status[p] = "active" /\ req[a].op # "uninstall"
    BY <1>5, <1>c DEF MarkError, Knows, Activating, Reloading, Dropping, Wanted
  <2>2. /\ Finish(a)
        /\ status' = [status EXCEPT ![p] = "error"]
        /\ UNCHANGED <<environment, config, hooks, files, dispatch, runtime>>
    BY <1>5, <2>1 DEF MarkError, Reloaded, SetStatus
  <2>3. status'[p] = "error" /\ \A q \in Plugin : q # p => status'[q] = status[q]
    BY <1>t, <1>r, <2>1, <2>2
  <2>4. Ready'
    BY <1>c, <2>1, <2>2, <2>3 DEF Ready, Only, Script
  <2>5. \A q \in Plugin : q = p => Follows(q)'
    BY <2>1, <2>2, <2>3 DEF Follows, Script
  <2>6. FollowedBut(a)'
    BY <1>o, <2>2, <2>3, <2>5 DEF FollowedBut, Follows, Script
  <2> QED
    BY <2>2, <2>4, <2>6, FinishKnows DEF Consistent
<1> QED
  BY <1>1, <1>2, <1>3, <1>4, <1>5

RegistryInv == KnowsInv /\ ReadyInv /\ FollowsInv

LEMMA NextRegistry ==
    TypeInv /\ OneRow /\ SerialInv /\ RegistryInv /\ [Next]_vars => RegistryInv'
<1> SUFFICES ASSUME TypeInv, OneRow, SerialInv, RegistryInv, [Next]_vars, InOrder'
             PROVE  /\ \A a \in Admin : Knows(a)'
                    /\ Ready'
                    /\ \A p \in Plugin : (\E a \in Admin : Its(a) = p /\ pc[a] \in Ahead)'
                                         \/ Follows(p)'
  BY DEF RegistryInv, KnowsInv, ReadyInv, FollowsInv
<1>e. InOrder
  BY EnvironmentStays DEF InOrder, Only
<1>k. (\A a \in Admin : Knows(a)) /\ Ready
  BY <1>e DEF RegistryInv, KnowsInv, ReadyInv
<1>f. \A p \in Plugin : (\E a \in Admin : Its(a) = p /\ pc[a] \in Ahead) \/ Follows(p)
  BY <1>e DEF RegistryInv, FollowsInv
<1>1. CASE UNCHANGED vars
  BY <1>1, <1>k, <1>f DEF vars, Knows, Ready, Follows, Only, Row, Its, ToDispatch, Wanted
<1>2. ASSUME NEW a \in Admin, Act(a)
      PROVE  /\ \A b \in Admin : Knows(b)'
             /\ Ready'
             /\ \A p \in Plugin : (\E b \in Admin : Its(b) = p /\ pc[b] \in Ahead)'
                                  \/ Follows(p)'
  <2>1. \A b \in Admin : b # a => /\ pc[b] = "idle" /\ pc'[b] = "idle"
                                  /\ req'[b] = req[b]
    BY <1>2, <1>e, ActsAlone, InOrderMeans
  <2>2. Consistent(a)
    BY <1>k, <1>f, <2>1 DEF Consistent, FollowedBut, Ahead
  <2>3. ~DbError(a)
    BY <1>e, InOrderMeans DEF DbError
  <2>4. Consistent(a)'
    BY <1>2, <1>e, <2>2, <2>3, BeginConsistent, InstallConsistent, ActivateConsistent,
       DeactivateConsistent, UninstallConsistent, ReloadConsistent DEF Act, Step
  <2>5. ASSUME NEW b \in Admin, b # a PROVE Knows(b)'
    <3>1. req[b].hooks = 0
      BY <1>k, <2>1, <2>5 DEF Knows, Reloading, Dropping
    <3>2. pc'[b] = "idle" /\ req'[b].hooks = 0
      BY <2>1, <2>5, <3>1
    <3> QED
      BY <3>2 DEF Knows, Activating, Reloading, Dropping
  <2> QED
    BY <2>4, <2>5 DEF Consistent, FollowedBut
<1>3. CASE Restart
  <2>1. Only({"restart"})
    BY <1>3, <1>e, InOrderMeans DEF Restart
  <2>2. UNCHANGED <<environment, status, config, hooks, files>>
    BY <1>3 DEF Restart, db
  <2>3. \A a \in Admin : pc'[a] = "idle" /\ req'[a] = NoRequest
    BY <1>3 DEF Restart
  <2>4. \A a \in Admin : Knows(a)'
    BY <2>3 DEF Knows, Activating, Reloading, Dropping, NoRequest
  <2>5. Ready'
    BY <1>k, <2>2 DEF Ready, Only, Row, Script
  <2>6. ASSUME NEW p \in Plugin PROVE Follows(p)'
    <3>1. /\ dispatch'[p] = IF status[p] = "active" THEN hooks[p] ELSE 0
          /\ runtime'[p] = IF status[p] = "active" /\ Script(p) /\ files
                           THEN config[p] ELSE "none"
      BY <1>3 DEF Restart, Script
    <3>2. status[p] = "active" => files
      BY <1>k, <2>1 DEF Ready, Row, Status
    <3> QED
      BY <1>k, <2>2, <3>1, <3>2 DEF Follows, Ready, Script
  <2> QED
    BY <2>4, <2>5, <2>6
<1> QED
  BY <1>1, <1>2, <1>3, NextIsActs

LEMMA InitRegistry == Init => TypeInv /\ OneRow /\ SerialInv /\ RegistryInv
<1> SUFFICES ASSUME Init PROVE OneRow /\ SerialInv /\ RegistryInv
  BY InitTypeInv
<1>1. Row = {}
  BY DEF Init, Row, Status
<1>2. \A a \in Admin : pc[a] = "idle" /\ req[a] = NoRequest
  BY DEF Init
<1>3. \A a \in Admin : Knows(a)
  BY <1>2 DEF Knows, Activating, Reloading, Dropping, NoRequest
<1>4. Ready /\ \A p \in Plugin : Follows(p)
  BY <1>1 DEF Init, Ready, Follows
<1> QED
  BY <1>1, <1>2, <1>3, <1>4
  DEF OneRow, SerialInv, Busy, RegistryInv, KnowsInv, ReadyInv, FollowsInv

(* What reload_plugin and load_from_db are for: between requests that come *)
(* one at a time, with restarts or with failing schemas, the dispatch      *)
(* table has a script plugin's hook exactly while the plugin is active,    *)
(* and its runtime works with the configuration saved last.                *)
THEOREM RegistryUpToDate == Spec => []RegistryFollowsRow
<1> DEFINE Inv == TypeInv /\ OneRow /\ SerialInv /\ RegistryInv
<1>1. Init => Inv
  BY InitRegistry
<1>2. Inv /\ [Next]_vars => Inv'
  BY NextTypeInv, NextOneRow, NextSerial, NextRegistry
<1>3. Inv => RegistryFollowsRow
  BY DEF RegistryInv, FollowsInv, RegistryFollowsRow, InOrder, Quiet, Ahead, Follows
<1> QED
  BY <1>1, <1>2, <1>3, PTL DEF Spec

-----------------------------------------------------------------------------
(***************************************************************************)
(* The webhook.                                                            *)
(***************************************************************************)

Due(p) == IF status[p] = "active" THEN 1 ELSE 0
Posted(a) ==
    /\ \A q \in Plugin : Script(q) => webhooks[q] = 0
    /\ \A q \in Plugin : ~Script(q) => Excuses(a, q) \/ webhooks[q] = Due(q)
    /\ pc[a] = "set_active" /\ ~Script(Its(a)) => webhooks[Its(a)] = 1

(* What a request owes the webhook when it begins and when it has ended.   *)
LEMMA NothingOwed ==
    ASSUME TypeInv, NEW a \in Admin, Posted(a), UNCHANGED <<status, webhooks>>,
           \A q \in Plugin : ~Excuses(a, q), pc'[a] # "set_active"
    PROVE  Posted(a)'
  BY DEF Posted, Due, Script

LEMMA QuietStepPosts ==
    ASSUME TypeInv, InOrder, NEW a \in Admin, Consistent(a), Posted(a),
           \/ Extract(a)
           \/ \E p \in Plugin : \/ BeginActivate(a, p) \/ BeginDeactivate(a, p)
                                \/ BeginUninstall(a, p)
                                \/ \E c \in Config : BeginConfigure(a, p, c)
           \/ Register(a) \/ Provision(a) \/ Confirm(a)
           \/ DeleteHooks(a) \/ CreateHook(a) \/ DeleteSlots(a)
           \/ SetActivatedAt(a) \/ DropSlots(a) \/ UpdateConfig(a)
    PROVE  Posted(a)'
<1> USE DEF db
<1>t. pc \in [Admin -> Control] /\ req \in [Admin -> Request]
  BY DEF TypeInv, TypeOK
<1>k. Knows(a)
  BY DEF Consistent
<1>1. CASE pc[a] = "idle"
  <2>1. \A q \in Plugin : ~Excuses(a, q)
    BY <1>1 DEF Excuses
  <2>2. UNCHANGED <<status, webhooks>> /\ pc'[a] # "set_active"
    BY <1>1, <1>t DEF Extract, BeginActivate, BeginDeactivate, BeginUninstall,
       BeginConfigure, Begin, Register, Provision, Confirm, DeleteHooks, CreateHook,
       DeleteSlots, SetActivatedAt, DropSlots, UpdateConfig
  <2> QED
    BY <2>1, <2>2, NothingOwed
<1>2. CASE pc[a] # "idle"
  <2>1. \/ Register(a) \/ Provision(a) \/ Confirm(a)
        \/ DeleteHooks(a) \/ CreateHook(a) \/ DeleteSlots(a)
        \/ SetActivatedAt(a) \/ DropSlots(a) \/ UpdateConfig(a)
    BY <1>2 DEF Extract, BeginActivate, BeginDeactivate, BeginUninstall, BeginConfigure,
                Begin
  <2>2. req[a].op # "uninstall"
    BY <1>k, <1>2, <2>1 DEF Knows, Reloading, Dropping, Register, Provision, Confirm,
       DeleteHooks, CreateHook, DeleteSlots, SetActivatedAt, DropSlots, UpdateConfig
  <2>3. \A q \in Plugin : ~Excuses(a, q)
    BY <2>1, <2>2 DEF Excuses, Register, Provision, Confirm,
       DeleteHooks, CreateHook, DeleteSlots, SetActivatedAt, DropSlots, UpdateConfig
  <2>4. UNCHANGED <<status, webhooks>> /\ pc'[a] # "set_active"
    BY <2>1, <1>t DEF Register, Provision, Confirm, DeleteHooks, CreateHook,
       DeleteSlots, SetActivatedAt, DropSlots, UpdateConfig, OnRow, SetRows, Goto, Finish
  <2> QED
    BY <2>3, <2>4, NothingOwed
<1> QED
  BY <1>1, <1>2

(* Uninstalling, a reload goes on to the schema and the row.               *)
LEMMA ReloadPosts ==
    ASSUME TypeInv, InOrder, NEW a \in Admin, Consistent(a), Posted(a),
           Find(a) \/ ReadHooks(a) \/ Table(a) \/ Runtime(a) \/ MarkError(a) \/ DropSchema(a)
    PROVE  Posted(a)'
<1> DEFINE p == Its(a)
<1> USE DEF db
<1>t. /\ pc \in [Admin -> Control] /\ req \in [Admin -> Request]
      /\ status \in [Plugin -> Status \cup {"none", "gone"}]
  BY DEF TypeInv, TypeOK
<1>q. req[a] \in Request
  BY <1>t
<1>k. Knows(a)
  BY DEF Consistent
<1>r. Row \subseteq Plugin
  BY DEF Row
<1>1. CASE MarkError(a)
  <2>1. p \in Row /\ Script(p) /\ pc[a] = "mark_error" /\ req[a].op # "uninstall"
    BY <1>1, <1>k DEF MarkError, Knows, Reloading, Wanted, Script
  <2>2. Finish(a) /\ status' = [status EXCEPT ![p] = "error"] /\ webhooks' = webhooks
    BY <1>1, <2>1 DEF MarkError, Reloaded, SetStatus
  <2>3. pc'[a] = "idle" /\ \A q \in Plugin : ~Excuses(a, q)
    BY <1>t, <2>1, <2>2 DEF Finish, Excuses
  <2>4. \A q \in Plugin : ~Script(q) => status'[q] = status[q]
    BY <1>t, <1>r, <2>1, <2>2
  <2> QED
    BY <2>2, <2>3, <2>4 DEF Posted, Due, Script
<1>2. CASE ~MarkError(a)
  <2>1. UNCHANGED <<status, webhooks>>
    BY <1>2 DEF Find, ReadHooks, Table, Runtime, DropSchema
  <2>2. pc[a] \in {"find", "read_hooks", "table", "runtime", "drop_schema"} /\ p \in Row
    BY <1>2, <1>k DEF Find, ReadHooks, Table, Runtime, DropSchema, Knows
  <2>3. CASE req[a].op = "uninstall"
    <3>1. req'[a].op = "uninstall" /\ req'[a].plugin = p
      <4>1. CASE Find(a)
        BY <4>1, <1>q, <1>t, <2>2, <2>3 DEF Find, Request, Its
      <4>2. CASE ReadHooks(a)
        BY <4>2, <1>q, <1>t, <2>3 DEF ReadHooks, Request, Its
      <4>3. CASE Table(a) \/ Runtime(a) \/ DropSchema(a)
        BY <4>3, <2>3 DEF Table, Runtime, DropSchema, Reloaded, Goto, Its
      <4> QED
        BY <1>2, <4>1, <4>2, <4>3
    <3>2. pc'[a] \in {"read_hooks", "table", "runtime", "mark_error", "drop_schema",
                      "delete_row"}
      BY <1>2, <1>t, <2>2, <2>3 DEF Find, ReadHooks, Table, Runtime, DropSchema, Reloaded, Goto
    <3>3. \A q \in Plugin : Excuses(a, q) => Excuses(a, q)'
      BY <3>1, <3>2 DEF Excuses, Its
    <3> QED
      BY <2>1, <3>2, <3>3 DEF Posted, Due, Script
  <2>4. CASE req[a].op # "uninstall"
    <3>1. \A q \in Plugin : ~Excuses(a, q)
      BY <2>2, <2>4 DEF Excuses
    <3>2. pc'[a] # "set_active"
      BY <1>2, <1>t, <2>2 DEF Find, ReadHooks, Table, Runtime, DropSchema, Reloaded, Goto,
                              Finish
    <3> QED
      BY <2>1, <3>1, <3>2, NothingOwed
  <2> QED
    BY <2>3, <2>4
<1> QED
  BY <1>1, <1>2

(* The installation of a row and what comes before its activation.         *)
LEMMA InstallPosts ==
    ASSUME TypeInv, InOrder, NEW a \in Admin, Consistent(a), Posted(a),
           Create(a) \/ Unprovisioned(a) \/ Registered(a) \/ CreateSlot(a) \/ CreateWebhook(a)
    PROVE  Posted(a)'
<1> DEFINE p == Its(a)
<1> USE DEF db
<1>t. /\ pc \in [Admin -> Control] /\ req \in [Admin -> Request]
      /\ status \in [Plugin -> Status \cup {"none", "gone"}]
      /\ webhooks \in [Plugin -> Nat] /\ Tier \in [Plugin -> {"manifest", "script"}]
  BY PluginConstants DEF TypeInv, TypeOK
<1>k. Knows(a)
  BY DEF Consistent
<1>r. Row \subseteq Plugin
  BY DEF Row
<1>e. \A q \in Plugin : ~Excuses(a, q)
  BY <1>k DEF Knows, Reloading, Dropping, Excuses, Create, Unprovisioned, Registered,
              CreateSlot, CreateWebhook
<1>w. \A q \in Plugin : webhooks[q] = IF Script(q) THEN 0 ELSE Due(q)
  BY <1>e DEF Posted
<1>1. CASE Create(a)
  <2>1. Row = {}
    BY <1>1, <1>k DEF Create, Knows
  <2>2. PICK x \in Plugin : /\ status[x] = "none"
                            /\ SetStatus(x, "installing")
                            /\ pc' = [pc EXCEPT ![a] = "provision"]
    BY <1>1, <2>1 DEF Create
  <2>3. pc'[a] = "provision" /\ webhooks' = webhooks
    BY <1>t, <2>2 DEF SetStatus
  <2>4. \A q \in Plugin : status'[q] = "active" <=> status[q] = "active"
    BY <1>t, <2>2 DEF SetStatus
  <2> QED
    BY <1>w, <2>3, <2>4 DEF Posted, Due, Script
<1>2. CASE Unprovisioned(a) \/ Registered(a)
  <2>1. /\ p \in Row /\ status[p] = "installing"
    BY <1>2, <1>k DEF Unprovisioned, Registered, Knows
  <2>2. /\ SetStatus(p, "error") \/ SetStatus(p, "inactive")
        /\ pc'[a] # "set_active"
    BY <1>2, <1>t, <2>1 DEF Unprovisioned, Registered, Finish, Goto
  <2>3. webhooks' = webhooks /\ \A q \in Plugin : status'[q] = "active" <=> status[q] = "active"
    BY <1>t, <1>r, <2>1, <2>2 DEF SetStatus
  <2> QED
    BY <1>w, <2>2, <2>3 DEF Posted, Due, Script
<1>3. CASE CreateSlot(a)
  <2>1. /\ p \in Row /\ UNCHANGED <<status, webhooks>> /\ req'[a] = req[a]
        /\ ~Script(p) => pc'[a] # "set_active"
    BY <1>3, <1>k, <1>t, <1>r DEF CreateSlot, Knows, OnRow, SetRows, Goto, Script
  <2> QED
    BY <1>w, <2>1 DEF Posted, Due, Script, Its
<1>4. CASE CreateWebhook(a)
  <2>1. p \in Row /\ ~Script(p) /\ status[p] # "active"
    BY <1>4, <1>k DEF CreateWebhook, Knows, Activating
  <2>2. /\ status' = status /\ webhooks' = [webhooks EXCEPT ![p] = @ + 1]
        /\ pc'[a] = "set_active" /\ req'[a] = req[a]
    BY <1>4, <1>t, <2>1 DEF CreateWebhook, OnRow, SetRows, Goto
  <2>3. webhooks'[p] = 1 /\ \A q \in Plugin : q # p => webhooks'[q] = webhooks[q]
    BY <1>t, <1>r, <1>w, <2>1, <2>2 DEF Due
  <2> QED
    BY <1>w, <2>1, <2>2, <2>3 DEF Posted, Due, Script, Its, Excuses
<1> QED
  BY <1>1, <1>2, <1>3, <1>4

(* The steps that change the status of an activation or deactivation, its  *)
(* webhook, and the end of an uninstallation.                              *)
LEMMA ChangePosts ==
    ASSUME TypeInv, InOrder, NEW a \in Admin, Consistent(a), Posted(a),
           \/ SetActive(a) \/ SetInactive(a) \/ DeleteWebhooks(a)
           \/ SetUninstalling(a) \/ DeleteRow(a)
    PROVE  Posted(a)'
<1> DEFINE p == Its(a)
<1> USE DEF db
<1>t. /\ pc \in [Admin -> Control] /\ req \in [Admin -> Request]
      /\ status \in [Plugin -> Status \cup {"none", "gone"}]
      /\ webhooks \in [Plugin -> Nat]
  BY DEF TypeInv, TypeOK
<1>k. Knows(a)
  BY DEF Consistent
<1>p. p \in Row /\ p \in Plugin
  BY <1>k DEF Row, Knows, SetActive, SetInactive, DeleteWebhooks, SetUninstalling, DeleteRow
<1>o. \A q \in Plugin : q # p => webhooks[q] = IF Script(q) THEN 0 ELSE Due(q)
  BY DEF Posted, Excuses
<1>s. ASSUME NEW s, SetStatus(p, s)
      PROVE  /\ status'[p] = s /\ webhooks' = webhooks
             /\ \A q \in Plugin : q # p => status'[q] = status[q]
  BY <1>s, <1>p, <1>t DEF SetStatus
<1>1. CASE SetActive(a)
  <2>1. /\ SetStatus(p, "active") /\ pc'[a] = "set_activated_at"
    BY <1>1, <1>p, <1>t DEF SetActive, OnRow, Goto
  <2>2. ~Script(p) => webhooks[p] = 1
    BY <1>1 DEF SetActive, Posted
  <2>3. Script(p) => webhooks[p] = 0
    BY <1>p DEF Posted
  <2> QED
    BY <1>o, <1>s, <2>1, <2>2, <2>3 DEF Posted, Due, Script
<1>2. CASE SetInactive(a)
  <2>1. /\ SetStatus(p, "inactive") /\ pc'[a] = "delete_webhooks" /\ req'[a] = req[a]
    BY <1>2, <1>p, <1>t DEF SetInactive, OnRow, Goto
  <2>2. Script(p) => webhooks[p] = 0
    BY <1>p DEF Posted
  <2>3. \A q \in Plugin : q = p => Excuses(a, q)'
    BY <2>1 DEF Excuses, Its
  <2> QED
    BY <1>o, <1>s, <2>1, <2>2, <2>3 DEF Posted, Due, Script
<1>3. CASE DeleteWebhooks(a)
  <2>1. /\ status' = status /\ webhooks' = [webhooks EXCEPT ![p] = 0]
        /\ pc'[a] = "drop_slots" /\ status[p] = "inactive"
    BY <1>3, <1>t, <1>k DEF DeleteWebhooks, SetRows, Goto, Knows
  <2>2. webhooks'[p] = 0 /\ \A q \in Plugin : q # p => webhooks'[q] = webhooks[q]
    BY <1>t, <1>p, <2>1
  <2> QED
    BY <1>o, <2>1, <2>2 DEF Posted, Due, Script
<1>4. CASE SetUninstalling(a)
  <2>1. /\ SetStatus(p, "uninstalling") /\ pc'[a] = "find" /\ req'[a] = req[a]
        /\ req[a].op = "uninstall"
    BY <1>4, <1>p, <1>t, <1>k DEF SetUninstalling, OnRow, Goto, Knows
  <2>2. Script(p) => webhooks[p] = 0
    BY <1>p DEF Posted
  <2>3. \A q \in Plugin : q = p => Excuses(a, q)'
    BY <2>1 DEF Excuses, Its
  <2> QED
    BY <1>o, <1>s, <2>1, <2>2, <2>3 DEF Posted, Due, Script
<1>5. CASE DeleteRow(a)
  <2>1. /\ status' = [status EXCEPT ![p] = "gone"] /\ webhooks' = [webhooks EXCEPT ![p] = 0]
        /\ pc'[a] = "idle"
    BY <1>5, <1>p, <1>t DEF DeleteRow, Cascade, Finish
  <2>2. /\ webhooks'[p] = 0 /\ \A q \in Plugin : q # p => webhooks'[q] = webhooks[q]
        /\ status'[p] = "gone" /\ \A q \in Plugin : q # p => status'[q] = status[q]
    BY <1>t, <1>p, <2>1
  <2> QED
    BY <1>o, <2>1, <2>2 DEF Posted, Due, Script
<1> QED
  BY <1>1, <1>2, <1>3, <1>4, <1>5

LEMMA NextWebhooks ==
    TypeInv /\ SerialInv /\ RegistryInv /\ WebhookInv /\ [Next]_vars => WebhookInv'
<1> SUFFICES ASSUME TypeInv, SerialInv, RegistryInv, WebhookInv, [Next]_vars,
                    Only({"schema_error"})'
             PROVE  WebhookInv'
  BY DEF WebhookInv
<1>e. Only({"schema_error"}) /\ InOrder /\ "restart" \notin environment
  BY EnvironmentStays DEF InOrder, Only
<1>w. /\ \A p \in Plugin : Script(p) => webhooks[p] = 0
      /\ \A p \in Plugin : ~Script(p) =>
             (\E a \in Admin : Excuses(a, p)) \/ webhooks[p] = Due(p)
      /\ \A a \in Admin : pc[a] = "set_active" /\ ~Script(Its(a)) => webhooks[Its(a)] = 1
  BY <1>e DEF WebhookInv, Due
<1>1. CASE UNCHANGED vars
  BY <1>1, <1>w DEF vars, WebhookInv, Excuses, Its, Due
<1>2. ASSUME NEW a \in Admin, Act(a) PROVE WebhookInv'
  <2>1. \A b \in Admin : b # a => pc[b] = "idle" /\ pc'[b] = "idle"
    BY <1>2, <1>e, ActsAlone, InOrderMeans
  <2>2. Consistent(a)
    BY <1>e, <2>1 DEF RegistryInv, KnowsInv, ReadyInv, FollowsInv, Consistent, FollowedBut,
                      Ahead
  <2>3. Posted(a)
    BY <1>w, <2>1 DEF Posted, Excuses
  <2>4. ~DbError(a)
    BY <1>e, InOrderMeans DEF DbError
  <2>5. Posted(a)'
    BY <1>2, <1>e, <2>2, <2>3, <2>4, QuietStepPosts, ReloadPosts, InstallPosts, ChangePosts
    DEF Act, Step
  <2> QED
    BY <2>1, <2>5 DEF WebhookInv, Posted, Due
<1> QED
  BY <1>e, <1>1, <1>2, NextIsActs DEF Restart

(* Events are delivered once or not at all: between requests that come one *)
(* at a time a manifest plugin's webhook is registered once while the      *)
(* plugin is active and not at all while it is not, and a script plugin    *)
(* has none.                                                               *)
THEOREM WebhooksUpToDate == Spec => []WebhooksFollowStatus
<1> DEFINE Inv == TypeInv /\ OneRow /\ SerialInv /\ RegistryInv /\ WebhookInv
<1>1. Init => Inv
  <2>1. Init => WebhookInv
    BY DEF Init, WebhookInv
  <2> QED
    BY <2>1, InitRegistry
<1>2. Inv /\ [Next]_vars => Inv'
  BY NextTypeInv, NextOneRow, NextSerial, NextRegistry, NextWebhooks
<1>3. Inv => WebhooksFollowStatus
  <2> SUFFICES ASSUME WebhookInv, Only({"schema_error"}), Quiet, NEW p \in Plugin
               PROVE  webhooks[p] = IF status[p] = "active" /\ ~Script(p) THEN 1 ELSE 0
    BY DEF WebhooksFollowStatus
  <2>1. \A a \in Admin : ~Excuses(a, p)
    BY DEF Quiet, Excuses
  <2> QED
    BY <2>1 DEF WebhookInv
<1> QED
  BY <1>1, <1>2, <1>3, PTL DEF Spec

-----------------------------------------------------------------------------
(***************************************************************************)
(* Packages: the directories, elements and media of plugins.               *)
(***************************************************************************)

(* The local variables of a request. *)
PackageRequest ==
    [front : {"api", "page"}, package : Package \cup {NoPackage}, install : BOOLEAN,
     at : K!Name \cup {NoDir}, entry : Nat, slug : Slug \cup {NoPlugin},
     left : SUBSET (Part \cup K!Key), made : 0 .. MaxMade,
     element : {<<>>} \cup ((0 .. MaxMade) \X Part)]

Unpacking == {"clean", "unpack", "read", "register"}
PackagePlaces ==
    Unpacking \cup {"idle", "drop", "create", "deactivate", "hide", "move", "upload",
                    "uninstall", "list", "release", "remove"}

EntryOk(k, i) == k.entries[i] \in Part \cup {Manifest}

(* What a request at a place is known to hold, whatever other requests do. *)
UnpackOk(place, r) ==
    /\ r.package \in Package
    /\ r.front \in package_world.fronts
    /\ r.at \in K!Name
    /\ r.at \in Slug => r.install /\ r.at = r.package.slug
    /\ r.install => r.slug = r.package.slug /\ "install" \in package_world.requests
    /\ ~r.install => r.slug = NoPlugin
    /\ place = "read" => r.at \in Temp
    /\ place = "register" => r.at \in Slug
    /\ place = "read" \/ r.at \in Slug => \A i \in DOMAIN r.package.entries : EntryOk(r.package, i)
    /\ place = "unpack" => /\ r.entry \in 1 .. Len(r.package.entries) + 1
                           /\ \A i \in 1 .. r.entry - 1 : EntryOk(r.package, i)

RequestOk(place, r) ==
    /\ place \in PackagePlaces /\ r \in PackageRequest
    /\ place = "idle" => r = K!NoRequest
    /\ place \in Unpacking => UnpackOk(place, r)
    /\ place \notin Unpacking => r.at = NoDir /\ ~r.install
    /\ place \notin Unpacking \cup {"idle"} => r.slug \in Slug
    /\ place \in {"drop", "create"} => /\ r.package \in Package
                                       /\ r.left \subseteq DOMAIN r.package.components
    /\ place = "release" => \A k \in r.left : k \in K!Key /\ k[1] = r.slug

PackageTyped ==
    /\ package_world \in PackageWorlds
    /\ dir \in [K!Name -> K!Content \cup {NoDir}]
    /\ plugin \in [Slug -> K!PluginRow \cup {NoPlugin}]
    /\ made \in [Slug -> 0 .. MaxMade]
    /\ elements \in [Slug -> SUBSET [made : 0 .. MaxMade, component : Part, place : Place]]
    /\ ref_count \in [K!Key -> 0 .. MaxRef]
    /\ stored \subseteq K!Key /\ jobs \subseteq K!Key /\ given \subseteq K!Key
    /\ package_pc \in [Worker -> PackagePlaces]
    /\ package_req \in [Worker -> PackageRequest]
    /\ \A w \in Worker : RequestOk(package_pc[w], package_req[w])

(* A directory to unpack in is one request's. *)
TempsInv ==
    \A w, x \in Worker :
        package_req[w].at \in Temp /\ package_req[w].at = package_req[x].at => w = x

(* No request works on a slug that is being installed, and the directory   *)
(* holds the entries that were read so far.                                *)
Unpacked(k, n) == K!Holding(k, {k.entries[i] : i \in 1 .. n})
Whole(k) == K!Holding(k, K!ToSet(k.entries))

InstallInv(w) ==
    /\ package_req[w].install =>
          /\ plugin[package_req[w].slug] = NoPlugin
          /\ \A x \in Worker : package_req[x].slug = package_req[w].slug => x = w
    /\ package_pc[w] = "unpack" /\ package_req[w].at \in Slug =>
          dir[package_req[w].at] = Unpacked(package_req[w].package, package_req[w].entry - 1)
    /\ package_pc[w] = "register" => dir[package_req[w].at] = Whole(package_req[w].package)
    /\ package_pc[w] = "remove" => plugin[package_req[w].slug] = NoPlugin
    /\ package_pc[w] \in {"drop", "create"} /\ plugin[package_req[w].slug] # NoPlugin =>
          plugin[package_req[w].slug].package = package_req[w].package

PluginInv(s) ==
    IF plugin[s] = NoPlugin THEN elements[s] = {}
    ELSE /\ dir[s] = Whole(plugin[s].package) /\ dir[s] # NoDir
         /\ \A e \in elements[s] : e.component \in DOMAIN plugin[s].package.components

WholeInv ==
    K!Without({"reinstall"}) =>
        (\A w \in Worker : InstallInv(w)) /\ (\A s \in Slug : PluginInv(s))

(* One request at a time, and an activation has yet to make what is left. *)
SingleInv ==
    K!Without({"overlap"}) =>
        /\ \A w, x \in Worker : package_pc[w] # "idle" /\ package_pc[x] # "idle" => w = x
        /\ \A s \in Slug : \A e, f \in elements[s] : e.component = f.component => e = f
        /\ \A w \in Worker : package_pc[w] = "create" =>
              \A e \in elements[package_req[w].slug] : e.component \notin package_req[w].left

(* A directory is a request's, or a plugin's, or it was omitted. *)
LeftInv ==
    K!Without({"disk_error", "restart"}) =>
        /\ \A w \in Worker : package_req[w].at \in Temp /\ dir[package_req[w].at] # NoDir =>
              dir[package_req[w].at].package = package_req[w].package
        /\ \A n \in Temp : dir[n] # NoDir /\ ~K!InUse(n) => K!Omitted(dir[n].package)
        /\ \A s \in Slug : plugin[s] = NoPlugin /\ dir[s] # NoDir =>
              K!InUse(s) \/ \E w \in Worker : package_pc[w] = "remove" /\ package_req[w].slug = s

(* What a member was given is stored, and no job is to delete it. *)
GivenInv ==
    K!Without({"early"}) => \A k \in given : k \in stored /\ k \notin jobs /\ ~K!Leaving(k[1])

(* A stored file has one reference, or a job to delete it; what is left of *)
(* a plugin that is uninstalled has one.                                   *)
ReclaimInv ==
    K!Without({"overlap", "repeat", "db_error", "restart", "early"}) =>
        /\ \A k \in K!Key : ref_count[k] = IF k \in stored \ jobs THEN 1 ELSE 0
        /\ \A k \in stored : plugin[k[1]] = NoPlugin => k \in jobs
        /\ \A w \in Worker : package_pc[w] = "release" =>
              {k \in stored : k[1] = package_req[w].slug} \subseteq package_req[w].left \cup jobs
        /\ \A w \in Worker : package_pc[w] = "upload" => plugin[package_req[w].slug] # NoPlugin

PackagesInv ==
    PackageTyped /\ TempsInv /\ WholeInv /\ SingleInv /\ LeftInv /\ GivenInv /\ ReclaimInv

-----------------------------------------------------------------------------
(* The requests go from place to place. *)

LEMMA PackageKnown ==
    /\ Manifest \notin Part /\ {Refused, Huge} \cap (Part \cup {Manifest}) = {}
    /\ Slug \cap Temp = {} /\ MaxMade \in Nat /\ MaxRef \in Nat
    /\ NoDir \notin K!Name /\ NoDir \notin K!Content
    /\ NoPlugin \notin Slug /\ NoPlugin \notin K!PluginRow
    /\ \A k \in Package :
          /\ k.slug \in Slug
          /\ k.entries \in Seq({Manifest, Refused, Huge} \cup Part)
          /\ DOMAIN k.components \subseteq Part
          /\ DOMAIN k.components \subseteq K!ToSet(k.entries)
          /\ \A c \in DOMAIN k.components : k.components[c] \in Place
    /\ \A x \in PackageWorlds : x.packages \subseteq Package /\ x.fronts \subseteq {"api", "page"}
  BY PackageAssumption DEF K!PackageConstants

(* The fields of a request. *)
LEMMA RequestFields ==
    \A r \in PackageRequest :
        /\ r.front \in {"api", "page"} /\ r.package \in Package \cup {NoPackage}
        /\ r.install \in BOOLEAN /\ r.at \in K!Name \cup {NoDir} /\ r.entry \in Nat
        /\ r.slug \in Slug \cup {NoPlugin} /\ r.left \subseteq Part \cup K!Key
        /\ r.made \in 0 .. MaxMade /\ r.element \in {<<>>} \cup ((0 .. MaxMade) \X Part)
  BY DEF PackageRequest

LEMMA NoRequestOk ==
    /\ K!NoRequest \in PackageRequest /\ RequestOk("idle", K!NoRequest)
    /\ K!NoRequest.at = NoDir /\ K!NoRequest.slug = NoPlugin /\ K!NoRequest.install = FALSE
    /\ K!NoRequest.left = {} /\ K!NoRequest.front = "api"
<1>1. K!NoRequest \in PackageRequest
  BY PackageKnown DEF K!NoRequest, PackageRequest
<1> QED
  BY <1>1 DEF K!NoRequest, RequestOk, PackagePlaces, Unpacking

LEMMA GoTyped ==
    ASSUME PackageTyped, NEW w \in Worker, NEW place, NEW r, K!Go(w, place, r),
           RequestOk(place, r), package_world' = package_world
    PROVE  /\ package_pc' \in [Worker -> PackagePlaces]
           /\ package_req' \in [Worker -> PackageRequest]
           /\ (\A x \in Worker : RequestOk(package_pc[x], package_req[x]))'
<1>1. place \in PackagePlaces /\ r \in PackageRequest
  BY DEF RequestOk
<1>2. package_pc' \in [Worker -> PackagePlaces] /\ package_req' \in [Worker -> PackageRequest]
  BY <1>1 DEF K!Go, PackageTyped
<1>3. ASSUME NEW x \in Worker PROVE RequestOk(package_pc[x], package_req[x])'
  <2>1. CASE x = w
    <3>1. package_pc'[x] = place /\ package_req'[x] = r
      BY <2>1 DEF K!Go, PackageTyped
    <3> QED
      BY <3>1 DEF RequestOk, UnpackOk
  <2>2. CASE x # w
    <3>1. package_pc'[x] = package_pc[x] /\ package_req'[x] = package_req[x]
      BY <2>2 DEF K!Go, PackageTyped
    <3>2. RequestOk(package_pc[x], package_req[x])
      BY DEF PackageTyped
    <3> QED
      BY <3>1, <3>2 DEF RequestOk, UnpackOk
  <2> QED
    BY <2>1, <2>2
<1> QED
  BY <1>2, <1>3

(* A worker that goes somewhere: its place and its request, and those of   *)
(* the others.                                                             *)
LEMMA Gone ==
    ASSUME PackageTyped, NEW w \in Worker, NEW place, NEW r, K!Go(w, place, r)
    PROVE  /\ package_pc'[w] = place /\ package_req'[w] = r
           /\ \A x \in Worker \ {w} :
                 package_pc'[x] = package_pc[x] /\ package_req'[x] = package_req[x]
  BY DEF K!Go, PackageTyped

LEMMA FinishGoes ==
    ASSUME NEW w, K!Finish(w)
    PROVE  K!Go(w, "idle", K!NoRequest)
  BY DEF K!Finish

LEMMA StandsOk ==
    ASSUME PackageTyped, NEW w \in Worker
    PROVE  /\ RequestOk(package_pc[w], package_req[w])
           /\ package_req[w] \in PackageRequest /\ package_pc[w] \in PackagePlaces
  BY DEF PackageTyped

-----------------------------------------------------------------------------
(* Where each action goes from and to. *)

(* An action takes its worker to a place with a request that fits it. *)
Moves(w) == \E place, r : K!Go(w, place, r) /\ RequestOk(place, r)

LEMMA FinishMoves ==
    ASSUME NEW w, K!Finish(w)
    PROVE  Moves(w)
  BY NoRequestOk, FinishGoes DEF Moves

LEMMA ReceiveMoves ==
    ASSUME PackageTyped, NEW w \in Worker, NEW request, NEW f \in package_world.fronts,
           NEW k \in package_world.packages, NEW r, K!Receive(w, request, f, k, r),
           \/ r = K!NoRequest
           \/ /\ r = [K!NoRequest EXCEPT !.install = TRUE, !.slug = k.slug]
              /\ "install" \in package_world.requests
    PROVE  Moves(w)
<1>k. k \in Package /\ k.slug \in Slug /\ f \in {"api", "page"}
  BY PackageKnown DEF PackageTyped
<1>1. PICK n \in Temp : K!Go(w, "clean", [r EXCEPT !.front = f, !.package = k, !.at = n])
  BY DEF K!Receive
<1> DEFINE q == [r EXCEPT !.front = f, !.package = k, !.at = n]
<1>2. r \in PackageRequest
  BY <1>k, NoRequestOk DEF PackageRequest
<1>3. q \in PackageRequest
  BY <1>k, <1>2 DEF PackageRequest, K!Name
<1>4. q.front = f /\ q.package = k /\ q.at = n /\ q.install = r.install /\ q.slug = r.slug
  BY <1>2 DEF PackageRequest
<1>5. r.install => r.slug = k.slug /\ "install" \in package_world.requests
  BY NoRequestOk DEF PackageRequest
<1>6. ~r.install => r.slug = NoPlugin
  BY NoRequestOk DEF PackageRequest
<1>7. q.at \notin Slug /\ q.at \in K!Name
  BY <1>4, PackageKnown DEF K!Name
<1> HIDE DEF q
<1>8. UnpackOk("clean", q)
  BY <1>k, <1>4, <1>5, <1>6, <1>7 DEF UnpackOk
<1>9. RequestOk("clean", q)
  BY <1>3, <1>8 DEF RequestOk, PackagePlaces, Unpacking
<1> QED
  BY <1>1, <1>9 DEF Moves, q

LEMMA ExtractMoves ==
    ASSUME PackageTyped, NEW w \in Worker, K!Extract(w)
    PROVE  Moves(w)
<1> DEFINE r == package_req[w]
<1>r. r \in PackageRequest /\ RequestOk(package_pc[w], r)
  BY StandsOk
<1> HIDE DEF r
<1>1. CASE K!BeginReview(w)
  BY <1>1, ReceiveMoves DEF K!BeginReview
<1>2. CASE K!BeginInstall(w)
  <2>1. "install" \in package_world.requests
    BY <1>2 DEF K!BeginInstall, K!Receive, K!Idle
  <2> QED
    BY <1>2, <2>1, ReceiveMoves DEF K!BeginInstall
<1>3. CASE K!Clean(w)
  <2>1. UnpackOk("clean", r)
    BY <1>3, <1>r DEF K!Clean, RequestOk, Unpacking, r
  <2>2. CASE K!Finish(w)
    BY <2>2, FinishMoves
  <2>3. CASE K!Go(w, "unpack", [r EXCEPT !.entry = 1])
    <3> DEFINE q == [r EXCEPT !.entry = 1]
    <3>1. q \in PackageRequest
      BY <1>r DEF PackageRequest
    <3>2. /\ q.front = r.front /\ q.package = r.package /\ q.at = r.at /\ q.entry = 1
          /\ q.install = r.install /\ q.slug = r.slug
      BY <1>r DEF PackageRequest
    <3>3. Len(q.package.entries) \in Nat
      BY <2>1, <3>2, PackageKnown DEF UnpackOk
    <3> HIDE DEF q
    <3>4. UnpackOk("unpack", q)
      BY <2>1, <3>2, <3>3 DEF UnpackOk
    <3>5. RequestOk("unpack", q)
      BY <3>1, <3>4 DEF RequestOk, PackagePlaces, Unpacking
    <3> QED
      BY <2>3, <3>5 DEF Moves, q
  <2> QED
    BY <1>3, <2>2, <2>3 DEF K!Clean, r
<1>4. CASE K!Unpack(w)
  <2> DEFINE e == r.package.entries[r.entry]
  <2>1. UnpackOk("unpack", r) /\ r.entry <= Len(r.package.entries)
    BY <1>4, <1>r DEF K!Unpack, RequestOk, Unpacking, r
  <2>2. CASE K!Finish(w)
    BY <2>2, FinishMoves
  <2>3. CASE K!Go(w, "unpack", [r EXCEPT !.entry = @ + 1]) /\ e \in Part \cup {Manifest}
    <3> DEFINE q == [r EXCEPT !.entry = @ + 1]
    <3>1. q \in PackageRequest
      BY <1>r DEF PackageRequest
    <3>2. /\ q.front = r.front /\ q.package = r.package /\ q.at = r.at /\ q.entry = r.entry + 1
          /\ q.install = r.install /\ q.slug = r.slug
      BY <1>r DEF PackageRequest
    <3>3. Len(q.package.entries) \in Nat
      BY <2>1, <3>2, PackageKnown DEF UnpackOk
    <3>e. r.entry \in 1 .. Len(q.package.entries)
      BY <2>1, <3>2, <3>3, <1>r, RequestFields DEF UnpackOk
    <3> HIDE DEF q
    <3>6. \A i \in 1 .. q.entry - 1 : EntryOk(q.package, i)
      <4> SUFFICES ASSUME NEW i \in 1 .. q.entry - 1 PROVE EntryOk(r.package, i)
        BY <3>2
      <4>1. CASE i = r.entry
        BY <4>1, <2>3 DEF EntryOk
      <4>2. CASE i # r.entry
        <5>1. i \in 1 .. r.entry - 1
          BY <4>2, <3>2, <3>e, <3>3
        <5> QED
          BY <5>1, <2>1 DEF UnpackOk
      <4> QED
        BY <4>1, <4>2
    <3>7. q.entry \in 1 .. Len(q.package.entries) + 1
      BY <3>2, <3>3, <3>e
    <3>4. UnpackOk("unpack", q)
      BY <2>1, <3>2, <3>6, <3>7 DEF UnpackOk
    <3>5. RequestOk("unpack", q)
      BY <3>1, <3>4 DEF RequestOk, PackagePlaces, Unpacking
    <3> QED
      BY <2>3, <3>5 DEF Moves, q
  <2> QED
    BY <1>4, <2>2, <2>3 DEF K!Unpack, r, K!FinishWithout, K!ExtractionFails
<1>5. CASE K!Unpacked(w)
  <2>1. UnpackOk("unpack", r) /\ r.entry > Len(r.package.entries)
    BY <1>5, <1>r DEF K!Unpacked, RequestOk, Unpacking, r
  <2>2. CASE K!Finish(w)
    BY <2>2, FinishMoves
  <2>3. CASE K!Goto(w, IF r.at \in Temp THEN "read" ELSE "register")
    <3> DEFINE place == IF r.at \in Temp THEN "read" ELSE "register"
    <3>1. Len(r.package.entries) \in Nat /\ DOMAIN r.package.entries = 1 .. Len(r.package.entries)
      BY <2>1, PackageKnown DEF UnpackOk
    <3>2. r.entry - 1 = Len(r.package.entries)
      <4>1. r.entry \in 1 .. Len(r.package.entries) + 1
        BY <2>1 DEF UnpackOk
      <4> QED
        BY <2>1, <3>1, <4>1
    <3>3. \A i \in DOMAIN r.package.entries : EntryOk(r.package, i)
      BY <2>1, <3>1, <3>2 DEF UnpackOk
    <3>4. place \in {"read", "register"} /\ (place = "read" => r.at \in Temp)
            /\ (place = "register" => r.at \in Slug)
      BY <2>1 DEF UnpackOk, K!Name
    <3> HIDE DEF place
    <3>5. UnpackOk(place, r)
      BY <2>1, <3>3, <3>4 DEF UnpackOk
    <3>6. RequestOk(place, r)
      BY <1>r, <3>5, <3>4 DEF RequestOk, PackagePlaces, Unpacking
    <3> QED
      BY <2>3, <3>6 DEF Moves, place, r, K!Goto
  <2> QED
    BY <1>5, <2>2, <2>3 DEF K!Unpacked, r, K!FinishWithout
<1> QED
  BY <1>1, <1>2, <1>3, <1>4, <1>5 DEF K!Extract

LEMMA InstallMoves ==
    ASSUME PackageTyped, NEW w \in Worker, K!Install(w)
    PROVE  Moves(w)
<1> DEFINE r == package_req[w]
<1>r. r \in PackageRequest /\ RequestOk(package_pc[w], r)
  BY StandsOk
<1> HIDE DEF r
<1>1. CASE K!Finish(w)
  BY <1>1, FinishMoves
<1>2. CASE /\ package_pc[w] = "read" /\ r.install
           /\ K!Go(w, "clean", [r EXCEPT !.at = r.package.slug])
  <2> DEFINE q == [r EXCEPT !.at = r.package.slug]
  <2>1. UnpackOk("read", r)
    BY <1>2, <1>r DEF RequestOk, Unpacking
  <2>2. r.package.slug \in Slug /\ r.package.slug \in K!Name
    BY <2>1, PackageKnown DEF UnpackOk, K!Name
  <2>3. q \in PackageRequest
    BY <1>r, <2>2 DEF PackageRequest
  <2>4. /\ q.front = r.front /\ q.package = r.package /\ q.at = r.package.slug
        /\ q.install = r.install /\ q.slug = r.slug
    BY <1>r DEF PackageRequest
  <2> HIDE DEF q
  <2>5. UnpackOk("clean", q)
    BY <1>2, <2>1, <2>2, <2>4 DEF UnpackOk
  <2>6. RequestOk("clean", q)
    BY <2>3, <2>5 DEF RequestOk, PackagePlaces, Unpacking
  <2> QED
    BY <1>2, <2>6 DEF Moves, q
<1> QED
  BY <1>1, <1>2 DEF K!Install, K!ReadForReview, K!ReadForInstall, K!Register, r, K!FinishWithout

(* A request for a slug begins with what it read. *)
LEMMA BeginMoves ==
    ASSUME PackageTyped, NEW w \in Worker, NEW request, NEW s \in Slug,
           NEW place \in {"deactivate", "move", "upload", "uninstall"}, NEW r \in PackageRequest,
           r.at = NoDir, ~r.install, K!Begin(w, request, s, place, r)
    PROVE  Moves(w)
<1> DEFINE q == [r EXCEPT !.slug = s]
<1>1. q \in PackageRequest /\ q.at = NoDir /\ ~q.install /\ q.slug = s
  BY DEF PackageRequest
<1> HIDE DEF q
<1>2. RequestOk(place, q)
  BY <1>1 DEF RequestOk, PackagePlaces, Unpacking
<1> QED
  BY <1>2 DEF Moves, K!Begin, q

LEMMA ShowMoves ==
    ASSUME PackageTyped, NEW w \in Worker, K!Show(w)
    PROVE  Moves(w)
<1> DEFINE r == package_req[w]
<1>r. r \in PackageRequest /\ RequestOk(package_pc[w], r)
  BY StandsOk
<1> HIDE DEF r
<1>1. CASE K!BeginActivate(w)
  <2>1. PICK s \in Slug :
          K!Begin(w, "activate", s, "drop",
                  [K!NoRequest EXCEPT !.package = plugin[s].package,
                                      !.left = DOMAIN plugin[s].package.components])
    BY <1>1 DEF K!BeginActivate
  <2> DEFINE k == plugin[s].package
             q == [K!NoRequest EXCEPT !.package = k, !.left = DOMAIN k.components]
             p == [q EXCEPT !.slug = s]
  <2>2. k \in Package
    BY <2>1 DEF K!Begin, PackageTyped, K!PluginRow
  <2>3. DOMAIN k.components \subseteq Part
    BY <2>2, PackageKnown
  <2> HIDE DEF k
  <2>4. q \in PackageRequest /\ q.package = k /\ q.left = DOMAIN k.components
          /\ q.at = NoDir /\ q.install = FALSE
    BY <2>2, <2>3, NoRequestOk DEF PackageRequest
  <2> HIDE DEF q
  <2>5. p \in PackageRequest /\ p.package = k /\ p.left = DOMAIN k.components
          /\ p.at = NoDir /\ p.install = FALSE /\ p.slug = s
    BY <2>4 DEF PackageRequest
  <2> HIDE DEF p
  <2>6. RequestOk("drop", p)
    BY <2>2, <2>5 DEF RequestOk, PackagePlaces, Unpacking
  <2> QED
    BY <2>1, <2>6 DEF Moves, K!Begin, p, q, k
<1>2. CASE K!DropElements(w)
  <2> DEFINE m == made'[r.slug]
             q == [r EXCEPT !.made = m]
  <2>1. K!Go(w, "create", q) /\ package_pc[w] = "drop" /\ m = made[r.slug] + 1
    <3>1. r.slug \in Slug
      BY <1>2, <1>r DEF K!DropElements, RequestOk, Unpacking, r
    <3> QED
      BY <1>2, <3>1 DEF K!DropElements, r, PackageTyped
  <2>2. r.slug \in Slug /\ r.package \in Package /\ r.left \subseteq DOMAIN r.package.components
          /\ r.at = NoDir /\ ~r.install
    BY <2>1, <1>r DEF RequestOk, Unpacking
  <2>3. m \in 0 .. MaxMade
    <3>1. made[r.slug] \in 0 .. MaxMade /\ made[r.slug] < MaxMade
      BY <1>2, <2>2 DEF K!DropElements, PackageTyped, r
    <3> QED
      BY <2>1, <3>1, PackageKnown
  <2> HIDE DEF m
  <2>4. q \in PackageRequest /\ q.package = r.package /\ q.left = r.left
          /\ q.at = r.at /\ q.install = r.install /\ q.slug = r.slug
    BY <2>3, <1>r DEF PackageRequest
  <2> HIDE DEF q
  <2>5. RequestOk("create", q)
    BY <2>2, <2>4 DEF RequestOk, PackagePlaces, Unpacking
  <2> QED
    BY <2>1, <2>5 DEF Moves
<1>3. CASE K!Finish(w)
  BY <1>3, FinishMoves
<1>4. CASE K!CreateElement(w)
  <2>1. PICK c \in r.left : K!Go(w, "create", [r EXCEPT !.left = @ \ {c}]) \/ K!Finish(w)
    BY <1>4 DEF K!CreateElement, r
  <2> DEFINE q == [r EXCEPT !.left = @ \ {c}]
  <2>2. r.slug \in Slug /\ r.package \in Package /\ r.left \subseteq DOMAIN r.package.components
          /\ r.at = NoDir /\ ~r.install
    BY <1>4, <1>r DEF RequestOk, Unpacking, K!CreateElement, r
  <2>4. q \in PackageRequest /\ q.package = r.package /\ q.left = r.left \ {c}
          /\ q.at = r.at /\ q.install = r.install /\ q.slug = r.slug
    BY <1>r DEF PackageRequest
  <2> HIDE DEF q
  <2>5. RequestOk("create", q)
    BY <2>2, <2>4 DEF RequestOk, PackagePlaces, Unpacking
  <2> QED
    BY <2>1, <2>5, <1>3 DEF Moves, q
<1>5. CASE K!SetActive(w)
  BY <1>5, <1>3 DEF K!SetActive, K!SetStatus
<1> QED
  BY <1>1, <1>2, <1>4, <1>5 DEF K!Show

(* A request that stays what it is. *)
LEMMA GotoMoves ==
    ASSUME PackageTyped, NEW w \in Worker, NEW place, K!Goto(w, place),
           \/ package_pc[w] = "deactivate" /\ place = "hide"
           \/ package_pc[w] = "uninstall" /\ place = "list"
           \/ package_pc[w] = "release" /\ place = "remove"
    PROVE  Moves(w)
<1>1. RequestOk(package_pc[w], package_req[w])
  BY StandsOk
<1>2. RequestOk(place, package_req[w])
  BY <1>1 DEF RequestOk, PackagePlaces, Unpacking
<1> QED
  BY <1>2 DEF Moves, K!Goto

LEMMA HideMoves ==
    ASSUME PackageTyped, NEW w \in Worker, K!Hide(w) \/ K!Move(w) \/ K!Media(w)
    PROVE  Moves(w)
<1>1. CASE K!Finish(w)
  BY <1>1, FinishMoves
<1>2. CASE K!BeginDeactivate(w) \/ K!BeginMedia(w)
  BY <1>2, BeginMoves, NoRequestOk DEF K!BeginDeactivate, K!BeginMedia
<1>3. CASE K!BeginMove(w)
  <2>1. PICK s \in Slug, e \in UNION {elements[t] : t \in Slug} :
          /\ e \in elements[s]
          /\ K!Begin(w, "move", s, "move",
                       [K!NoRequest EXCEPT !.element = <<e.made, e.component>>])
    BY <1>3 DEF K!BeginMove
  <2>2. e.made \in 0 .. MaxMade /\ e.component \in Part
    BY <2>1 DEF PackageTyped
  <2> DEFINE p == <<e.made, e.component>>
             q == [K!NoRequest EXCEPT !.element = p]
  <2>3. p \in (0 .. MaxMade) \X Part
    BY <2>2
  <2> HIDE DEF p
  <2>4. q \in PackageRequest /\ q.at = NoDir /\ q.install = FALSE
    BY <2>3, NoRequestOk DEF PackageRequest
  <2> HIDE DEF q
  <2> QED
    BY <2>1, <2>4, BeginMoves DEF p, q
<1>4. CASE K!SetInactive(w)
  BY <1>4, <1>1, GotoMoves DEF K!SetInactive, K!SetStatus
<1> QED
  BY <1>1, <1>2, <1>3, <1>4 DEF K!Hide, K!Move, K!Media, K!HideElements, K!UpdateElement,
                                K!StoreMedia

LEMMA UninstallMoves ==
    ASSUME PackageTyped, NEW w \in Worker, K!Uninstall(w)
    PROVE  Moves(w)
<1> DEFINE r == package_req[w]
<1>r. r \in PackageRequest /\ RequestOk(package_pc[w], r)
  BY StandsOk
<1> HIDE DEF r
<1>1. CASE K!Finish(w)
  BY <1>1, FinishMoves
<1>2. CASE K!BeginUninstall(w)
  BY <1>2, BeginMoves, NoRequestOk DEF K!BeginUninstall
<1>3. CASE K!SetUninstalling(w)
  BY <1>3, <1>1, GotoMoves DEF K!SetUninstalling, K!SetStatus
<1>l. ASSUME NEW L \in SUBSET K!Key, K!Go(w, "release", [r EXCEPT !.left = L]),
             \A k \in L : k[1] = r.slug, package_pc[w] \in {"list", "release"}
      PROVE  Moves(w)
  <2> DEFINE q == [r EXCEPT !.left = L]
  <2>1. q \in PackageRequest /\ q.left = L /\ q.at = r.at /\ q.install = r.install
          /\ q.slug = r.slug
    BY <1>l, <1>r DEF PackageRequest
  <2>2. r.at = NoDir /\ ~r.install /\ r.slug \in Slug
    BY <1>l, <1>r DEF RequestOk, Unpacking
  <2> HIDE DEF q
  <2>3. RequestOk("release", q)
    BY <1>l, <2>1, <2>2 DEF RequestOk, PackagePlaces, Unpacking
  <2> QED
    BY <1>l, <2>3 DEF Moves, q
<1>4. CASE K!ListMedia(w)
  <2>1. PICK L \in {{k \in stored : k[1] = r.slug}, {}} :
          K!Go(w, "release", [r EXCEPT !.left = L])
    BY <1>4 DEF K!ListMedia, r
  <2>2. L \in SUBSET K!Key /\ \A k \in L : k[1] = r.slug
    BY <2>1 DEF PackageTyped
  <2> QED
    BY <1>4, <2>1, <2>2, <1>l DEF K!ListMedia
<1>5. CASE K!Dereference(w)
  <2>1. PICK k \in r.left : K!Go(w, "release", [r EXCEPT !.left = @ \ {k}])
    BY <1>5 DEF K!Dereference, r
  <2>2. [r EXCEPT !.left = @ \ {k}] = [r EXCEPT !.left = r.left \ {k}]
    OBVIOUS
  <2>3. \A x \in r.left : x \in K!Key /\ x[1] = r.slug
    BY <1>5, <1>r DEF K!Dereference, RequestOk, r
  <2>4. r.left \ {k} \in SUBSET K!Key /\ \A x \in r.left \ {k} : x[1] = r.slug
    BY <2>3
  <2> QED
    BY <1>5, <2>1, <2>2, <2>4, <1>l DEF K!Dereference
<1>6. CASE K!DeleteRow(w)
  BY <1>6, <1>1, GotoMoves DEF K!DeleteRow
<1> QED
  BY <1>1, <1>2, <1>3, <1>4, <1>5, <1>6 DEF K!Uninstall, K!RemoveDir

PackageAct(w) ==
    \/ K!Extract(w) \/ K!Install(w) \/ K!Show(w) \/ K!Hide(w) \/ K!Move(w) \/ K!Media(w)
    \/ K!Uninstall(w)

LEMMA ActMoves ==
    ASSUME PackageTyped, NEW w \in Worker, PackageAct(w)
    PROVE  Moves(w)
  BY ExtractMoves, InstallMoves, ShowMoves, HideMoves, UninstallMoves DEF PackageAct

(* The data of the packages, apart from where the requests stand. *)
DirTyped == dir \in [K!Name -> K!Content \cup {NoDir}]
RowsTyped ==
    /\ plugin \in [Slug -> K!PluginRow \cup {NoPlugin}]
    /\ made \in [Slug -> 0 .. MaxMade]
    /\ elements \in [Slug -> SUBSET [made : 0 .. MaxMade, component : Part, place : Place]]
MediaTyped ==
    /\ ref_count \in [K!Key -> 0 .. MaxRef]
    /\ stored \subseteq K!Key /\ jobs \subseteq K!Key /\ given \subseteq K!Key

LEMMA TypedInParts ==
    PackageTyped <=>
        /\ package_world \in PackageWorlds
        /\ DirTyped /\ RowsTyped /\ MediaTyped
        /\ package_pc \in [Worker -> PackagePlaces]
        /\ package_req \in [Worker -> PackageRequest]
        /\ \A w \in Worker : RequestOk(package_pc[w], package_req[w])
  BY DEF PackageTyped, DirTyped, RowsTyped, MediaTyped

LEMMA MovedTyped ==
    ASSUME PackageTyped, NEW w \in Worker, Moves(w), package_world' = package_world,
           DirTyped', RowsTyped', MediaTyped'
    PROVE  PackageTyped'
<1>1. PICK place, r : K!Go(w, place, r) /\ RequestOk(place, r)
  BY DEF Moves
<1>2. /\ package_pc' \in [Worker -> PackagePlaces]
      /\ package_req' \in [Worker -> PackageRequest]
      /\ (\A x \in Worker : RequestOk(package_pc[x], package_req[x]))'
  BY <1>1, GoTyped
<1> QED
  BY <1>2 DEF PackageTyped, DirTyped, RowsTyped, MediaTyped

LEMMA SameTyped ==
    ASSUME PackageTyped
    PROVE  /\ UNCHANGED dir => DirTyped'
           /\ UNCHANGED K!rowVars => RowsTyped'
           /\ UNCHANGED K!mediaVars => MediaTyped'
<1>1. UNCHANGED dir => DirTyped'
  BY DEF PackageTyped, DirTyped
<1>2. UNCHANGED K!rowVars => RowsTyped'
  BY DEF PackageTyped, RowsTyped, K!rowVars
<1>3. UNCHANGED K!mediaVars => MediaTyped'
  BY DEF PackageTyped, MediaTyped, K!mediaVars
<1> QED
  BY <1>1, <1>2, <1>3

LEMMA WorldKept ==
    ASSUME NEW w, PackageAct(w)
    PROVE  package_world' = package_world
<1>1. K!Extract(w) => package_world' = package_world
  BY DEF K!Extract, K!BeginReview, K!BeginInstall, K!Clean, K!Unpack, K!Unpacked
<1>2. K!Install(w) => package_world' = package_world
  BY DEF K!Install, K!ReadForReview, K!ReadForInstall, K!Register
<1>3. K!Show(w) => package_world' = package_world
  BY DEF K!Show, K!BeginActivate, K!DropElements, K!CreateElement, K!SetActive
<1>4. K!Hide(w) \/ K!Move(w) => package_world' = package_world
  BY DEF K!Hide, K!Move, K!BeginDeactivate, K!SetInactive, K!HideElements, K!BeginMove,
         K!UpdateElement
<1>5. K!Media(w) => package_world' = package_world
  BY DEF K!Media, K!BeginMedia, K!StoreMedia
<1>6. K!Uninstall(w) => package_world' = package_world
  BY DEF K!Uninstall, K!BeginUninstall, K!SetUninstalling, K!ListMedia, K!Dereference,
         K!DeleteRow, K!RemoveDir
<1> QED
  BY <1>1, <1>2, <1>3, <1>4, <1>5, <1>6 DEF PackageAct

(* The directory of a name is written or deleted. *)
LEMMA DirWritten ==
    ASSUME PackageTyped, NEW n \in K!Name, NEW k \in Package,
           NEW parts \in SUBSET (Part \cup {Manifest}),
           dir' = [dir EXCEPT ![n] = K!Holding(k, parts)]
    PROVE  DirTyped'
<1>1. K!Holding(k, parts) \in K!Content
  BY DEF K!Holding, K!Content
<1> QED
  BY <1>1 DEF PackageTyped, DirTyped

LEMMA DirDeleted ==
    ASSUME PackageTyped, NEW n, dir' = [dir EXCEPT ![n] = NoDir]
    PROVE  DirTyped'
  BY DEF PackageTyped, DirTyped

LEMMA PartsTyped ==
    ASSUME PackageTyped, NEW n \in K!Name
    PROVE  K!Parts(n) \subseteq Part \cup {Manifest}
  BY DEF PackageTyped, K!Parts, K!Content

LEMMA UnpackTyped ==
    ASSUME PackageTyped, NEW w \in Worker, K!Extract(w) \/ K!Install(w)
    PROVE  DirTyped' /\ RowsTyped' /\ MediaTyped'
<1> DEFINE r == package_req[w]
<1>r. RequestOk(package_pc[w], r)
  BY StandsOk
<1>u. package_pc[w] \in Unpacking => r.package \in Package /\ r.at \in K!Name
  BY <1>r DEF RequestOk, UnpackOk
<1> HIDE DEF r
<1>s. /\ UNCHANGED K!fileVars => DirTyped'
      /\ UNCHANGED K!rowVars => RowsTyped'
      /\ UNCHANGED K!mediaVars => MediaTyped'
  BY SameTyped DEF K!fileVars
<1>1. CASE K!BeginReview(w) \/ K!BeginInstall(w)
  BY <1>1, <1>s DEF K!BeginReview, K!BeginInstall
<1>2. CASE K!Clean(w)
  <2>1. DirTyped'
    BY <1>2, <1>u, <1>s, DirWritten DEF K!Clean, Unpacking, r, K!fileVars
  <2> QED
    BY <1>2, <2>1, <1>s DEF K!Clean
<1>3. CASE K!Unpack(w)
  <2>1. r.at \in K!Name /\ r.package \in Package
    BY <1>3, <1>u DEF K!Unpack, Unpacking, r
  <2>2. K!Parts(r.at) \subseteq Part \cup {Manifest}
    BY <2>1, PartsTyped
  <2>3. ASSUME dir' = [dir EXCEPT ![r.at] = NoDir] PROVE DirTyped'
    BY <2>3, DirDeleted
  <2>4. ASSUME UNCHANGED dir PROVE DirTyped'
    BY <2>4, <1>s DEF K!fileVars
  <2>5. ASSUME NEW entry \in Part \cup {Manifest},
               dir' = [dir EXCEPT ![r.at] = K!Holding(r.package, K!Parts(r.at) \cup {entry})]
        PROVE  DirTyped'
    <3>1. K!Parts(r.at) \cup {entry} \in SUBSET (Part \cup {Manifest})
      BY <2>2
    <3> QED
      BY <2>1, <2>5, <3>1, DirWritten
  <2>6. DirTyped'
    BY <1>3, <2>3, <2>4, <2>5 DEF K!Unpack, r, K!FinishWithout, K!ExtractionFails
  <2> QED
    BY <1>3, <2>6, <1>s DEF K!Unpack
<1>4. CASE K!Unpacked(w)
  BY <1>4, <1>s, DirDeleted DEF K!Unpacked, K!FinishWithout, K!fileVars
<1>5. CASE K!ReadForReview(w)
  BY <1>5, <1>s, DirDeleted DEF K!ReadForReview, K!FinishWithout
<1>6. CASE K!ReadForInstall(w)
  BY <1>6, <1>s, DirDeleted DEF K!ReadForInstall, K!FinishWithout, K!fileVars
<1>7. CASE K!Register(w)
  <2>1. DirTyped'
    BY <1>7, <1>s, DirDeleted DEF K!Register, K!FinishWithout, K!fileVars
  <2>2. r.package \in Package
    BY <1>7, <1>u DEF K!Register, Unpacking, r
  <2>3. [package |-> r.package, status |-> "inactive"] \in K!PluginRow
    BY <2>2 DEF K!PluginRow
  <2>4. plugin' \in [Slug -> K!PluginRow \cup {NoPlugin}]
    BY <1>7, <2>3 DEF K!Register, r, PackageTyped
  <2>5. RowsTyped'
    BY <1>7, <2>4 DEF K!Register, PackageTyped, RowsTyped
  <2> QED
    BY <1>7, <2>1, <2>5, <1>s DEF K!Register
<1> QED
  BY <1>1, <1>2, <1>3, <1>4, <1>5, <1>6, <1>7 DEF K!Extract, K!Install

LEMMA StatusTyped ==
    ASSUME PackageTyped, NEW s \in Slug, plugin[s] # NoPlugin,
           NEW to \in {"inactive", "active", "uninstalling"},
           plugin' = [plugin EXCEPT ![s].status = to], UNCHANGED <<elements, made>>
    PROVE  RowsTyped'
<1>1. plugin[s] \in K!PluginRow
  BY DEF PackageTyped
<1>2. [plugin[s] EXCEPT !.status = to] \in K!PluginRow
  BY <1>1 DEF K!PluginRow
<1>3. plugin' \in [Slug -> K!PluginRow \cup {NoPlugin}]
  BY <1>2 DEF PackageTyped
<1> QED
  BY <1>3 DEF PackageTyped, RowsTyped

LEMMA ElementsTyped ==
    ASSUME PackageTyped, NEW s \in Slug,
           NEW E \in SUBSET [made : 0 .. MaxMade, component : Part, place : Place],
           elements' = [elements EXCEPT ![s] = E],
           plugin' \in [Slug -> K!PluginRow \cup {NoPlugin}], UNCHANGED made
    PROVE  RowsTyped'
<1>1. elements' \in [Slug -> SUBSET [made : 0 .. MaxMade, component : Part, place : Place]]
  BY DEF PackageTyped
<1> QED
  BY <1>1 DEF PackageTyped, RowsTyped

LEMMA ShowTyped ==
    ASSUME PackageTyped, NEW w \in Worker, K!Show(w) \/ K!Hide(w) \/ K!Move(w)
    PROVE  DirTyped' /\ RowsTyped' /\ MediaTyped'
<1> DEFINE r == package_req[w]
           Rows == [made : 0 .. MaxMade, component : Part, place : Place]
<1>r. RequestOk(package_pc[w], r) /\ r \in PackageRequest
  BY StandsOk
<1>u. package_pc[w] \notin Unpacking \cup {"idle"} => r.slug \in Slug
  BY <1>r DEF RequestOk
<1> HIDE DEF r
<1>s. /\ UNCHANGED K!fileVars => DirTyped'
      /\ UNCHANGED K!rowVars => RowsTyped'
      /\ UNCHANGED K!mediaVars => MediaTyped'
  BY SameTyped DEF K!fileVars
<1>p. plugin \in [Slug -> K!PluginRow \cup {NoPlugin}]
  BY DEF PackageTyped
<1>e. \A s \in Slug : elements[s] \in SUBSET Rows
  BY DEF PackageTyped
<1>1. CASE K!BeginActivate(w) \/ K!BeginDeactivate(w) \/ K!BeginMove(w)
  BY <1>1, <1>s DEF K!BeginActivate, K!BeginDeactivate, K!BeginMove
<1>2. CASE K!DropElements(w)
  <2>1. r.slug \in Slug
    BY <1>2, <1>u DEF K!DropElements, Unpacking, r
  <2>2. made[r.slug] \in 0 .. MaxMade /\ made[r.slug] < MaxMade
    BY <1>2, <2>1 DEF K!DropElements, PackageTyped, r
  <2>3. made[r.slug] + 1 \in 0 .. MaxMade
    BY <2>2, PackageKnown
  <2>4. made' \in [Slug -> 0 .. MaxMade]
    BY <1>2, <2>3 DEF K!DropElements, PackageTyped, r
  <2>5. elements' \in [Slug -> SUBSET Rows]
    BY <1>2 DEF K!DropElements, PackageTyped
  <2>6. RowsTyped'
    BY <1>2, <1>p, <2>4, <2>5 DEF K!DropElements, RowsTyped
  <2> QED
    BY <1>2, <1>s, <2>6 DEF K!DropElements
<1>3. CASE K!CreateElement(w)
  <2>1. CASE UNCHANGED elements
    BY <1>3, <2>1, <1>s DEF K!CreateElement, K!rowVars
  <2>2. ASSUME NEW c \in r.left,
               elements' = [elements EXCEPT ![r.slug] = @ \cup {K!Element(r, c)}]
        PROVE  RowsTyped'
    <3>1. r.slug \in Slug
      BY <1>3, <1>u DEF K!CreateElement, Unpacking, r
    <3>2. r.package \in Package /\ c \in DOMAIN r.package.components
      BY <1>3, <1>r, <2>2 DEF K!CreateElement, RequestOk, r
    <3>3. c \in Part /\ r.package.components[c] \in Place
      BY <3>2, PackageKnown
    <3>4. r.made \in 0 .. MaxMade
      BY <1>r, RequestFields
    <3>5. K!Element(r, c) \in Rows
      BY <3>3, <3>4 DEF K!Element
    <3>6. elements[r.slug] \cup {K!Element(r, c)} \in SUBSET Rows
      BY <1>e, <3>1, <3>5
    <3>7. elements' = [elements EXCEPT ![r.slug] = elements[r.slug] \cup {K!Element(r, c)}]
      BY <2>2
    <3>8. UNCHANGED <<plugin, made>>
      BY <1>3 DEF K!CreateElement
    <3> QED
      BY <1>p, <3>1, <3>6, <3>7, <3>8, ElementsTyped
  <2> QED
    BY <1>3, <2>1, <2>2, <1>s DEF K!CreateElement, r
<1>4. CASE K!SetActive(w) \/ K!SetInactive(w)
  <2>1. r.slug \in Slug
    BY <1>4, <1>u DEF K!SetActive, K!SetInactive, K!SetStatus, Unpacking, r
  <2>2. CASE UNCHANGED plugin
    BY <1>4, <2>2, <1>s DEF K!SetActive, K!SetInactive, K!rowVars
  <2>3. CASE plugin' # plugin
    BY <1>4, <2>1, <2>3, <1>s, StatusTyped DEF K!SetActive, K!SetInactive, K!SetStatus, r
  <2> QED
    BY <2>2, <2>3
<1>5. CASE K!HideElements(w)
  <2>1. r.slug \in Slug
    BY <1>5, <1>u DEF K!HideElements, Unpacking, r
  <2>2. RowsTyped'
    BY <1>5, <1>p, <2>1, ElementsTyped DEF K!HideElements, r
  <2> QED
    BY <1>5, <2>2, <1>s DEF K!HideElements
<1>6. CASE K!UpdateElement(w)
  <2> DEFINE row == {e \in elements[r.slug] : <<e.made, e.component>> = r.element}
  <2>1. r.slug \in Slug
    BY <1>6, <1>u DEF K!UpdateElement, Unpacking, r
  <2>2. PICK p \in Place :
          elements' = [elements EXCEPT ![r.slug] =
                          (@ \ row) \cup {[e EXCEPT !.place = p] : e \in row}]
    BY <1>6 DEF K!UpdateElement, r
  <2>3. \A e \in row : [e EXCEPT !.place = p] \in Rows
    BY <2>1, <1>e
  <2> DEFINE E == (elements[r.slug] \ row) \cup {[e EXCEPT !.place = p] : e \in row}
  <2>4. E \in SUBSET Rows
    BY <2>1, <2>3, <1>e
  <2>5. elements' = [elements EXCEPT ![r.slug] = E]
    BY <2>2
  <2> HIDE DEF E, row
  <2>6. UNCHANGED <<plugin, made>>
    BY <1>6 DEF K!UpdateElement
  <2>7. RowsTyped'
    BY <1>p, <2>1, <2>4, <2>5, <2>6, ElementsTyped
  <2> QED
    BY <1>6, <2>7, <1>s DEF K!UpdateElement
<1> QED
  BY <1>1, <1>2, <1>3, <1>4, <1>5, <1>6 DEF K!Show, K!Hide, K!Move

LEMMA MediaStepTyped ==
    ASSUME PackageTyped, NEW w \in Worker, K!Media(w) \/ K!Uninstall(w)
    PROVE  DirTyped' /\ RowsTyped' /\ MediaTyped'
<1> DEFINE r == package_req[w]
<1>r. RequestOk(package_pc[w], r)
  BY StandsOk
<1>u. package_pc[w] \notin Unpacking \cup {"idle"} => r.slug \in Slug
  BY <1>r DEF RequestOk
<1> HIDE DEF r
<1>s. /\ UNCHANGED K!fileVars => DirTyped'
      /\ UNCHANGED K!rowVars => RowsTyped'
      /\ UNCHANGED K!mediaVars => MediaTyped'
  BY SameTyped DEF K!fileVars
<1>c. \A k \in K!Key : ref_count[k] \in 0 .. MaxRef
  BY DEF PackageTyped
<1>1. CASE K!BeginMedia(w) \/ K!BeginUninstall(w) \/ K!ListMedia(w)
  BY <1>1, <1>s DEF K!BeginMedia, K!BeginUninstall, K!ListMedia
<1>2. CASE K!StoreMedia(w)
  <2>1. PICK i \in Image :
          LET k == <<r.slug, i>>
          IN  /\ ref_count[k] < MaxRef
              /\ ref_count' = [ref_count EXCEPT ![k] = @ + 1]
              /\ stored' = stored \cup {k}
              /\ given' = IF K!Leaving(k[1]) THEN given ELSE given \cup {k}
    BY <1>2 DEF K!StoreMedia, r
  <2> DEFINE k == <<r.slug, i>>
  <2>2. k \in K!Key
    BY <1>2, <1>u DEF K!StoreMedia, K!Key, Unpacking, r
  <2> HIDE DEF k
  <2>3. ref_count[k] + 1 \in 0 .. MaxRef
    BY <2>1, <2>2, <1>c, PackageKnown DEF k
  <2>4. ref_count' \in [K!Key -> 0 .. MaxRef]
    BY <2>1, <2>3 DEF PackageTyped, k
  <2>5. stored' \subseteq K!Key /\ given' \subseteq K!Key /\ UNCHANGED jobs
    BY <1>2, <2>1, <2>2 DEF PackageTyped, k, K!StoreMedia
  <2>6. MediaTyped'
    BY <2>4, <2>5 DEF PackageTyped, MediaTyped
  <2> QED
    BY <1>2, <2>6, <1>s DEF K!StoreMedia
<1>3. CASE K!SetUninstalling(w)
  <2>1. r.slug \in Slug
    BY <1>3, <1>u DEF K!SetUninstalling, K!SetStatus, Unpacking, r
  <2>2. RowsTyped'
    <3>2. CASE UNCHANGED plugin
      BY <1>3, <3>2, <1>s DEF K!SetUninstalling, K!rowVars
    <3>3. CASE plugin' # plugin
      BY <1>3, <2>1, <3>3, StatusTyped DEF K!SetUninstalling, K!SetStatus, r
    <3> QED
      BY <3>2, <3>3
  <2>3. MediaTyped'
    BY <1>3 DEF K!SetUninstalling, PackageTyped, MediaTyped
  <2> QED
    BY <1>3, <2>2, <2>3, <1>s DEF K!SetUninstalling
<1>4. CASE K!Dereference(w)
  <2>1. PICK k \in r.left :
          \/ /\ ref_count' = [ref_count EXCEPT ![k] = K!Decremented(k)]
             /\ jobs' = IF K!Decremented(k) = 0 THEN jobs \cup {k} ELSE jobs
          \/ UNCHANGED <<ref_count, jobs>>
    BY <1>4 DEF K!Dereference, r
  <2>2. k \in K!Key
    BY <1>4, <1>r, <2>1 DEF K!Dereference, RequestOk, r
  <2>3. K!Decremented(k) \in 0 .. MaxRef
    BY <2>2, <1>c, PackageKnown DEF K!Decremented
  <2>4. ref_count' \in [K!Key -> 0 .. MaxRef]
    BY <2>1, <2>3 DEF PackageTyped
  <2>5. MediaTyped'
    BY <1>4, <2>1, <2>2, <2>4 DEF PackageTyped, MediaTyped, K!Dereference
  <2> QED
    BY <1>4, <2>5, <1>s DEF K!Dereference
<1>5. CASE K!DeleteRow(w)
  <2>1. RowsTyped'
    <3>1. CASE UNCHANGED <<plugin, elements>>
      BY <1>5, <3>1, <1>s DEF K!DeleteRow, K!rowVars
    <3>2. CASE /\ plugin' = [plugin EXCEPT ![r.slug] = NoPlugin]
               /\ elements' = [elements EXCEPT ![r.slug] = {}]
      <4>1. plugin' \in [Slug -> K!PluginRow \cup {NoPlugin}]
        BY <3>2 DEF PackageTyped
      <4>2. elements' \in
              [Slug -> SUBSET [made : 0 .. MaxMade, component : Part, place : Place]]
        BY <3>2 DEF PackageTyped
      <4> QED
        BY <1>5, <4>1, <4>2 DEF PackageTyped, RowsTyped, K!DeleteRow
    <3> QED
      BY <1>5, <3>1, <3>2 DEF K!DeleteRow, r
  <2> QED
    BY <1>5, <2>1, <1>s DEF K!DeleteRow
<1>6. CASE K!RemoveDir(w)
  BY <1>6, <1>s, DirDeleted DEF K!RemoveDir, K!fileVars
<1> QED
  BY <1>1, <1>2, <1>3, <1>4, <1>5, <1>6 DEF K!Media, K!Uninstall

LEMMA CollectTyped ==
    ASSUME PackageTyped, NEW k \in K!Key, K!Collect(k)
    PROVE  PackageTyped'
<1>1. K!Decremented(k) \in 0 .. MaxRef
  BY PackageKnown DEF K!Decremented, PackageTyped
<1>2. ref_count' \in [K!Key -> 0 .. MaxRef]
  BY <1>1 DEF K!Collect, PackageTyped
<1>3. MediaTyped'
  BY <1>2 DEF K!Collect, PackageTyped, MediaTyped
<1>4. DirTyped' /\ RowsTyped'
  BY SameTyped DEF K!Collect, K!fileVars
<1>5. (\A w \in Worker : RequestOk(package_pc[w], package_req[w]))'
  BY DEF K!Collect, PackageTyped, K!requestVars, RequestOk, UnpackOk
<1> QED
  BY <1>3, <1>4, <1>5, TypedInParts DEF K!Collect, K!requestVars, PackageTyped,
     DirTyped, RowsTyped, MediaTyped

LEMMA RestartTyped ==
    ASSUME PackageTyped, K!Restart
    PROVE  PackageTyped'
<1>1. package_pc' \in [Worker -> PackagePlaces] /\ package_req' \in [Worker -> PackageRequest]
  BY NoRequestOk DEF K!Restart, PackagePlaces
<1>2. (\A w \in Worker : RequestOk(package_pc[w], package_req[w]))'
  BY NoRequestOk DEF K!Restart, RequestOk, UnpackOk
<1>3. DirTyped' /\ RowsTyped'
  BY SameTyped DEF K!Restart, K!fileVars
<1> QED
  BY <1>1, <1>2, <1>3 DEF K!Restart, PackageTyped, DirTyped, RowsTyped

LEMMA ActTyped ==
    ASSUME PackageTyped, NEW w \in Worker, PackageAct(w)
    PROVE  PackageTyped'
<1>1. DirTyped' /\ RowsTyped' /\ MediaTyped'
  BY UnpackTyped, ShowTyped, MediaStepTyped DEF PackageAct
<1> QED
  BY <1>1, ActMoves, WorldKept, MovedTyped

LEMMA InitPackageTyped == K!Init => PackageTyped
<1> SUFFICES ASSUME K!Init PROVE PackageTyped
  OBVIOUS
<1>1. package_pc \in [Worker -> PackagePlaces] /\ package_req \in [Worker -> PackageRequest]
  BY NoRequestOk DEF K!Init, PackagePlaces
<1>2. \A w \in Worker : RequestOk(package_pc[w], package_req[w])
  BY NoRequestOk DEF K!Init
<1>3. ref_count \in [K!Key -> 0 .. MaxRef] /\ made \in [Slug -> 0 .. MaxMade]
  BY PackageKnown DEF K!Init
<1> QED
  BY <1>1, <1>2, <1>3 DEF K!Init, PackageTyped

(* A step of the packages, action by action. *)
LEMMA PackageSteps ==
    K!Next <=> \/ \E w \in Worker : PackageAct(w)
               \/ \E k \in K!Key : K!Collect(k)
               \/ K!Restart
  BY DEF K!Next, PackageAct

(* The other requests stand still. *)
LEMMA ActOthers ==
    ASSUME PackageTyped, NEW w \in Worker, PackageAct(w)
    PROVE  \A x \in Worker \ {w} :
              package_pc'[x] = package_pc[x] /\ package_req'[x] = package_req[x]
<1>1. PICK place, r : K!Go(w, place, r)
  BY ActMoves DEF Moves
<1> QED
  BY <1>1, Gone

LEMMA FinishesAt ==
    ASSUME PackageTyped, NEW w \in Worker, K!Finish(w)
    PROVE  package_pc'[w] = "idle" /\ package_req'[w] = K!NoRequest
  BY FinishGoes, Gone

(* A request that begins with a slug. *)
LEMMA BeginsAt ==
    ASSUME PackageTyped, NEW w \in Worker, NEW request, NEW s \in Slug, NEW place,
           NEW r \in PackageRequest, K!Begin(w, request, s, place, r)
    PROVE  /\ package_pc[w] = "idle" /\ plugin[s] # NoPlugin
           /\ package_pc'[w] = place /\ package_req'[w].slug = s
           /\ package_req'[w].at = r.at /\ package_req'[w].install = r.install
           /\ package_req'[w].package = r.package /\ package_req'[w].left = r.left
<1>1. package_pc'[w] = place /\ package_req'[w] = [r EXCEPT !.slug = s]
  BY Gone DEF K!Begin
<1> QED
  BY <1>1 DEF K!Begin, K!Idle, PackageRequest

LEMMA ReceivesAt ==
    ASSUME PackageTyped, NEW w \in Worker, NEW request, NEW f \in package_world.fronts,
           NEW k \in package_world.packages, NEW r \in PackageRequest,
           K!Receive(w, request, f, k, r)
    PROVE  /\ package_pc[w] = "idle" /\ package_pc'[w] = "clean"
           /\ package_req'[w].slug = r.slug /\ package_req'[w].install = r.install
           /\ package_req'[w].package = k /\ K!Fresh(package_req'[w].at)
<1>1. PICK n \in Temp : K!Fresh(n)
                          /\ K!Go(w, "clean", [r EXCEPT !.front = f, !.package = k, !.at = n])
  BY DEF K!Receive
<1>2. package_req'[w] = [r EXCEPT !.front = f, !.package = k, !.at = n]
        /\ package_pc'[w] = "clean"
  BY <1>1, Gone
<1>3. /\ package_req'[w].slug = r.slug /\ package_req'[w].install = r.install
      /\ package_req'[w].package = k /\ package_req'[w].at = n
  BY <1>2 DEF PackageRequest
<1> QED
  BY <1>1, <1>2, <1>3 DEF K!Receive, K!Idle

(* A worker that is idle holds no directory and no slug. *)
LEMMA IdleHolds ==
    ASSUME PackageTyped, NEW w \in Worker, package_pc[w] = "idle"
    PROVE  /\ package_req[w].at = NoDir /\ package_req[w].slug = NoPlugin
           /\ ~package_req[w].install
  BY StandsOk, NoRequestOk DEF RequestOk

(* What becomes of the directory a request works in. *)
AtStays(w) ==
    \/ package_req'[w].at = package_req[w].at
    \/ package_req'[w].at \notin Temp
    \/ package_pc[w] = "idle" /\ K!Fresh(package_req'[w].at)

LEMMA FinishAtStays ==
    ASSUME PackageTyped, NEW w \in Worker, K!Finish(w)
    PROVE  AtStays(w)
<1>1. NoDir \notin Temp
  BY PackageKnown DEF K!Name
<1> QED
  BY <1>1, FinishesAt, NoRequestOk DEF AtStays

LEMMA BeginAtStays ==
    ASSUME PackageTyped, NEW w \in Worker, NEW request, NEW s \in Slug, NEW place,
           NEW r \in PackageRequest, r.at = NoDir, K!Begin(w, request, s, place, r)
    PROVE  AtStays(w)
<1>1. NoDir \notin Temp
  BY PackageKnown DEF K!Name
<1> QED
  BY <1>1, BeginsAt DEF AtStays

(* The requests that begin without having read anything. *)
LEMMA ActivationTyped ==
    ASSUME PackageTyped, NEW s \in Slug, plugin[s] # NoPlugin
    PROVE  LET k == plugin[s].package
               q == [K!NoRequest EXCEPT !.package = k, !.left = DOMAIN k.components]
           IN  /\ q \in PackageRequest /\ q.at = NoDir /\ q.install = FALSE
               /\ q.package = k /\ q.left = DOMAIN k.components /\ k \in Package
<1> DEFINE k == plugin[s].package
           q == [K!NoRequest EXCEPT !.package = k, !.left = DOMAIN k.components]
<1>1. k \in Package
  BY DEF PackageTyped, K!PluginRow
<1>2. DOMAIN k.components \subseteq Part
  BY <1>1, PackageKnown
<1> HIDE DEF k
<1>3. q \in PackageRequest /\ q.at = NoDir /\ q.install = FALSE
        /\ q.package = k /\ q.left = DOMAIN k.components
  BY <1>1, <1>2, NoRequestOk DEF PackageRequest
<1> QED
  BY <1>1, <1>3 DEF k, q

LEMMA MoveTyped ==
    ASSUME PackageTyped, NEW s \in Slug, NEW e \in elements[s]
    PROVE  LET q == [K!NoRequest EXCEPT !.element = <<e.made, e.component>>]
           IN  /\ q \in PackageRequest /\ q.at = NoDir /\ q.install = FALSE
<1> DEFINE p == <<e.made, e.component>>
           q == [K!NoRequest EXCEPT !.element = p]
<1>1. p \in (0 .. MaxMade) \X Part
  BY DEF PackageTyped
<1> HIDE DEF p
<1>2. q \in PackageRequest /\ q.at = NoDir /\ q.install = FALSE
  BY <1>1, NoRequestOk DEF PackageRequest
<1> QED
  BY <1>2 DEF p, q

LEMMA InstallationTyped ==
    ASSUME PackageTyped, NEW k \in package_world.packages
    PROVE  LET q == [K!NoRequest EXCEPT !.install = TRUE, !.slug = k.slug]
           IN  /\ q \in PackageRequest /\ q.at = NoDir /\ q.install = TRUE /\ q.slug = k.slug
               /\ k \in Package /\ k.slug \in Slug
<1>1. k \in Package /\ k.slug \in Slug
  BY PackageKnown DEF PackageTyped
<1> QED
  BY <1>1, NoRequestOk DEF PackageRequest

LEMMA ActAtStays ==
    ASSUME PackageTyped, NEW w \in Worker, PackageAct(w)
    PROVE  AtStays(w)
<1> DEFINE r == package_req[w]
<1>r. r \in PackageRequest /\ RequestOk(package_pc[w], r)
  BY StandsOk
<1> HIDE DEF r
<1>f. CASE K!Finish(w)
  BY <1>f, FinishAtStays
<1>g. ASSUME NEW place, K!Goto(w, place) PROVE AtStays(w)
  BY <1>g, Gone DEF K!Goto, AtStays
<1>1. CASE K!BeginReview(w) \/ K!BeginInstall(w)
  <2>1. package_pc[w] = "idle" /\ K!Fresh(package_req'[w].at)
    <3>1. CASE K!BeginReview(w)
      BY <3>1, ReceivesAt, NoRequestOk DEF K!BeginReview
    <3>2. CASE K!BeginInstall(w)
      <4>1. PICK f \in package_world.fronts, k \in package_world.packages :
              K!Receive(w, "install", f, k,
                        [K!NoRequest EXCEPT !.install = TRUE, !.slug = k.slug])
        BY <3>2 DEF K!BeginInstall
      <4>2. [K!NoRequest EXCEPT !.install = TRUE, !.slug = k.slug] \in PackageRequest
        BY InstallationTyped
      <4> QED
        BY <4>1, <4>2, ReceivesAt
    <3> QED
      BY <1>1, <3>1, <3>2
  <2> QED
    BY <2>1 DEF AtStays
<1>2. CASE K!Clean(w) \/ K!Unpack(w)
  <2>1. CASE K!Go(w, "unpack", [r EXCEPT !.entry = 1])
    BY <2>1, <1>r, Gone DEF AtStays, PackageRequest, r
  <2>2. CASE K!Go(w, "unpack", [r EXCEPT !.entry = @ + 1])
    BY <2>2, <1>r, Gone DEF AtStays, PackageRequest, r
  <2> QED
    BY <1>2, <2>1, <2>2, <1>f DEF K!Clean, K!Unpack, r, K!FinishWithout, K!ExtractionFails
<1>3. CASE K!Unpacked(w)
  BY <1>3, <1>f, <1>g DEF K!Unpacked, K!FinishWithout
<1>4. CASE K!Install(w)
  <2>1. CASE package_pc[w] = "read" /\ K!Go(w, "clean", [r EXCEPT !.at = r.package.slug])
    <3>1. package_req'[w].at = r.package.slug
      BY <2>1, <1>r, Gone DEF PackageRequest
    <3>2. r.package.slug \notin Temp
      BY <1>r, <2>1, PackageKnown DEF RequestOk, UnpackOk, Unpacking
    <3> QED
      BY <3>1, <3>2 DEF AtStays
  <2> QED
    BY <1>4, <2>1, <1>f DEF K!Install, K!ReadForReview, K!ReadForInstall, K!Register, r,
                            K!FinishWithout
<1>5. CASE K!BeginActivate(w)
  <2>1. PICK s \in Slug :
          K!Begin(w, "activate", s, "drop",
                  [K!NoRequest EXCEPT !.package = plugin[s].package,
                                      !.left = DOMAIN plugin[s].package.components])
    BY <1>5 DEF K!BeginActivate
  <2> QED
    BY <2>1, ActivationTyped, BeginAtStays DEF K!Begin
<1>6. CASE K!DropElements(w)
  <2>1. PICK m : K!Go(w, "create", [r EXCEPT !.made = m])
    BY <1>6 DEF K!DropElements, r
  <2> QED
    BY <2>1, <1>r, Gone DEF AtStays, PackageRequest, r
<1>7. CASE K!CreateElement(w)
  <2>1. PICK c \in r.left : K!Go(w, "create", [r EXCEPT !.left = @ \ {c}]) \/ K!Finish(w)
    BY <1>7 DEF K!CreateElement, r
  <2> QED
    BY <2>1, <1>r, <1>f, Gone DEF AtStays, PackageRequest, r
<1>8. CASE K!SetActive(w) \/ K!Hide(w)
  BY <1>8, <1>f, <1>g, BeginAtStays, NoRequestOk
     DEF K!SetActive, K!SetStatus, K!Hide, K!BeginDeactivate, K!SetInactive, K!HideElements
<1>9. CASE K!Move(w)
  <2>1. CASE K!BeginMove(w)
    <3>1. PICK s \in Slug, e \in UNION {elements[t] : t \in Slug} :
            /\ e \in elements[s]
            /\ K!Begin(w, "move", s, "move",
                       [K!NoRequest EXCEPT !.element = <<e.made, e.component>>])
      BY <2>1 DEF K!BeginMove
    <3> QED
      BY <3>1, MoveTyped, BeginAtStays
  <2> QED
    BY <1>9, <2>1, <1>f DEF K!Move, K!UpdateElement
<1>10. CASE K!Media(w)
  BY <1>10, <1>f, BeginAtStays, NoRequestOk DEF K!Media, K!BeginMedia, K!StoreMedia
<1>11. CASE K!Uninstall(w)
  <2>1. CASE K!ListMedia(w) \/ K!Dereference(w)
    <3>1. PICK L : K!Go(w, "release", [r EXCEPT !.left = L])
      BY <2>1 DEF K!ListMedia, K!Dereference, r
    <3> QED
      BY <3>1, <1>r, Gone DEF AtStays, PackageRequest, r
  <2> QED
    BY <1>11, <2>1, <1>f, <1>g, BeginAtStays, NoRequestOk
       DEF K!Uninstall, K!BeginUninstall, K!SetUninstalling, K!SetStatus, K!DeleteRow, K!RemoveDir
<1> QED
  BY <1>1, <1>2, <1>3, <1>4, <1>5, <1>6, <1>7, <1>8, <1>9, <1>10, <1>11
     DEF PackageAct, K!Extract, K!Show

LEMMA ActTemps ==
    ASSUME PackageTyped, TempsInv, NEW w \in Worker, PackageAct(w)
    PROVE  TempsInv'
<1>1. AtStays(w)
  BY ActAtStays
<1>2. \A x \in Worker \ {w} : package_req'[x] = package_req[x]
  BY ActOthers
<1> QED
  BY <1>1, <1>2 DEF TempsInv, AtStays, K!Fresh, K!InUse

-----------------------------------------------------------------------------
(* What each action does, field by field. *)

Finished(w) == package_pc'[w] = "idle" /\ package_req'[w] = K!NoRequest
SameRequest(w) ==
    /\ package_req'[w].package = package_req[w].package
    /\ package_req'[w].install = package_req[w].install
    /\ package_req'[w].at = package_req[w].at
    /\ package_req'[w].slug = package_req[w].slug
At(w) == package_req[w].at
Of(w) == package_req[w].package
For(w) == package_req[w].slug

LEMMA ReceiveSteps ==
    ASSUME PackageTyped, NEW w \in Worker, K!BeginReview(w) \/ K!BeginInstall(w)
    PROVE  /\ package_pc[w] = "idle" /\ package_pc'[w] = "clean"
           /\ K!Fresh(package_req'[w].at) /\ package_req'[w].at \in Temp
           /\ package_req'[w].package \in package_world.packages
           /\ \/ ~package_req'[w].install /\ package_req'[w].slug = NoPlugin
              \/ /\ package_req'[w].install
                 /\ package_req'[w].slug = package_req'[w].package.slug
                 /\ package_req'[w].slug \in Slug
                 /\ \/ K!Disturbed("reinstall")
                    \/ /\ plugin[package_req'[w].slug] = NoPlugin
                       /\ \A x \in Worker : For(x) # package_req'[w].slug
           /\ UNCHANGED <<dir, K!rowVars, K!mediaVars>>
           /\ K!Disturbed("overlap") \/ K!Quiet
<1>1. CASE K!BeginReview(w)
  <2>1. PICK f \in package_world.fronts, k \in package_world.packages :
          K!Receive(w, "review", f, k, K!NoRequest)
    BY <1>1 DEF K!BeginReview
  <2>2. K!NoRequest \in PackageRequest
    BY NoRequestOk
  <2>3. /\ package_pc[w] = "idle" /\ package_pc'[w] = "clean"
        /\ package_req'[w].slug = NoPlugin /\ package_req'[w].install = FALSE
        /\ package_req'[w].package = k /\ K!Fresh(package_req'[w].at)
    BY <2>1, <2>2, ReceivesAt, NoRequestOk
  <2>4. K!Disturbed("overlap") \/ K!Quiet
    BY <2>1 DEF K!Receive, K!Idle
  <2>5. UNCHANGED <<dir, K!rowVars, K!mediaVars>>
    BY <1>1 DEF K!BeginReview, K!fileVars
  <2> QED
    BY <2>3, <2>4, <2>5 DEF K!Fresh
<1>2. CASE K!BeginInstall(w)
  <2>1. PICK f \in package_world.fronts, k \in package_world.packages :
          /\ K!Receive(w, "install", f, k,
                       [K!NoRequest EXCEPT !.install = TRUE, !.slug = k.slug])
          /\ \/ K!Disturbed("reinstall")
             \/ plugin[k.slug] = NoPlugin /\ \A x \in Worker : For(x) # k.slug
    BY <1>2 DEF K!BeginInstall, For
  <2> DEFINE q == [K!NoRequest EXCEPT !.install = TRUE, !.slug = k.slug]
  <2>2. q \in PackageRequest /\ q.slug = k.slug /\ q.install = TRUE /\ k.slug \in Slug
    BY InstallationTyped
  <2>3. K!Receive(w, "install", f, k, q)
    BY <2>1
  <2> HIDE DEF q
  <2>4. /\ package_pc[w] = "idle" /\ package_pc'[w] = "clean"
        /\ package_req'[w].slug = k.slug /\ package_req'[w].install = TRUE
        /\ package_req'[w].package = k /\ K!Fresh(package_req'[w].at)
    BY <2>2, <2>3, ReceivesAt
  <2>5. K!Disturbed("overlap") \/ K!Quiet
    BY <2>3 DEF K!Receive, K!Idle
  <2>6. UNCHANGED <<dir, K!rowVars, K!mediaVars>>
    BY <1>2 DEF K!BeginInstall, K!fileVars
  <2> QED
    BY <2>1, <2>2, <2>4, <2>5, <2>6 DEF K!Fresh
<1> QED
  BY <1>1, <1>2

LEMMA UnpackingOk ==
    ASSUME PackageTyped, NEW w \in Worker, package_pc[w] \in Unpacking
    PROVE  UnpackOk(package_pc[w], package_req[w])
  BY StandsOk DEF RequestOk

LEMMA SlugOk ==
    ASSUME PackageTyped, NEW w \in Worker, package_pc[w] \notin Unpacking \cup {"idle"}
    PROVE  For(w) \in Slug /\ At(w) = NoDir /\ ~package_req[w].install
  BY StandsOk DEF RequestOk, For, At

LEMMA CleanStep ==
    ASSUME PackageTyped, NEW w \in Worker, K!Clean(w)
    PROVE  /\ package_pc[w] = "clean" /\ UnpackOk("clean", package_req[w])
           /\ UNCHANGED <<K!rowVars, K!mediaVars>>
           /\ \/ /\ package_pc'[w] = "unpack" /\ SameRequest(w) /\ package_req'[w].entry = 1
                 /\ dir' = [dir EXCEPT ![At(w)] = K!Holding(Of(w), {})]
              \/ Finished(w) /\ UNCHANGED dir /\ K!Disturbed("disk_error")
<1>1. package_pc[w] = "clean" /\ UnpackOk("clean", package_req[w])
  BY UnpackingOk DEF K!Clean, Unpacking
<1>2. package_req[w] \in PackageRequest
  BY StandsOk
<1>3. K!Go(w, "unpack", [package_req[w] EXCEPT !.entry = 1]) =>
        package_pc'[w] = "unpack" /\ SameRequest(w) /\ package_req'[w].entry = 1
  BY <1>2, Gone DEF SameRequest, PackageRequest
<1>4. K!Finish(w) => Finished(w)
  BY FinishesAt DEF Finished
<1> QED
  BY <1>1, <1>3, <1>4 DEF K!Clean, At, Of

LEMMA UnpackStep ==
    ASSUME PackageTyped, NEW w \in Worker, K!Unpack(w)
    PROVE  LET e == Of(w).entries[package_req[w].entry]
           IN  /\ package_pc[w] = "unpack" /\ UnpackOk("unpack", package_req[w])
               /\ package_req[w].entry \in 1 .. Len(Of(w).entries)
               /\ UNCHANGED <<K!rowVars, K!mediaVars>>
               /\ \/ /\ package_pc'[w] = "unpack" /\ SameRequest(w)
                     /\ package_req'[w].entry = package_req[w].entry + 1
                     /\ e \in Part \cup {Manifest}
                     /\ dir' = [dir EXCEPT ![At(w)] = K!Holding(Of(w), K!Parts(At(w)) \cup {e})]
                  \/ Finished(w) /\ dir' = [dir EXCEPT ![At(w)] = NoDir]
                  \/ /\ Finished(w) /\ UNCHANGED dir
                     /\ \/ K!Disturbed("disk_error")
                        \/ /\ e = Refused
                           /\ package_req[w].front # "api" \/ package_req[w].install
<1>1. package_pc[w] = "unpack" /\ UnpackOk("unpack", package_req[w])
  BY UnpackingOk DEF K!Unpack, Unpacking
<1>2. package_req[w] \in PackageRequest
  BY StandsOk
<1>3. K!Go(w, "unpack", [package_req[w] EXCEPT !.entry = @ + 1]) =>
        /\ package_pc'[w] = "unpack" /\ SameRequest(w)
        /\ package_req'[w].entry = package_req[w].entry + 1
  BY <1>2, Gone DEF SameRequest, PackageRequest
<1>4. K!Finish(w) => Finished(w)
  BY FinishesAt DEF Finished
<1>5. Len(Of(w).entries) \in Nat
  BY <1>1, PackageKnown DEF UnpackOk, Of
<1>6. package_req[w].entry \in 1 .. Len(Of(w).entries)
  BY <1>1, <1>5 DEF K!Unpack, UnpackOk, Of
<1> QED
  BY <1>1, <1>3, <1>4, <1>6 DEF K!Unpack, At, Of, K!FinishWithout, K!ExtractionFails

LEMMA UnpackedStep ==
    ASSUME PackageTyped, NEW w \in Worker, K!Unpacked(w)
    PROVE  /\ package_pc[w] = "unpack" /\ UnpackOk("unpack", package_req[w])
           /\ package_req[w].entry = Len(Of(w).entries) + 1
           /\ UNCHANGED <<K!rowVars, K!mediaVars>>
           /\ \/ /\ package_pc'[w] = (IF At(w) \in Temp THEN "read" ELSE "register")
                 /\ package_req'[w] = package_req[w] /\ UNCHANGED dir
              \/ Finished(w) /\ dir' = [dir EXCEPT ![At(w)] = NoDir]
<1>1. package_pc[w] = "unpack" /\ UnpackOk("unpack", package_req[w])
  BY UnpackingOk DEF K!Unpacked, Unpacking
<1>4. K!Finish(w) => Finished(w)
  BY FinishesAt DEF Finished
<1>5. Len(Of(w).entries) \in Nat
  BY <1>1, PackageKnown DEF UnpackOk, Of
<1>6. package_req[w].entry = Len(Of(w).entries) + 1
  BY <1>1, <1>5 DEF K!Unpacked, UnpackOk, Of
<1>7. \A place : K!Goto(w, place) => package_pc'[w] = place /\ package_req'[w] = package_req[w]
  BY Gone DEF K!Goto
<1> QED
  BY <1>1, <1>4, <1>6, <1>7 DEF K!Unpacked, At, K!FinishWithout

LEMMA ReadStep ==
    ASSUME PackageTyped, NEW w \in Worker, K!ReadForReview(w) \/ K!ReadForInstall(w)
    PROVE  /\ package_pc[w] = "read" /\ UnpackOk("read", package_req[w])
           /\ UNCHANGED <<K!rowVars, K!mediaVars>>
           /\ \/ Finished(w) /\ dir' = [dir EXCEPT ![At(w)] = NoDir]
              \/ /\ package_pc'[w] = "clean" /\ package_req[w].install /\ package_req'[w].install
                 /\ package_req'[w].package = Of(w) /\ package_req'[w].slug = For(w)
                 /\ package_req'[w].at = Of(w).slug
                 /\ dir' = [dir EXCEPT ![At(w)] = NoDir]
              \/ /\ Finished(w) /\ UNCHANGED dir /\ package_req[w].install
                 /\ ~K!load_from_dir(Of(w))
<1>1. package_pc[w] = "read" /\ UnpackOk("read", package_req[w])
  BY UnpackingOk DEF K!ReadForReview, K!ReadForInstall, Unpacking
<1>2. package_req[w] \in PackageRequest
  BY StandsOk
<1>3. K!Go(w, "clean", [package_req[w] EXCEPT !.at = package_req[w].package.slug]) =>
        /\ package_pc'[w] = "clean" /\ package_req'[w].install = package_req[w].install
        /\ package_req'[w].package = Of(w) /\ package_req'[w].slug = For(w)
        /\ package_req'[w].at = Of(w).slug
  BY <1>2, Gone DEF Of, For, PackageRequest
<1>4. K!Finish(w) => Finished(w)
  BY FinishesAt DEF Finished
<1>5. CASE K!ReadForReview(w)
  BY <1>1, <1>4, <1>5 DEF K!ReadForReview, At, K!FinishWithout
<1>6. CASE K!ReadForInstall(w)
  BY <1>1, <1>3, <1>4, <1>6 DEF K!ReadForInstall, At, Of
<1> QED
  BY <1>5, <1>6

LEMMA RegisterStep ==
    ASSUME PackageTyped, NEW w \in Worker, K!Register(w)
    PROVE  /\ package_pc[w] = "register" /\ UnpackOk("register", package_req[w])
           /\ UNCHANGED <<elements, made, K!mediaVars>> /\ Finished(w)
           /\ \/ /\ plugin[For(w)] = NoPlugin /\ UNCHANGED dir
                 /\ plugin' = [plugin EXCEPT ![For(w)] =
                                  [package |-> Of(w), status |-> "inactive"]]
              \/ /\ UNCHANGED plugin /\ dir' = [dir EXCEPT ![At(w)] = NoDir]
           /\ For(w) \in Slug /\ At(w) = For(w) /\ package_req[w].install
<1>1. package_pc[w] = "register" /\ UnpackOk("register", package_req[w])
  BY UnpackingOk DEF K!Register, Unpacking
<1>2. For(w) \in Slug /\ At(w) = For(w) /\ package_req[w].install /\ For(w) = Of(w).slug
  BY <1>1 DEF UnpackOk, For, At, Of
<1>4. K!Finish(w) => Finished(w)
  BY FinishesAt DEF Finished
<1> QED
  BY <1>1, <1>2, <1>4 DEF K!Register, At, Of, K!FinishWithout

(* A request for a slug. *)
Begun(w, place) ==
    /\ package_pc[w] = "idle" /\ package_pc'[w] = place
    /\ package_req'[w].slug \in Slug /\ plugin[package_req'[w].slug] # NoPlugin
    /\ package_req'[w].at = NoDir /\ package_req'[w].install = FALSE
    /\ UNCHANGED <<dir, K!rowVars, K!mediaVars>>
    /\ K!Disturbed("overlap") \/ K!Quiet

LEMMA BeginIsBegun ==
    ASSUME PackageTyped, NEW w \in Worker, NEW request, NEW s \in Slug, NEW place,
           NEW r \in PackageRequest, r.at = NoDir, r.install = FALSE,
           K!Begin(w, request, s, place, r), UNCHANGED <<dir, K!rowVars, K!mediaVars>>
    PROVE  Begun(w, place)
  BY BeginsAt DEF Begun, K!Begin, K!Idle

LEMMA BeginSteps ==
    ASSUME PackageTyped, NEW w \in Worker
    PROVE  /\ K!BeginDeactivate(w) => Begun(w, "deactivate")
           /\ K!BeginMedia(w) => Begun(w, "upload")
           /\ K!BeginUninstall(w) => Begun(w, "uninstall")
           /\ K!BeginMove(w) => Begun(w, "move")
<1>1. K!BeginDeactivate(w) => Begun(w, "deactivate")
  BY NoRequestOk, BeginIsBegun DEF K!BeginDeactivate, K!fileVars
<1>2. K!BeginMedia(w) => Begun(w, "upload")
  BY NoRequestOk, BeginIsBegun DEF K!BeginMedia, K!fileVars
<1>3. K!BeginUninstall(w) => Begun(w, "uninstall")
  BY NoRequestOk, BeginIsBegun DEF K!BeginUninstall, K!fileVars
<1>4. ASSUME K!BeginMove(w) PROVE Begun(w, "move")
  <2>1. PICK s \in Slug, e \in UNION {elements[t] : t \in Slug} :
          /\ e \in elements[s]
          /\ K!Begin(w, "move", s, "move",
                       [K!NoRequest EXCEPT !.element = <<e.made, e.component>>])
    BY <1>4 DEF K!BeginMove
  <2>2. UNCHANGED <<dir, K!rowVars, K!mediaVars>>
    BY <1>4 DEF K!BeginMove, K!fileVars
  <2> QED
    BY <2>1, <2>2, MoveTyped, BeginIsBegun
<1> QED
  BY <1>1, <1>2, <1>3, <1>4

LEMMA BeginActivateStep ==
    ASSUME PackageTyped, NEW w \in Worker, K!BeginActivate(w)
    PROVE  /\ Begun(w, "drop")
           /\ package_req'[w].package = plugin[package_req'[w].slug].package
<1>1. PICK s \in Slug :
        K!Begin(w, "activate", s, "drop",
                [K!NoRequest EXCEPT !.package = plugin[s].package,
                                    !.left = DOMAIN plugin[s].package.components])
  BY DEF K!BeginActivate
<1> DEFINE q == [K!NoRequest EXCEPT !.package = plugin[s].package,
                                    !.left = DOMAIN plugin[s].package.components]
<1>2. UNCHANGED <<dir, K!rowVars, K!mediaVars>>
  BY DEF K!BeginActivate, K!fileVars
<1>3. q \in PackageRequest /\ q.at = NoDir /\ q.install = FALSE /\ q.package = plugin[s].package
  BY <1>1, ActivationTyped DEF K!Begin
<1>4. K!Begin(w, "activate", s, "drop", q)
  BY <1>1
<1> HIDE DEF q
<1>5. Begun(w, "drop")
  BY <1>2, <1>3, <1>4, BeginIsBegun
<1>6. package_req'[w].slug = s /\ package_req'[w].package = plugin[s].package
  BY <1>3, <1>4, BeginsAt
<1> QED
  BY <1>5, <1>6

LEMMA DropStep ==
    ASSUME PackageTyped, NEW w \in Worker, K!DropElements(w)
    PROVE  /\ package_pc[w] = "drop" /\ For(w) \in Slug
           /\ package_pc'[w] = "create" /\ SameRequest(w)
           /\ package_req'[w].left = package_req[w].left
           /\ elements' = [elements EXCEPT ![For(w)] = {}]
           /\ UNCHANGED <<dir, plugin, K!mediaVars>>
<1>1. PICK m : K!Go(w, "create", [package_req[w] EXCEPT !.made = m])
  BY DEF K!DropElements
<1>2. package_req[w] \in PackageRequest
  BY StandsOk
<1>3. /\ package_pc'[w] = "create" /\ SameRequest(w)
      /\ package_req'[w].left = package_req[w].left
  BY <1>1, <1>2, Gone DEF SameRequest, PackageRequest
<1> QED
  BY <1>3, SlugOk DEF K!DropElements, For, K!fileVars, Unpacking

LEMMA CreateStep ==
    ASSUME PackageTyped, NEW w \in Worker, K!CreateElement(w)
    PROVE  /\ package_pc[w] = "create" /\ For(w) \in Slug
           /\ UNCHANGED <<dir, plugin, K!mediaVars>>
           /\ \/ UNCHANGED elements /\ Finished(w)
              \/ \E c \in package_req[w].left :
                    /\ package_pc'[w] = "create" /\ SameRequest(w)
                    /\ package_req'[w].left = package_req[w].left \ {c}
                    /\ plugin[For(w)] # NoPlugin
                    /\ elements' = [elements EXCEPT ![For(w)] =
                                       elements[For(w)] \cup {K!Element(package_req[w], c)}]
<1>1. package_pc[w] = "create" /\ For(w) \in Slug /\ UNCHANGED <<dir, plugin, K!mediaVars>>
  BY SlugOk DEF K!CreateElement, For, K!fileVars, Unpacking
<1>2. package_req[w] \in PackageRequest
  BY StandsOk
<1>3. PICK c \in package_req[w].left :
        \/ /\ plugin[For(w)] # NoPlugin
           /\ elements' = [elements EXCEPT ![For(w)] = @ \cup {K!Element(package_req[w], c)}]
           /\ K!Go(w, "create", [package_req[w] EXCEPT !.left = @ \ {c}])
        \/ UNCHANGED elements /\ K!Finish(w)
  BY DEF K!CreateElement, For
<1>4. CASE UNCHANGED elements /\ K!Finish(w)
  BY <1>1, <1>4, FinishesAt DEF Finished
<1>5. CASE /\ plugin[For(w)] # NoPlugin
           /\ elements' = [elements EXCEPT ![For(w)] = @ \cup {K!Element(package_req[w], c)}]
           /\ K!Go(w, "create", [package_req[w] EXCEPT !.left = @ \ {c}])
  <2>1. /\ package_pc'[w] = "create" /\ SameRequest(w)
        /\ package_req'[w].left = package_req[w].left \ {c}
    BY <1>2, <1>5, Gone DEF SameRequest, PackageRequest
  <2> QED
    BY <1>1, <1>5, <2>1
<1> QED
  BY <1>3, <1>4, <1>5

(* The status of a row changes, or there is no row. *)
LEMMA StatusStep ==
    ASSUME PackageTyped, NEW w \in Worker,
           K!SetActive(w) \/ K!SetInactive(w) \/ K!SetUninstalling(w)
    PROVE  /\ package_pc[w] \in {"create", "deactivate", "uninstall"} /\ For(w) \in Slug
           /\ package_pc[w] = "uninstall" \/ UNCHANGED given
           /\ package_pc[w] = "uninstall" => given' = {k \in given : k[1] # For(w)}
           /\ UNCHANGED <<dir, elements, stored, ref_count, jobs>>
           /\ \/ Finished(w) /\ UNCHANGED plugin
              \/ /\ plugin[For(w)] # NoPlugin
                 /\ \E to \in {"inactive", "active", "uninstalling"} :
                       plugin' = [plugin EXCEPT ![For(w)].status = to]
                 /\ \/ Finished(w)
                    \/ /\ package_pc'[w] \in {"hide", "list"}
                       /\ package_pc'[w] = "list" => package_pc[w] = "uninstall"
                       /\ package_req'[w] = package_req[w]
<1>1. package_pc[w] \in {"create", "deactivate", "uninstall"}
  BY DEF K!SetActive, K!SetInactive, K!SetUninstalling, K!SetStatus
<1>2. For(w) \in Slug
  BY <1>1, SlugOk DEF Unpacking
<1>3. K!Finish(w) => Finished(w)
  BY FinishesAt DEF Finished
<1>4. \A place : K!Goto(w, place) => package_pc'[w] = place /\ package_req'[w] = package_req[w]
  BY Gone DEF K!Goto
<1>5. CASE K!SetActive(w)
  BY <1>1, <1>2, <1>3, <1>5 DEF K!SetActive, K!SetStatus, For, K!fileVars, K!mediaVars
<1>6. CASE K!SetInactive(w)
  BY <1>1, <1>2, <1>3, <1>4, <1>6 DEF K!SetInactive, K!SetStatus, For, K!fileVars, K!mediaVars
<1>7. CASE K!SetUninstalling(w)
  BY <1>1, <1>2, <1>3, <1>4, <1>7 DEF K!SetUninstalling, K!SetStatus, For, K!fileVars
<1> QED
  BY <1>5, <1>6, <1>7

LEMMA PlainSteps ==
    ASSUME PackageTyped, NEW w \in Worker
    PROVE  /\ K!HideElements(w) =>
                 /\ package_pc[w] = "hide" /\ For(w) \in Slug /\ Finished(w)
                 /\ elements' = [elements EXCEPT ![For(w)] = {}]
                 /\ UNCHANGED <<dir, plugin, K!mediaVars>>
           /\ K!UpdateElement(w) =>
                 /\ package_pc[w] = "move" /\ For(w) \in Slug /\ Finished(w)
                 /\ \E p \in Place :
                       LET row == {e \in elements[For(w)] :
                                      <<e.made, e.component>> = package_req[w].element}
                       IN  elements' = [elements EXCEPT ![For(w)] =
                              (elements[For(w)] \ row) \cup {[e EXCEPT !.place = p] : e \in row}]
                 /\ UNCHANGED <<dir, plugin, K!mediaVars>>
           /\ K!StoreMedia(w) =>
                 /\ package_pc[w] = "upload" /\ For(w) \in Slug /\ Finished(w)
                 /\ UNCHANGED <<dir, K!rowVars, jobs>>
                 /\ \E k \in K!Key :
                       /\ k[1] = For(w)
                       /\ K!Disturbed("repeat") \/ k \notin stored
                       /\ K!Disturbed("early") \/ k \notin jobs
                       /\ ref_count' = [ref_count EXCEPT ![k] = @ + 1]
                       /\ stored' = stored \cup {k}
                       /\ given' = IF K!Leaving(k[1]) THEN given ELSE given \cup {k}
           /\ K!RemoveDir(w) =>
                 /\ package_pc[w] = "remove" /\ For(w) \in Slug /\ Finished(w)
                 /\ \/ dir' = [dir EXCEPT ![For(w)] = NoDir]
                    \/ K!Disturbed("disk_error") /\ UNCHANGED dir
                 /\ UNCHANGED <<K!rowVars, K!mediaVars>>
<1>1. package_pc[w] \in {"hide", "move", "upload", "remove"} => For(w) \in Slug
  BY SlugOk DEF Unpacking
<1>2. K!Finish(w) => Finished(w)
  BY FinishesAt DEF Finished
<1>3. ASSUME K!HideElements(w)
      PROVE  /\ package_pc[w] = "hide" /\ For(w) \in Slug /\ Finished(w)
             /\ elements' = [elements EXCEPT ![For(w)] = {}]
             /\ UNCHANGED <<dir, plugin, K!mediaVars>>
  BY <1>1, <1>2, <1>3 DEF K!HideElements, For, K!fileVars
<1>4. ASSUME K!UpdateElement(w)
      PROVE  /\ package_pc[w] = "move" /\ For(w) \in Slug /\ Finished(w)
             /\ \E p \in Place :
                   LET row == {e \in elements[For(w)] :
                                  <<e.made, e.component>> = package_req[w].element}
                   IN  elements' = [elements EXCEPT ![For(w)] =
                          (elements[For(w)] \ row) \cup {[e EXCEPT !.place = p] : e \in row}]
             /\ UNCHANGED <<dir, plugin, K!mediaVars>>
  BY <1>1, <1>2, <1>4 DEF K!UpdateElement, For, K!fileVars
<1>5. ASSUME K!StoreMedia(w)
      PROVE  /\ package_pc[w] = "upload" /\ For(w) \in Slug /\ Finished(w)
             /\ UNCHANGED <<dir, K!rowVars, jobs>>
             /\ \E k \in K!Key :
                   /\ k[1] = For(w)
                   /\ K!Disturbed("repeat") \/ k \notin stored
                   /\ K!Disturbed("early") \/ k \notin jobs
                   /\ ref_count' = [ref_count EXCEPT ![k] = @ + 1]
                   /\ stored' = stored \cup {k}
                   /\ given' = IF K!Leaving(k[1]) THEN given ELSE given \cup {k}
  <2>1. package_pc[w] = "upload" /\ For(w) \in Slug /\ Finished(w)
          /\ UNCHANGED <<dir, K!rowVars, jobs>>
    BY <1>1, <1>2, <1>5 DEF K!StoreMedia, K!fileVars
  <2>2. PICK i \in Image :
          LET k == <<For(w), i>>
          IN  /\ K!Disturbed("repeat") \/ k \notin stored
              /\ K!Disturbed("early") \/ k \notin jobs
              /\ ref_count' = [ref_count EXCEPT ![k] = @ + 1]
              /\ stored' = stored \cup {k}
              /\ given' = IF K!Leaving(k[1]) THEN given ELSE given \cup {k}
    BY <1>5 DEF K!StoreMedia, For
  <2>3. <<For(w), i>> \in K!Key /\ <<For(w), i>>[1] = For(w)
    BY <2>1 DEF K!Key
  <2> QED
    BY <2>1, <2>2, <2>3
<1>6. ASSUME K!RemoveDir(w)
      PROVE  /\ package_pc[w] = "remove" /\ For(w) \in Slug /\ Finished(w)
             /\ \/ dir' = [dir EXCEPT ![For(w)] = NoDir]
                \/ K!Disturbed("disk_error") /\ UNCHANGED dir
             /\ UNCHANGED <<K!rowVars, K!mediaVars>>
  BY <1>1, <1>2, <1>6 DEF K!RemoveDir, For
<1> QED
  BY <1>3, <1>4, <1>5, <1>6

LEMMA ListStep ==
    ASSUME PackageTyped, NEW w \in Worker, K!ListMedia(w)
    PROVE  /\ package_pc[w] = "list" /\ package_pc'[w] = "release" /\ SameRequest(w)
           /\ For(w) \in Slug
           /\ \/ package_req'[w].left = {k \in stored : k[1] = For(w)}
              \/ K!Disturbed("db_error") /\ package_req'[w].left = {}
           /\ UNCHANGED <<dir, K!rowVars, K!mediaVars>>
<1>1. package_pc[w] = "list" /\ For(w) \in Slug
  BY SlugOk DEF K!ListMedia, Unpacking
<1>2. package_req[w] \in PackageRequest
  BY StandsOk
<1>3. PICK L : /\ K!Go(w, "release", [package_req[w] EXCEPT !.left = L])
               /\ \/ L = {k \in stored : k[1] = For(w)}
                  \/ K!Disturbed("db_error") /\ L = {}
  BY DEF K!ListMedia, For
<1>4. package_pc'[w] = "release" /\ SameRequest(w) /\ package_req'[w].left = L
  BY <1>2, <1>3, Gone DEF SameRequest, PackageRequest
<1> QED
  BY <1>1, <1>3, <1>4 DEF K!ListMedia, K!fileVars

LEMMA DereferenceStep ==
    ASSUME PackageTyped, NEW w \in Worker, K!Dereference(w)
    PROVE  /\ package_pc[w] = "release" /\ package_pc'[w] = "release" /\ SameRequest(w)
           /\ For(w) \in Slug /\ UNCHANGED <<dir, K!rowVars, stored, given>>
           /\ \E k \in package_req[w].left :
                 /\ k \in K!Key /\ k[1] = For(w)
                 /\ package_req'[w].left = package_req[w].left \ {k}
                 /\ \/ /\ ref_count' = [ref_count EXCEPT ![k] = K!Decremented(k)]
                       /\ jobs' = IF K!Decremented(k) = 0 THEN jobs \cup {k} ELSE jobs
                    \/ K!Disturbed("db_error") /\ UNCHANGED <<ref_count, jobs>>
<1>1. package_pc[w] = "release" /\ For(w) \in Slug
  BY SlugOk DEF K!Dereference, Unpacking
<1>2. package_req[w] \in PackageRequest /\ RequestOk("release", package_req[w])
  BY <1>1, StandsOk
<1>3. PICK k \in package_req[w].left :
        /\ K!Go(w, "release", [package_req[w] EXCEPT !.left = @ \ {k}])
        /\ \/ /\ ref_count' = [ref_count EXCEPT ![k] = K!Decremented(k)]
              /\ jobs' = IF K!Decremented(k) = 0 THEN jobs \cup {k} ELSE jobs
           \/ K!Disturbed("db_error") /\ UNCHANGED <<ref_count, jobs>>
  BY DEF K!Dereference
<1>4. /\ package_pc'[w] = "release" /\ SameRequest(w)
      /\ package_req'[w].left = package_req[w].left \ {k}
  BY <1>2, <1>3, Gone DEF SameRequest, PackageRequest
<1>5. k \in K!Key /\ k[1] = For(w)
  BY <1>2, <1>3 DEF RequestOk, For
<1> QED
  BY <1>1, <1>3, <1>4, <1>5 DEF K!Dereference, K!fileVars

LEMMA DeleteRowStep ==
    ASSUME PackageTyped, NEW w \in Worker, K!DeleteRow(w)
    PROVE  /\ package_pc[w] = "release" /\ package_req[w].left = {} /\ For(w) \in Slug
           /\ UNCHANGED <<dir, K!mediaVars>>
           /\ \/ /\ plugin' = [plugin EXCEPT ![For(w)] = NoPlugin]
                 /\ elements' = [elements EXCEPT ![For(w)] = {}]
                 /\ package_pc'[w] = "remove" /\ package_req'[w] = package_req[w]
              \/ /\ K!Disturbed("db_error") /\ UNCHANGED <<plugin, elements>> /\ Finished(w)
<1>1. package_pc[w] = "release" /\ For(w) \in Slug
  BY SlugOk DEF K!DeleteRow, Unpacking
<1>2. K!Finish(w) => Finished(w)
  BY FinishesAt DEF Finished
<1>3. K!Goto(w, "remove") => package_pc'[w] = "remove" /\ package_req'[w] = package_req[w]
  BY Gone DEF K!Goto
<1> QED
  BY <1>1, <1>2, <1>3 DEF K!DeleteRow, For, K!fileVars

-----------------------------------------------------------------------------
(* A row has its directory, and an installation its slug, to itself. *)

WholeNow == (\A w \in Worker : InstallInv(w)) /\ (\A s \in Slug : PluginInv(s))

(* A row may lose its plugin or change its status, it gets no other package. *)
RowKept(s) ==
    \/ plugin'[s] = plugin[s]
    \/ plugin'[s] = NoPlugin
    \/ plugin[s] # NoPlugin /\ plugin'[s] # NoPlugin /\ plugin'[s].package = plugin[s].package

(* What another request relies on. *)
Leaves(w, x) ==
    /\ For(x) \in Slug => RowKept(For(x))
    /\ At(x) \in Slug => dir'[At(x)] = dir[At(x)]
    /\ package_req[x].install => package_req'[w].slug # For(x)

LEMMA OthersInstall ==
    ASSUME PackageTyped, WholeNow, NEW w \in Worker, PackageAct(w),
           \A x \in Worker \ {w} : Leaves(w, x)
    PROVE  \A x \in Worker \ {w} : InstallInv(x)'
<1> SUFFICES ASSUME NEW x \in Worker \ {w} PROVE InstallInv(x)'
  OBVIOUS
<1>1. \A y \in Worker \ {w} : package_pc'[y] = package_pc[y] /\ package_req'[y] = package_req[y]
  BY ActOthers
<1>2. InstallInv(x) /\ Leaves(w, x)
  BY DEF WholeNow
<1>3. package_pc[x] \notin Unpacking \cup {"idle"} => For(x) \in Slug
  BY SlugOk
<1>4. package_pc[x] \in Unpacking => UnpackOk(package_pc[x], package_req[x])
  BY UnpackingOk
<1>5. package_req[x].install => package_pc[x] \in Unpacking
  BY StandsOk DEF RequestOk
<1>6. package_req[x].install => For(x) \in Slug
  BY <1>4, <1>5, PackageKnown DEF UnpackOk, For
<1>7. package_pc[x] = "register" => At(x) \in Slug
  BY <1>4 DEF UnpackOk, At, Unpacking
<1>8. package_req[x].install => plugin'[For(x)] = NoPlugin
  BY <1>2, <1>6 DEF InstallInv, Leaves, RowKept, For
<1>9. package_req[x].install =>
        \A y \in Worker : package_req'[y].slug = package_req'[x].slug => y = x
  BY <1>1, <1>2 DEF InstallInv, Leaves, For
<1>10. package_pc[x] = "unpack" /\ At(x) \in Slug =>
         dir'[At(x)] = Unpacked(Of(x), package_req[x].entry - 1)
  BY <1>2 DEF InstallInv, Leaves, At, Of
<1>11. package_pc[x] = "register" => dir'[At(x)] = Whole(Of(x))
  BY <1>2, <1>7 DEF InstallInv, Leaves, At, Of
<1>12. package_pc[x] = "remove" => plugin'[For(x)] = NoPlugin
  BY <1>2, <1>3 DEF InstallInv, Leaves, RowKept, For, Unpacking
<1>13. package_pc[x] \in {"drop", "create"} /\ plugin'[For(x)] # NoPlugin =>
         plugin'[For(x)].package = Of(x)
  BY <1>2, <1>3 DEF InstallInv, Leaves, RowKept, For, Of, Unpacking
<1>14. package_pc'[x] = package_pc[x] /\ package_req'[x] = package_req[x]
  BY <1>1
<1> QED
  BY <1>8, <1>9, <1>10, <1>11, <1>12, <1>13, <1>14
     DEF InstallInv, For, At, Of, Unpacked, Whole, K!Holding

(* What a request relies on is its own: an installation's slug, and a      *)
(* directory of a slug.                                                    *)
LEMMA OwnSlug ==
    ASSUME PackageTyped, WholeNow, NEW w \in Worker, package_req[w].install
    PROVE  /\ For(w) \in Slug /\ plugin[For(w)] = NoPlugin /\ For(w) = Of(w).slug
           /\ \A x \in Worker \ {w} : For(x) # For(w)
           /\ \A x \in Worker \ {w} : At(x) # For(w)
           /\ package_pc[w] \in Unpacking
<1>1. package_pc[w] \in Unpacking
  BY StandsOk DEF RequestOk
<1>2. For(w) = Of(w).slug /\ Of(w) \in Package
  BY <1>1, UnpackingOk DEF UnpackOk, For, Of
<1>3. plugin[For(w)] = NoPlugin /\ \A x \in Worker : For(x) = For(w) => x = w
  BY DEF WholeNow, InstallInv, For
<1>4. For(w) \in Slug
  BY <1>2, PackageKnown
<1>5. ASSUME NEW x \in Worker \ {w} PROVE At(x) # For(w)
  <2> SUFFICES ASSUME At(x) = For(w) PROVE FALSE
    OBVIOUS
  <2>1. package_pc[x] \in Unpacking
    BY <1>4, StandsOk, PackageKnown DEF RequestOk, At, K!Name
  <2>2. UnpackOk(package_pc[x], package_req[x])
    BY <2>1, UnpackingOk
  <2>3. For(x) = For(w)
    BY <1>4, <2>2 DEF UnpackOk, At, For
  <2> QED
    BY <1>3, <2>3
<1> QED
  BY <1>1, <1>2, <1>3, <1>4, <1>5

LEMMA AtSlug ==
    ASSUME PackageTyped, NEW x \in Worker, At(x) \in Slug
    PROVE  package_req[x].install /\ For(x) = At(x) /\ package_pc[x] \in Unpacking
<1>1. package_pc[x] \in Unpacking
  BY StandsOk, PackageKnown DEF RequestOk, At, K!Name
<1>2. UnpackOk(package_pc[x], package_req[x])
  BY <1>1, UnpackingOk
<1> QED
  BY <1>1, <1>2 DEF UnpackOk, At, For

LEMMA FinishedInstall ==
    ASSUME NEW w \in Worker, Finished(w)
    PROVE  InstallInv(w)' /\ package_req'[w].slug = NoPlugin /\ package_req'[w].at = NoDir
<1>1. package_req'[w].install = FALSE /\ package_req'[w].slug = NoPlugin
        /\ package_req'[w].at = NoDir
  BY NoRequestOk DEF Finished
<1> QED
  BY <1>1 DEF Finished, InstallInv

LEMMA PluginSame ==
    ASSUME NEW s \in Slug, PluginInv(s), UNCHANGED <<plugin[s], dir[s], elements[s]>>
    PROVE  PluginInv(s)'
  BY DEF PluginInv, Whole, K!Holding

(* A directory is written or deleted that is no plugin's. *)
LEMMA WritesOther ==
    ASSUME PackageTyped, WholeNow, NEW w \in Worker, NEW n \in K!Name,
           n \in Temp \/ (package_req[w].install /\ n = For(w)),
           \E d : dir' = [dir EXCEPT ![n] = d],
           UNCHANGED <<plugin, elements>>,
           package_req'[w].slug \in {For(w), NoPlugin}
    PROVE  /\ \A x \in Worker \ {w} : Leaves(w, x)
           /\ \A s \in Slug : PluginInv(s)'
<1>1. \A m \in K!Name \ {n} : dir'[m] = dir[m]
  BY DEF PackageTyped
<1>2. Slug \subseteq K!Name /\ Slug \cap Temp = {}
  BY PackageKnown DEF K!Name
<1>3. ASSUME NEW s \in Slug, plugin[s] # NoPlugin PROVE dir'[s] = dir[s]
  BY <1>1, <1>2, <1>3, OwnSlug
<1>4. ASSUME NEW x \in Worker \ {w} PROVE Leaves(w, x)
  <2>1. ASSUME At(x) \in Slug PROVE dir'[At(x)] = dir[At(x)]
    <3>1. At(x) # n
      BY <1>2, <2>1, OwnSlug
    <3> QED
      BY <1>1, <1>2, <2>1, <3>1
  <2>2. package_req[x].install => package_req'[w].slug # For(x)
    BY OwnSlug, PackageKnown
  <2> QED
    BY <2>1, <2>2 DEF Leaves, RowKept
<1>5. ASSUME NEW s \in Slug PROVE PluginInv(s)'
  <2>1. PluginInv(s)
    BY DEF WholeNow
  <2>2. CASE plugin[s] = NoPlugin
    BY <2>1, <2>2 DEF PluginInv
  <2>3. CASE plugin[s] # NoPlugin
    BY <1>3, <2>1, <2>3, PluginSame
  <2> QED
    BY <2>2, <2>3
<1> QED
  BY <1>4, <1>5

LEMMA ReceiveWhole ==
    ASSUME PackageTyped, WholeNow, NEW w \in Worker, ~K!Disturbed("reinstall"),
           K!BeginReview(w) \/ K!BeginInstall(w)
    PROVE  WholeNow'
<1>1. PackageAct(w)
  BY DEF PackageAct, K!Extract
<1> DEFINE s == package_req'[w].slug
<1>2. /\ package_pc[w] = "idle" /\ package_pc'[w] = "clean"
      /\ package_req'[w].at \in Temp
      /\ \/ ~package_req'[w].install /\ s = NoPlugin
         \/ /\ package_req'[w].install /\ s \in Slug /\ plugin[s] = NoPlugin
            /\ \A x \in Worker : For(x) # s
      /\ UNCHANGED <<dir, K!rowVars>>
  BY ReceiveSteps
<1>3. \A x \in Worker \ {w} : Leaves(w, x)
  BY <1>2, OwnSlug, PackageKnown DEF Leaves, RowKept, K!rowVars
<1>4. \A x \in Worker \ {w} : InstallInv(x)'
  BY <1>1, <1>3, OthersInstall
<1>5. \A x \in Worker \ {w} : package_req'[x] = package_req[x]
  BY <1>1, ActOthers
<1>6. InstallInv(w)'
  BY <1>2, <1>5 DEF InstallInv, For, K!rowVars
<1>7. \A t \in Slug : PluginInv(t)'
  BY <1>2, PluginSame DEF WholeNow, K!rowVars
<1> QED
  BY <1>4, <1>6, <1>7 DEF WholeNow

LEMMA ExtractWhole ==
    ASSUME PackageTyped, WholeNow, NEW w \in Worker,
           K!Clean(w) \/ K!Unpack(w) \/ K!Unpacked(w) \/ K!ReadForReview(w) \/ K!ReadForInstall(w)
    PROVE  WholeNow'
<1>1. PackageAct(w)
  BY DEF PackageAct, K!Extract, K!Install
<1>u. package_pc[w] \in Unpacking /\ UnpackOk(package_pc[w], package_req[w])
  BY CleanStep, UnpackStep, UnpackedStep, ReadStep DEF Unpacking
<1>n. At(w) \in K!Name /\ (At(w) \in Temp \/ (package_req[w].install /\ At(w) = For(w)))
  BY <1>u DEF UnpackOk, At, For, K!Name
<1>e. UNCHANGED <<plugin, elements>>
  BY CleanStep, UnpackStep, UnpackedStep, ReadStep DEF K!rowVars
<1>o. \A x \in Worker \ {w} : package_req'[x] = package_req[x]
  BY <1>1, ActOthers
<1>i. InstallInv(w)
  BY DEF WholeNow
(* The directory is left alone, or it is no plugin's. *)
<1>d. (\E d : dir' = [dir EXCEPT ![At(w)] = d]) \/ UNCHANGED dir
  BY CleanStep, UnpackStep, UnpackedStep, ReadStep
<1>s. package_req'[w].slug \in {For(w), NoPlugin}
  BY CleanStep, UnpackStep, UnpackedStep, ReadStep, FinishedInstall DEF SameRequest, For
<1>k. /\ \A x \in Worker \ {w} : Leaves(w, x)
      /\ \A s \in Slug : PluginInv(s)'
  <2>1. CASE \E d : dir' = [dir EXCEPT ![At(w)] = d]
    BY <2>1, <1>n, <1>e, <1>s, WritesOther
  <2>2. CASE UNCHANGED dir
    <3>1. \A x \in Worker \ {w} : Leaves(w, x)
      BY <2>2, <1>e, <1>s, OwnSlug, PackageKnown DEF Leaves, RowKept
    <3>2. \A s \in Slug : PluginInv(s)'
      BY <2>2, <1>e, PluginSame DEF WholeNow
    <3> QED
      BY <3>1, <3>2
  <2> QED
    BY <1>d, <2>1, <2>2
<1>4. \A x \in Worker \ {w} : InstallInv(x)'
  BY <1>1, <1>k, OthersInstall
(* An installation that goes on has its slug to itself as before. *)
<1>g. ASSUME package_req'[w].install = package_req[w].install, package_req'[w].slug = For(w)
      PROVE  package_req'[w].install =>
                /\ plugin'[package_req'[w].slug] = NoPlugin
                /\ \A x \in Worker : package_req'[x].slug = package_req'[w].slug => x = w
  BY <1>g, <1>e, <1>o, <1>i DEF InstallInv, For
<1>5. InstallInv(w)'
  <2>1. CASE K!Clean(w)
    <3>1. CASE Finished(w)
      BY <3>1, FinishedInstall
    <3>2. CASE /\ package_pc'[w] = "unpack" /\ SameRequest(w) /\ package_req'[w].entry = 1
               /\ dir' = [dir EXCEPT ![At(w)] = K!Holding(Of(w), {})]
      <4>1. dir'[At(w)] = K!Holding(Of(w), {})
        BY <3>2, <1>n DEF PackageTyped
      <4>2. {Of(w).entries[i] : i \in 1 .. 1 - 1} = {}
        OBVIOUS
      <4>3. package_req'[w].at = At(w) /\ package_req'[w].package = Of(w)
        BY <3>2 DEF SameRequest, At, Of
      <4> QED
        BY <3>2, <4>1, <4>2, <4>3, <1>g DEF InstallInv, Unpacked, SameRequest, For, K!Holding
    <3> QED
      BY <2>1, <3>1, <3>2, CleanStep
  <2>2. CASE K!Unpack(w)
    <3> DEFINE i == package_req[w].entry
               e == Of(w).entries[i]
    <3>1. CASE Finished(w)
      BY <3>1, FinishedInstall
    <3>2. CASE /\ package_pc'[w] = "unpack" /\ SameRequest(w) /\ package_req'[w].entry = i + 1
               /\ dir' = [dir EXCEPT ![At(w)] = K!Holding(Of(w), K!Parts(At(w)) \cup {e})]
      <4>1. dir'[At(w)] = K!Holding(Of(w), K!Parts(At(w)) \cup {e})
        BY <3>2, <1>n DEF PackageTyped
      <4>2. package_req'[w].at = At(w) /\ package_req'[w].package = Of(w)
        BY <3>2 DEF SameRequest, At, Of
      <4>3. i \in 1 .. Len(Of(w).entries)
        BY <2>2, UnpackStep
      <4>4. Len(Of(w).entries) \in Nat
        BY <1>u, PackageKnown DEF UnpackOk, Of
      <4>5. ASSUME At(w) \in Slug
            PROVE  dir'[At(w)] = Unpacked(Of(w), package_req'[w].entry - 1)
        <5>1. dir[At(w)] = Unpacked(Of(w), i - 1)
          BY <2>2, <4>5, <1>i, UnpackStep DEF InstallInv, At, Of
        <5>2. dir[At(w)] # NoDir
          <6>1. \A j \in 1 .. i - 1 : Of(w).entries[j] \in Part \cup {Manifest}
            BY <2>2, UnpackStep DEF UnpackOk, EntryOk, Of
          <6>2. Of(w) \in Package
            BY <1>u DEF UnpackOk, Of
          <6>3. dir[At(w)] \in K!Content
            BY <5>1, <6>1, <6>2 DEF Unpacked, K!Holding, K!Content
          <6> QED
            BY <6>3, PackageKnown
        <5>3. K!Parts(At(w)) = {Of(w).entries[j] : j \in 1 .. i - 1}
          BY <5>1, <5>2 DEF K!Parts, Unpacked, K!Holding
        <5>4. 1 .. (i + 1) - 1 = (1 .. i - 1) \cup {i}
          BY <4>3, <4>4
        <5>5. {Of(w).entries[j] : j \in 1 .. (i + 1) - 1} = K!Parts(At(w)) \cup {e}
          BY <5>3, <5>4
        <5> QED
          BY <3>2, <4>1, <5>5 DEF Unpacked
      <4> QED
        BY <3>2, <4>2, <4>5, <1>g DEF InstallInv, SameRequest, For, Unpacked, K!Holding
    <3> QED
      BY <2>2, <3>1, <3>2, UnpackStep
  <2>3. CASE K!Unpacked(w)
    <3>1. CASE Finished(w)
      BY <3>1, FinishedInstall
    <3>2. CASE /\ package_pc'[w] = (IF At(w) \in Temp THEN "read" ELSE "register")
               /\ package_req'[w] = package_req[w] /\ UNCHANGED dir
      <4>1. ASSUME At(w) \notin Temp PROVE dir'[At(w)] = Whole(Of(w))
        <5>1. At(w) \in Slug
          BY <1>n, <4>1 DEF K!Name
        <5>2. dir[At(w)] = Unpacked(Of(w), package_req[w].entry - 1)
          BY <2>3, <5>1, <1>i, UnpackedStep DEF InstallInv, At, Of
        <5>3. Of(w).entries \in Seq({Manifest, Refused, Huge} \cup Part)
          BY <1>u, PackageKnown DEF UnpackOk, Of
        <5>4. package_req[w].entry - 1 = Len(Of(w).entries)
          BY <2>3, <5>3, UnpackedStep
        <5>5. DOMAIN Of(w).entries = 1 .. package_req[w].entry - 1
          BY <5>3, <5>4
        <5>6. Unpacked(Of(w), package_req[w].entry - 1) = Whole(Of(w))
          BY <5>5 DEF Unpacked, Whole, K!ToSet
        <5> QED
          BY <3>2, <5>2, <5>6
      <4> QED
        BY <3>2, <4>1, <1>g DEF InstallInv, For, At, Of, Whole, K!Holding
    <3> QED
      BY <2>3, <3>1, <3>2, UnpackedStep
  <2>4. CASE K!ReadForReview(w) \/ K!ReadForInstall(w)
    <3>1. CASE Finished(w)
      BY <3>1, FinishedInstall
    <3>2. CASE /\ package_pc'[w] = "clean" /\ package_req[w].install /\ package_req'[w].install
               /\ package_req'[w].slug = For(w)
      BY <3>2, <1>g DEF InstallInv
    <3> QED
      BY <2>4, <3>1, <3>2, ReadStep
  <2> QED
    BY <2>1, <2>2, <2>3, <2>4
<1> QED
  BY <1>4, <1>5, <1>k DEF WholeNow

LEMMA RegisterWhole ==
    ASSUME PackageTyped, WholeNow, NEW w \in Worker, K!Register(w)
    PROVE  WholeNow'
<1>1. PackageAct(w)
  BY DEF PackageAct, K!Install
<1>2. /\ package_pc[w] = "register" /\ UNCHANGED elements /\ Finished(w)
      /\ For(w) \in Slug /\ At(w) = For(w) /\ package_req[w].install
  BY RegisterStep
<1>3. InstallInv(w)' /\ package_req'[w].slug = NoPlugin
  BY <1>2, FinishedInstall
<1>4. CASE /\ plugin[For(w)] = NoPlugin /\ UNCHANGED dir
           /\ plugin' = [plugin EXCEPT ![For(w)] = [package |-> Of(w), status |-> "inactive"]]
  <2>1. \A s \in Slug \ {For(w)} : plugin'[s] = plugin[s]
    BY <1>4 DEF PackageTyped
  <2>2. \A x \in Worker \ {w} : Leaves(w, x)
    BY <1>2, <1>3, <1>4, <2>1, OwnSlug, PackageKnown DEF Leaves, RowKept
  <2>3. \A x \in Worker \ {w} : InstallInv(x)'
    BY <1>1, <2>2, OthersInstall
  <2>0. PICK s : s = For(w)
    OBVIOUS
  <2>4. PluginInv(s)'
    <3>1. plugin'[For(w)] = [package |-> Of(w), status |-> "inactive"]
      BY <1>2, <1>4 DEF PackageTyped
    <3>2. plugin'[For(w)].package = Of(w)
      BY <3>1
    <3>3. dir'[For(w)] = Whole(Of(w))
      BY <1>2, <1>4 DEF WholeNow, InstallInv, At, For, Of
    <3>4. elements'[For(w)] = {}
      BY <1>2, <1>4 DEF WholeNow, PluginInv
    <3>5. plugin'[For(w)] # NoPlugin
      <4>1. plugin'[For(w)] \in K!PluginRow
        BY <1>2, <3>1, UnpackingOk DEF K!PluginRow, UnpackOk, Of, Unpacking
      <4> QED
        BY <4>1, PackageKnown
    <3>6. Whole(Of(w)) # NoDir
      <4>1. Of(w) \in Package /\ \A i \in DOMAIN Of(w).entries : EntryOk(Of(w), i)
        BY <1>2, UnpackingOk DEF UnpackOk, Of, Unpacking
      <4>2. K!ToSet(Of(w).entries) \subseteq Part \cup {Manifest}
        BY <4>1 DEF EntryOk, K!ToSet
      <4>3. Whole(Of(w)) \in K!Content
        BY <4>1, <4>2 DEF Whole, K!Holding, K!Content
      <4> QED
        BY <4>3, PackageKnown
    <3> QED
      BY <2>0, <3>2, <3>3, <3>4, <3>5, <3>6 DEF PluginInv, Whole, K!Holding
  <2>5. \A t \in Slug \ {s} : PluginInv(t)'
    BY <1>2, <1>4, <2>0, <2>1, PluginSame DEF WholeNow
  <2> QED
    BY <1>3, <2>3, <2>4, <2>5 DEF WholeNow
<1>5. CASE UNCHANGED plugin /\ dir' = [dir EXCEPT ![At(w)] = NoDir]
  <2>1. For(w) \in K!Name
    BY <1>2 DEF K!Name
  <2>2. (\A x \in Worker \ {w} : Leaves(w, x)) /\ (\A s \in Slug : PluginInv(s)')
    BY <1>2, <1>3, <1>5, <2>1, WritesOther
  <2> QED
    BY <1>1, <1>3, <2>2, OthersInstall DEF WholeNow
<1> QED
  BY <1>4, <1>5, RegisterStep

(* Where directories and rows stay, what others rely on is the slug. *)
LEMMA StillWhole ==
    ASSUME PackageTyped, WholeNow, NEW w \in Worker, PackageAct(w),
           UNCHANGED <<dir, plugin>>, package_req'[w].slug \in {For(w), NoPlugin},
           InstallInv(w)', \A s \in Slug : PluginInv(s)'
    PROVE  WholeNow'
<1>1. \A x \in Worker \ {w} : Leaves(w, x)
  BY OwnSlug, PackageKnown DEF Leaves, RowKept
<1> QED
  BY <1>1, OthersInstall DEF WholeNow

LEMMA BegunWhole ==
    ASSUME PackageTyped, WholeNow, NEW w \in Worker, PackageAct(w), NEW place,
           Begun(w, place), place \notin {"unpack", "register", "remove", "create"},
           place = "drop" => package_req'[w].package = plugin[package_req'[w].slug].package
    PROVE  WholeNow'
<1>1. \A x \in Worker \ {w} : Leaves(w, x)
  BY OwnSlug DEF Begun, Leaves, RowKept, K!rowVars
<1>2. \A x \in Worker \ {w} : InstallInv(x)'
  BY <1>1, OthersInstall
<1>3. InstallInv(w)'
  BY DEF Begun, InstallInv, K!rowVars
<1>4. \A s \in Slug : PluginInv(s)'
  BY PluginSame DEF Begun, WholeNow, K!rowVars
<1> QED
  BY <1>2, <1>3, <1>4 DEF WholeNow

LEMMA BeginWhole ==
    ASSUME PackageTyped, WholeNow, NEW w \in Worker,
           \/ K!BeginActivate(w) \/ K!BeginDeactivate(w) \/ K!BeginMove(w)
           \/ K!BeginMedia(w) \/ K!BeginUninstall(w)
    PROVE  WholeNow'
<1>1. PackageAct(w)
  BY DEF PackageAct, K!Show, K!Hide, K!Move, K!Media, K!Uninstall
<1> QED
  BY <1>1, BeginActivateStep, BeginSteps, BegunWhole

(* The elements of one slug change to others of its package. *)
LEMMA ElementsWhole ==
    ASSUME PackageTyped, WholeNow, NEW s \in Slug, NEW E,
           elements' = [elements EXCEPT ![s] = E], UNCHANGED <<dir, plugin>>,
           plugin[s] = NoPlugin => E = {},
           plugin[s] # NoPlugin => \A e \in E : e.component \in DOMAIN plugin[s].package.components
    PROVE  \A t \in Slug : PluginInv(t)'
<1>1. ASSUME NEW t \in Slug \ {s} PROVE PluginInv(t)'
  BY PluginSame DEF PackageTyped, WholeNow
<1>2. PluginInv(s)'
  BY DEF PackageTyped, WholeNow, PluginInv, Whole, K!Holding
<1> QED
  BY <1>1, <1>2

LEMMA ElementsStepsWhole ==
    ASSUME PackageTyped, WholeNow, NEW w \in Worker,
           \/ K!DropElements(w) \/ K!CreateElement(w) \/ K!HideElements(w) \/ K!UpdateElement(w)
    PROVE  WholeNow'
<1>1. PackageAct(w)
  BY DEF PackageAct, K!Show, K!Hide, K!Move
<1>2. UNCHANGED <<dir, plugin>> /\ For(w) \in Slug
  BY DropStep, CreateStep, PlainSteps
<1>i. InstallInv(w)
  BY DEF WholeNow
<1>n. package_pc[w] \in {"drop", "create"} => ~package_req[w].install
  BY SlugOk DEF Unpacking
<1>3. CASE K!DropElements(w)
  <2>1. /\ package_pc[w] = "drop" /\ package_pc'[w] = "create" /\ SameRequest(w)
        /\ elements' = [elements EXCEPT ![For(w)] = {}]
    BY <1>3, DropStep
  <2>2. InstallInv(w)'
    BY <1>2, <1>i, <1>n, <2>1 DEF InstallInv, SameRequest
  <2>3. \A s \in Slug : PluginInv(s)'
    BY <1>2, <2>1, ElementsWhole
  <2> QED
    BY <1>1, <1>2, <2>1, <2>2, <2>3, StillWhole DEF SameRequest, For
<1>4. CASE K!CreateElement(w)
  <2>1. CASE UNCHANGED elements /\ Finished(w)
    BY <1>1, <1>2, <2>1, FinishedInstall, PluginSame, StillWhole DEF WholeNow
  <2>2. ASSUME NEW c \in package_req[w].left,
               /\ package_pc'[w] = "create" /\ SameRequest(w) /\ plugin[For(w)] # NoPlugin
               /\ elements' = [elements EXCEPT ![For(w)] =
                                  elements[For(w)] \cup {K!Element(package_req[w], c)}]
        PROVE  WholeNow'
    <3>1. package_pc[w] = "create" /\ RequestOk("create", package_req[w])
      BY <1>4, CreateStep, StandsOk
    <3>2. InstallInv(w)'
      BY <1>2, <1>i, <1>n, <2>2, <3>1 DEF InstallInv, SameRequest
    <3>3. plugin[For(w)].package = Of(w)
      BY <1>i, <2>2, <3>1 DEF InstallInv, For, Of
    <3>4. c \in DOMAIN Of(w).components
      BY <3>1 DEF RequestOk, Of
    <3>5. K!Element(package_req[w], c).component = c
      BY DEF K!Element
    <3>6. \A e \in elements[For(w)] : e.component \in DOMAIN plugin[For(w)].package.components
      BY <1>2, <2>2 DEF WholeNow, PluginInv
    <3> DEFINE E == elements[For(w)] \cup {K!Element(package_req[w], c)}
    <3>7. \A e \in E : e.component \in DOMAIN plugin[For(w)].package.components
      BY <3>3, <3>4, <3>5, <3>6
    <3>8. elements' = [elements EXCEPT ![For(w)] = E]
      BY <2>2
    <3> HIDE DEF E
    <3>9. \A s \in Slug : PluginInv(s)'
      BY <1>2, <2>2, <3>7, <3>8, ElementsWhole
    <3> QED
      BY <1>1, <1>2, <2>2, <3>2, <3>9, StillWhole DEF SameRequest, For
  <2> QED
    BY <1>4, <2>1, <2>2, CreateStep
<1>5. CASE K!HideElements(w)
  <2>1. Finished(w) /\ elements' = [elements EXCEPT ![For(w)] = {}]
    BY <1>5, PlainSteps
  <2>2. \A s \in Slug : PluginInv(s)'
    BY <1>2, <2>1, ElementsWhole
  <2> QED
    BY <1>1, <1>2, <2>1, <2>2, FinishedInstall, StillWhole
<1>6. CASE K!UpdateElement(w)
  <2> DEFINE row == {e \in elements[For(w)] : <<e.made, e.component>> = package_req[w].element}
  <2>1. PICK p \in Place :
          elements' = [elements EXCEPT ![For(w)] =
                          (elements[For(w)] \ row) \cup {[e EXCEPT !.place = p] : e \in row}]
    BY <1>6, PlainSteps
  <2> DEFINE E == (elements[For(w)] \ row) \cup {[e EXCEPT !.place = p] : e \in row}
  <2>2. \A e \in row : [e EXCEPT !.place = p].component = e.component
    BY <1>2 DEF PackageTyped
  <2>3. \A f \in E : \E e \in elements[For(w)] : f.component = e.component
    BY <2>2
  <2>4. elements' = [elements EXCEPT ![For(w)] = E]
    BY <2>1
  <2> HIDE DEF E, row
  <2>5. PluginInv(For(w))
    BY <1>2 DEF WholeNow
  <2>6. plugin[For(w)] = NoPlugin => E = {}
    BY <2>3, <2>5 DEF PluginInv
  <2>7. plugin[For(w)] # NoPlugin =>
          \A e \in E : e.component \in DOMAIN plugin[For(w)].package.components
    BY <2>3, <2>5 DEF PluginInv
  <2>8. \A s \in Slug : PluginInv(s)'
    BY <1>2, <2>4, <2>6, <2>7, ElementsWhole
  <2>9. Finished(w)
    BY <1>6, PlainSteps
  <2> QED
    BY <1>1, <1>2, <2>8, <2>9, FinishedInstall, StillWhole
<1> QED
  BY <1>3, <1>4, <1>5, <1>6

LEMMA StatusWhole ==
    ASSUME PackageTyped, WholeNow, NEW w \in Worker,
           K!SetActive(w) \/ K!SetInactive(w) \/ K!SetUninstalling(w)
    PROVE  WholeNow'
<1>1. PackageAct(w)
  BY DEF PackageAct, K!Show, K!Hide, K!Uninstall
<1>2. UNCHANGED <<dir, elements>> /\ For(w) \in Slug
        /\ package_pc[w] \in {"create", "deactivate", "uninstall"}
  BY StatusStep
<1>3. CASE Finished(w) /\ UNCHANGED plugin
  BY <1>1, <1>2, <1>3, FinishedInstall, PluginSame, StillWhole DEF WholeNow
<1>4. ASSUME NEW to, plugin[For(w)] # NoPlugin, plugin' = [plugin EXCEPT ![For(w)].status = to],
             to \in {"inactive", "active", "uninstalling"},
             \/ Finished(w)
             \/ /\ package_pc'[w] \in {"hide", "list"} /\ package_req'[w] = package_req[w]
      PROVE  WholeNow'
  <2>1. plugin[For(w)] \in K!PluginRow
    BY <1>2, <1>4 DEF PackageTyped
  <2>2. plugin'[For(w)] = [plugin[For(w)] EXCEPT !.status = to]
    BY <1>2, <1>4 DEF PackageTyped
  <2>3. plugin'[For(w)] \in K!PluginRow /\ plugin'[For(w)].package = plugin[For(w)].package
    BY <1>4, <2>1, <2>2 DEF K!PluginRow
  <2>4. plugin'[For(w)] # NoPlugin
    BY <2>3, PackageKnown
  <2>5. \A s \in Slug \ {For(w)} : plugin'[s] = plugin[s]
    BY <1>4 DEF PackageTyped
  <2>6. \A s \in Slug : RowKept(s)
    BY <1>4, <2>3, <2>4, <2>5 DEF RowKept
  <2>7. package_req'[w].slug \in {For(w), NoPlugin}
    BY <1>4, FinishedInstall DEF For
  <2>8. \A x \in Worker \ {w} : Leaves(w, x)
    BY <1>2, <2>6, <2>7, OwnSlug, PackageKnown DEF Leaves
  <2>9. \A x \in Worker \ {w} : InstallInv(x)'
    BY <1>1, <2>8, OthersInstall
  <2>10. InstallInv(w)'
    <3>1. CASE Finished(w)
      BY <3>1, FinishedInstall
    <3>2. CASE package_pc'[w] \in {"hide", "list"} /\ package_req'[w] = package_req[w]
      <4>1. ~package_req[w].install
        BY <1>2, SlugOk DEF Unpacking
      <4> QED
        BY <3>2, <4>1 DEF InstallInv
    <3> QED
      BY <1>4, <3>1, <3>2
  <2>0. PICK s : s = For(w)
    OBVIOUS
  <2>11. \A t \in Slug \ {s} : PluginInv(t)'
    BY <1>2, <2>0, <2>5, PluginSame DEF WholeNow
  <2>12. PluginInv(s)'
    <3>1. PluginInv(s)
      BY <1>2, <2>0 DEF WholeNow
    <3> QED
      BY <1>2, <1>4, <2>0, <2>3, <2>4, <3>1 DEF PluginInv, Whole, K!Holding
  <2> QED
    BY <2>9, <2>10, <2>11, <2>12 DEF WholeNow
<1> QED
  BY <1>3, <1>4, StatusStep

LEMMA MediaWhole ==
    ASSUME PackageTyped, WholeNow, NEW w \in Worker,
           K!StoreMedia(w) \/ K!ListMedia(w) \/ K!Dereference(w)
    PROVE  WholeNow'
<1>1. PackageAct(w)
  BY DEF PackageAct, K!Media, K!Uninstall
<1>2. UNCHANGED <<dir, plugin, elements>>
        /\ \/ Finished(w)
           \/ SameRequest(w) /\ package_pc'[w] = "release" /\ package_pc[w] \in {"list", "release"}
  BY PlainSteps, ListStep, DereferenceStep DEF K!rowVars
<1>3. InstallInv(w)'
  <2>1. CASE Finished(w)
    BY <2>1, FinishedInstall
  <2>2. CASE SameRequest(w) /\ package_pc'[w] = "release" /\ package_pc[w] \in {"list", "release"}
    BY <2>2, SlugOk DEF InstallInv, SameRequest, Unpacking
  <2> QED
    BY <1>2, <2>1, <2>2
<1>4. \A s \in Slug : PluginInv(s)'
  BY <1>2, PluginSame DEF WholeNow
<1>5. package_req'[w].slug \in {For(w), NoPlugin}
  BY <1>2, FinishedInstall DEF SameRequest, For
<1> QED
  BY <1>1, <1>2, <1>3, <1>4, <1>5, StillWhole

LEMMA DeleteRowWhole ==
    ASSUME PackageTyped, WholeNow, NEW w \in Worker, K!DeleteRow(w)
    PROVE  WholeNow'
<1>1. PackageAct(w)
  BY DEF PackageAct, K!Uninstall
<1>2. package_pc[w] = "release" /\ For(w) \in Slug /\ UNCHANGED dir
  BY DeleteRowStep
<1>3. CASE UNCHANGED <<plugin, elements>> /\ Finished(w)
  BY <1>1, <1>2, <1>3, FinishedInstall, PluginSame, StillWhole DEF WholeNow
<1>4. CASE /\ plugin' = [plugin EXCEPT ![For(w)] = NoPlugin]
           /\ elements' = [elements EXCEPT ![For(w)] = {}]
           /\ package_pc'[w] = "remove" /\ package_req'[w] = package_req[w]
  <2>1. plugin'[For(w)] = NoPlugin /\ elements'[For(w)] = {}
    BY <1>2, <1>4 DEF PackageTyped
  <2>2. \A s \in Slug \ {For(w)} : plugin'[s] = plugin[s] /\ elements'[s] = elements[s]
    BY <1>4 DEF PackageTyped
  <2>3. \A x \in Worker \ {w} : Leaves(w, x)
    BY <1>2, <1>4, <2>1, <2>2, OwnSlug DEF Leaves, RowKept, For
  <2>4. InstallInv(w)'
    BY <1>2, <1>4, <2>1, SlugOk DEF InstallInv, For, Unpacking
  <2>0. PICK s : s = For(w)
    OBVIOUS
  <2>5. \A t \in Slug \ {s} : PluginInv(t)'
    BY <1>2, <2>0, <2>2, PluginSame DEF WholeNow
  <2>6. PluginInv(s)'
    BY <1>2, <2>0, <2>1 DEF PluginInv
  <2> QED
    BY <1>1, <2>3, <2>4, <2>5, <2>6, OthersInstall DEF WholeNow
<1> QED
  BY <1>3, <1>4, DeleteRowStep

LEMMA RemoveWhole ==
    ASSUME PackageTyped, WholeNow, NEW w \in Worker, K!RemoveDir(w)
    PROVE  WholeNow'
<1>1. PackageAct(w)
  BY DEF PackageAct, K!Uninstall
<1>2. /\ package_pc[w] = "remove" /\ For(w) \in Slug /\ Finished(w)
      /\ dir' = [dir EXCEPT ![For(w)] = NoDir] \/ UNCHANGED dir
      /\ UNCHANGED <<plugin, elements>>
  BY PlainSteps DEF K!rowVars
<1>3. plugin[For(w)] = NoPlugin
  BY <1>2 DEF WholeNow, InstallInv, For
<1>4. \A s \in Slug \ {For(w)} : dir'[s] = dir[s]
  BY <1>2 DEF PackageTyped, K!Name
<1>5. \A x \in Worker \ {w} : Leaves(w, x)
  <2> SUFFICES ASSUME NEW x \in Worker \ {w} PROVE Leaves(w, x)
    OBVIOUS
  <2>1. ASSUME At(x) \in Slug PROVE At(x) # For(w)
    BY <1>2, <2>1, AtSlug, OwnSlug
  <2> QED
    BY <1>2, <1>4, <2>1, FinishedInstall, OwnSlug, PackageKnown DEF Leaves, RowKept
<1>6. \A s \in Slug : PluginInv(s)'
  <2> SUFFICES ASSUME NEW s \in Slug PROVE PluginInv(s)'
    OBVIOUS
  <2>1. PluginInv(s)
    BY DEF WholeNow
  <2>2. CASE s = For(w)
    BY <1>2, <1>3, <2>1, <2>2 DEF PluginInv
  <2>3. CASE s # For(w)
    BY <1>2, <1>4, <2>1, <2>3, PluginSame
  <2> QED
    BY <2>2, <2>3
<1> QED
  BY <1>1, <1>2, <1>5, <1>6, OthersInstall, FinishedInstall DEF WholeNow

LEMMA CollectWhole ==
    ASSUME WholeNow, NEW k, K!Collect(k)
    PROVE  WholeNow'
<1>1. UNCHANGED <<dir, plugin, elements, package_pc, package_req>>
  BY DEF K!Collect, K!fileVars, K!rowVars, K!requestVars
<1> QED
  BY <1>1, PluginSame DEF WholeNow, InstallInv, Unpacked, Whole, K!Holding

LEMMA RestartWhole ==
    ASSUME WholeNow, K!Restart
    PROVE  WholeNow'
<1>1. UNCHANGED <<dir, plugin, elements>>
  BY DEF K!Restart, K!fileVars, K!rowVars
<1>2. \A w \in Worker : package_pc'[w] = "idle" /\ package_req'[w] = K!NoRequest
  BY DEF K!Restart
<1>3. \A w \in Worker : InstallInv(w)'
  BY <1>2, NoRequestOk DEF InstallInv
<1> QED
  BY <1>1, <1>3, PluginSame DEF WholeNow

LEMMA ActWhole ==
    ASSUME PackageTyped, WholeInv, NEW w \in Worker, PackageAct(w)
    PROVE  WholeInv'
<1>1. package_world' = package_world
  BY WorldKept
<1>2. SUFFICES ASSUME K!Without({"reinstall"}) PROVE WholeNow'
  BY <1>1 DEF WholeInv, WholeNow, K!Without
<1>3. WholeNow /\ ~K!Disturbed("reinstall")
  BY <1>2 DEF WholeInv, WholeNow, K!Without, K!Disturbed
<1>4. CASE K!Extract(w) \/ K!Install(w)
  BY <1>3, <1>4, ReceiveWhole, ExtractWhole, RegisterWhole DEF K!Extract, K!Install
<1>5. CASE K!Show(w) \/ K!Hide(w) \/ K!Move(w)
  BY <1>3, <1>5, BeginWhole, ElementsStepsWhole, StatusWhole DEF K!Show, K!Hide, K!Move
<1>6. CASE K!Media(w) \/ K!Uninstall(w)
  BY <1>3, <1>6, BeginWhole, MediaWhole, StatusWhole, DeleteRowWhole, RemoveWhole
     DEF K!Media, K!Uninstall
<1> QED
  BY <1>4, <1>5, <1>6 DEF PackageAct

-----------------------------------------------------------------------------
(* One request at a time. *)

Alone == \A w, x \in Worker : package_pc[w] # "idle" /\ package_pc[x] # "idle" => w = x

LEMMA PackageActsAlone ==
    ASSUME PackageTyped, Alone, ~K!Disturbed("overlap"), NEW w \in Worker, PackageAct(w)
    PROVE  Alone' /\ \A x \in Worker \ {w} : package_pc[x] = "idle"
<1>1. package_pc[w] # "idle" \/ K!Quiet
  <2>1. K!Extract(w) => package_pc[w] # "idle" \/ K!Quiet
    BY ReceiveSteps, CleanStep, UnpackStep, UnpackedStep DEF K!Extract
  <2>2. K!Install(w) => package_pc[w] # "idle"
    BY ReadStep, RegisterStep DEF K!Install
  <2>3. K!Show(w) => package_pc[w] # "idle" \/ K!Quiet
    BY BeginActivateStep, DropStep, CreateStep, StatusStep DEF K!Show, Begun
  <2>4. K!Hide(w) \/ K!Move(w) => package_pc[w] # "idle" \/ K!Quiet
    BY BeginSteps, StatusStep, PlainSteps DEF K!Hide, K!Move, Begun
  <2>5. K!Media(w) \/ K!Uninstall(w) => package_pc[w] # "idle" \/ K!Quiet
    BY BeginSteps, StatusStep, PlainSteps, ListStep, DereferenceStep, DeleteRowStep
       DEF K!Media, K!Uninstall, Begun
  <2> QED
    BY <2>1, <2>2, <2>3, <2>4, <2>5 DEF PackageAct
<1>2. \A x \in Worker \ {w} : package_pc[x] = "idle"
  BY <1>1 DEF Alone, K!Quiet
<1> QED
  BY <1>2, ActOthers DEF Alone

(* Elements are shown once, and those that are left are not shown yet. *)
Once == \A s \in Slug : \A e, f \in elements[s] : e.component = f.component => e = f
YetToMake(w) ==
    package_pc[w] = "create" =>
        \A e \in elements[package_req[w].slug] : e.component \notin package_req[w].left

LEMMA SingleParts ==
    SingleInv <=> (K!Without({"overlap"}) =>
                      Alone /\ Once /\ \A w \in Worker : YetToMake(w))
  BY DEF SingleInv, Alone, Once, YetToMake

LEMMA ElementsOnceStep ==
    ASSUME PackageTyped, Once, NEW w \in Worker, YetToMake(w), PackageAct(w)
    PROVE  Once' /\ YetToMake(w)'
<1>d. \A s \in Slug : elements[s] \subseteq [made : 0 .. MaxMade, component : Part, place : Place]
  BY DEF PackageTyped
<1>1. CASE K!DropElements(w)
  <2>1. elements' = [elements EXCEPT ![For(w)] = {}] /\ For(w) \in Slug
          /\ package_req'[w].slug = For(w)
    BY <1>1, DropStep DEF SameRequest, For
  <2>2. elements'[For(w)] = {} /\ \A s \in Slug \ {For(w)} : elements'[s] = elements[s]
    BY <2>1 DEF PackageTyped
  <2> QED
    BY <2>1, <2>2 DEF Once, YetToMake
<1>2. CASE K!CreateElement(w)
  <2>1. CASE UNCHANGED elements /\ Finished(w)
    BY <2>1 DEF Once, YetToMake, Finished
  <2>2. ASSUME NEW c \in package_req[w].left, For(w) \in Slug, package_pc[w] = "create",
               SameRequest(w), package_req'[w].left = package_req[w].left \ {c},
               elements' = [elements EXCEPT ![For(w)] =
                               elements[For(w)] \cup {K!Element(package_req[w], c)}]
        PROVE  Once' /\ YetToMake(w)'
    <3>1. /\ elements'[For(w)] = elements[For(w)] \cup {K!Element(package_req[w], c)}
          /\ \A s \in Slug \ {For(w)} : elements'[s] = elements[s]
      BY <2>2 DEF PackageTyped
    <3>2. K!Element(package_req[w], c).component = c
      BY DEF K!Element
    <3>3. \A e \in elements[For(w)] : e.component \notin package_req[w].left
      BY <2>2 DEF YetToMake, For
    <3>4. Once'
      BY <2>2, <3>1, <3>2, <3>3 DEF Once
    <3>5. package_req'[w].slug = For(w)
      BY <2>2 DEF SameRequest, For
    <3>6. YetToMake(w)'
      BY <2>2, <3>1, <3>2, <3>3, <3>5 DEF YetToMake
    <3> QED
      BY <3>4, <3>6
  <2> QED
    BY <1>2, <2>1, <2>2, CreateStep
<1>3. CASE K!UpdateElement(w)
  <2> DEFINE row == {e \in elements[For(w)] : <<e.made, e.component>> = package_req[w].element}
  <2>1. For(w) \in Slug /\ Finished(w)
    BY <1>3, PlainSteps
  <2>2. PICK p \in Place :
          elements' = [elements EXCEPT ![For(w)] =
                          (elements[For(w)] \ row) \cup {[e EXCEPT !.place = p] : e \in row}]
    BY <1>3, PlainSteps
  <2> DEFINE E == (elements[For(w)] \ row) \cup {[e EXCEPT !.place = p] : e \in row}
  <2>3. elements'[For(w)] = E /\ \A s \in Slug \ {For(w)} : elements'[s] = elements[s]
    BY <2>1, <2>2 DEF PackageTyped
  <2>4. \A e \in row : [e EXCEPT !.place = p].component = e.component
    BY <2>1, <1>d
  <2>5. \A e, f \in elements[For(w)] : e.component = f.component => e = f
    BY <2>1 DEF Once
  <2>8. \A g \in E : \E e \in elements[For(w)] :
          /\ g.component = e.component
          /\ g = IF e \in row THEN [e EXCEPT !.place = p] ELSE e
    BY <2>4
  <2>6. ASSUME NEW g \in E, NEW h \in E, g.component = h.component PROVE g = h
    BY <2>5, <2>6, <2>8
  <2> HIDE DEF E, row
  <2>7. Once'
    BY <2>3, <2>6 DEF Once
  <2> QED
    BY <2>1, <2>7 DEF YetToMake, Finished
<1>4. ASSUME package_pc'[w] # "create", UNCHANGED elements
      PROVE  Once' /\ YetToMake(w)'
  BY <1>4 DEF Once, YetToMake
<1>5. ASSUME package_pc'[w] # "create", NEW s, elements' = [elements EXCEPT ![s] = {}]
      PROVE  Once' /\ YetToMake(w)'
  <2>1. \A t \in Slug : elements'[t] = {} \/ elements'[t] = elements[t]
    BY <1>5 DEF PackageTyped
  <2> QED
    BY <1>5, <2>1 DEF Once, YetToMake
<1>6. CASE K!Extract(w) \/ K!Install(w)
  <2>1. UNCHANGED elements /\ package_pc'[w] # "create"
    <3>1. K!Extract(w) => UNCHANGED elements /\ package_pc'[w] # "create"
      BY ReceiveSteps, CleanStep, UnpackStep, UnpackedStep DEF K!Extract, K!rowVars, Finished
    <3>2. K!Install(w) => UNCHANGED elements /\ package_pc'[w] # "create"
      BY ReadStep, RegisterStep DEF K!Install, K!rowVars, Finished
    <3> QED
      BY <1>6, <3>1, <3>2
  <2> QED
    BY <2>1, <1>4
<1>7. CASE K!BeginActivate(w) \/ K!SetActive(w)
  BY <1>7, <1>4, BeginActivateStep, StatusStep DEF Begun, K!rowVars, Finished
<1>8. CASE K!Hide(w)
  BY <1>8, <1>4, <1>5, BeginSteps, StatusStep, PlainSteps DEF K!Hide, Begun, K!rowVars, Finished
<1>9. CASE K!BeginMove(w)
  BY <1>9, <1>4, BeginSteps DEF Begun, K!rowVars
<1>10. CASE K!Media(w)
  BY <1>10, <1>4, BeginSteps, PlainSteps DEF K!Media, Begun, K!rowVars, Finished
<1>11. CASE K!Uninstall(w)
  <2>1. K!DeleteRow(w) => Once' /\ YetToMake(w)'
    BY <1>4, <1>5, DeleteRowStep DEF Finished
  <2>2. ASSUME \/ K!BeginUninstall(w) \/ K!SetUninstalling(w) \/ K!ListMedia(w)
               \/ K!Dereference(w) \/ K!RemoveDir(w)
        PROVE  Once' /\ YetToMake(w)'
    BY <1>4, <2>2, BeginSteps, StatusStep, PlainSteps, ListStep, DereferenceStep
       DEF Begun, K!rowVars, Finished
  <2> QED
    BY <1>11, <2>1, <2>2 DEF K!Uninstall
<1> QED
  BY <1>1, <1>2, <1>3, <1>6, <1>7, <1>8, <1>9, <1>10, <1>11 DEF PackageAct, K!Show, K!Move

LEMMA ActSingle ==
    ASSUME PackageTyped, SingleInv, NEW w \in Worker, PackageAct(w)
    PROVE  SingleInv'
<1>1. package_world' = package_world
  BY WorldKept
<1>2. SUFFICES ASSUME K!Without({"overlap"})
               PROVE  (Alone /\ Once /\ \A x \in Worker : YetToMake(x))'
  BY <1>1, SingleParts DEF SingleInv, Alone, Once, YetToMake, K!Without
<1>3. Alone /\ Once /\ YetToMake(w) /\ ~K!Disturbed("overlap")
  BY <1>2, SingleParts DEF K!Without, K!Disturbed
<1>4. Alone' /\ \A x \in Worker \ {w} : package_pc[x] = "idle"
  BY <1>3, PackageActsAlone
<1>5. Once' /\ YetToMake(w)'
  BY <1>3, ElementsOnceStep
<1>6. \A x \in Worker \ {w} : package_pc'[x] = "idle"
  BY <1>4, ActOthers
<1>7. \A x \in Worker \ {w} : YetToMake(x)'
  BY <1>6 DEF YetToMake
<1> QED
  BY <1>4, <1>5, <1>7

-----------------------------------------------------------------------------
(* Whose directory is left. *)

Matching(w) ==
    package_req[w].at \in Temp /\ dir[package_req[w].at] # NoDir =>
        dir[package_req[w].at].package = package_req[w].package
TempLeft(n) == dir[n] # NoDir /\ ~K!InUse(n) => K!Omitted(dir[n].package)
Removing(s) == \E w \in Worker : package_pc[w] = "remove" /\ package_req[w].slug = s
SlugLeft(s) == plugin[s] = NoPlugin /\ dir[s] # NoDir => K!InUse(s) \/ Removing(s)

LeftNow ==
    /\ \A w \in Worker : Matching(w)
    /\ \A n \in Temp : TempLeft(n)
    /\ \A s \in Slug : SlugLeft(s)

LEMMA LeftParts == LeftInv <=> (K!Without({"disk_error", "restart"}) => LeftNow)
  BY DEF LeftInv, LeftNow, Matching, TempLeft, SlugLeft, Removing

(* A request that keeps its place, and a directory, keeps what others leave. *)
LEMMA StillLeft ==
    ASSUME PackageTyped, LeftNow, NEW w \in Worker, PackageAct(w), UNCHANGED dir,
           package_req'[w].at = At(w), package_req'[w].package = Of(w) \/ At(w) = NoDir,
           package_pc[w] # "remove",
           \A s \in Slug : plugin'[s] = NoPlugin =>
               plugin[s] = NoPlugin
                   \/ (s = For(w) /\ package_pc'[w] = "remove" /\ package_req'[w].slug = s)
    PROVE  LeftNow'
<1>0. package_world' = package_world
  BY WorldKept
<1>1. \A x \in Worker \ {w} : package_pc'[x] = package_pc[x] /\ package_req'[x] = package_req[x]
  BY ActOthers
<1>2. \A x \in Worker : package_req'[x].at = package_req[x].at
  BY <1>1 DEF At
<1>3. \A n : K!InUse(n)' <=> K!InUse(n)
  BY <1>2 DEF K!InUse
<1>n. NoDir \notin Temp
  BY PackageKnown DEF K!Name
<1>4. \A x \in Worker : Matching(x)'
  BY <1>1, <1>2, <1>n DEF LeftNow, Matching, At, Of
<1>5. \A n \in Temp : TempLeft(n)'
  BY <1>0, <1>3 DEF LeftNow, TempLeft, K!Omitted
<1>6. \A s \in Slug : SlugLeft(s)'
  <2> SUFFICES ASSUME NEW s \in Slug PROVE SlugLeft(s)'
    OBVIOUS
  <2>1. Removing(s) => Removing(s)'
    BY <1>1 DEF Removing
  <2> QED
    BY <1>3, <2>1 DEF LeftNow, SlugLeft, Removing
<1> QED
  BY <1>4, <1>5, <1>6 DEF LeftNow

LEMMA ReceiveLeft ==
    ASSUME PackageTyped, LeftNow, NEW w \in Worker, K!BeginReview(w) \/ K!BeginInstall(w)
    PROVE  LeftNow'
<1>1. PackageAct(w)
  BY DEF PackageAct, K!Extract
<1> DEFINE n == package_req'[w].at
<1>2. /\ package_pc[w] = "idle" /\ K!Fresh(n) /\ UNCHANGED <<dir, plugin>>
  BY ReceiveSteps DEF K!rowVars
<1>3. package_world' = package_world
  BY <1>1, WorldKept
<1>4. \A x \in Worker \ {w} : package_pc'[x] = package_pc[x] /\ package_req'[x] = package_req[x]
  BY <1>1, ActOthers
<1>5. At(w) = NoDir
  BY <1>2, IdleHolds DEF At
<1>6. \A m \in K!Name : K!InUse(m) => K!InUse(m)'
  BY <1>4, <1>5, PackageKnown DEF K!InUse, At
<1>7. \A x \in Worker : Matching(x)'
  BY <1>2, <1>4 DEF LeftNow, Matching, K!Fresh
<1>8. \A m \in Temp : TempLeft(m)'
  BY <1>2, <1>3, <1>6 DEF LeftNow, TempLeft, K!Omitted, K!Name
<1>9. ASSUME NEW s \in Slug PROVE SlugLeft(s)'
  <2>1. Removing(s) => Removing(s)'
    BY <1>2, <1>4 DEF Removing
  <2> QED
    BY <1>2, <1>6, <2>1 DEF LeftNow, SlugLeft, K!Name
<1> QED
  BY <1>7, <1>8, <1>9 DEF LeftNow

(* A request that writes its directory, or deletes it and goes. *)
LEMMA WritesLeft ==
    ASSUME PackageTyped, TempsInv, LeftNow, NEW w \in Worker, PackageAct(w),
           At(w) \in K!Name, NEW d, dir' = [dir EXCEPT ![At(w)] = d], UNCHANGED plugin,
           package_pc[w] # "remove",
           d = NoDir \/ (d.package = Of(w) /\ package_req'[w].at = At(w)
                            /\ package_req'[w].package = Of(w)),
           package_req'[w].at \in {At(w), NoDir} \cup Slug
    PROVE  LeftNow'
<1>0. package_world' = package_world
  BY WorldKept
<1>1. \A x \in Worker \ {w} : package_pc'[x] = package_pc[x] /\ package_req'[x] = package_req[x]
  BY ActOthers
<1>2. dir'[At(w)] = d /\ \A m \in K!Name \ {At(w)} : dir'[m] = dir[m]
  BY DEF PackageTyped
<1>n. NoDir \notin K!Name /\ Slug \cap Temp = {} /\ Temp \subseteq K!Name /\ Slug \subseteq K!Name
  BY PackageKnown DEF K!Name
<1>3. \A m \in K!Name \ {At(w)} : K!InUse(m) => K!InUse(m)'
  BY <1>1 DEF K!InUse, At
<1>4. ASSUME NEW x \in Worker PROVE Matching(x)'
  <2>1. CASE x = w
    <3>1. CASE package_req'[w].at = At(w)
      BY <1>2, <2>1, <3>1 DEF Matching
    <3>2. CASE package_req'[w].at # At(w)
      BY <1>n, <2>1, <3>2 DEF Matching
    <3> QED
      BY <3>1, <3>2
  <2>2. CASE x # w
    <3>1. Matching(x) /\ (At(x) \in Temp => At(x) # At(w))
      BY <2>2 DEF LeftNow, TempsInv, At
    <3> QED
      BY <1>1, <1>2, <1>n, <2>2, <3>1 DEF Matching, At
  <2> QED
    BY <2>1, <2>2
<1>5. ASSUME NEW m \in Temp PROVE TempLeft(m)'
  <2>1. CASE m = At(w)
    <3>1. CASE d = NoDir
      BY <1>2, <2>1, <3>1 DEF TempLeft
    <3>2. CASE package_req'[w].at = At(w)
      BY <2>1, <3>2 DEF TempLeft, K!InUse
    <3> QED
      BY <3>1, <3>2
  <2>2. CASE m # At(w)
    BY <1>0, <1>2, <1>3, <1>n, <2>2 DEF LeftNow, TempLeft, K!Omitted
  <2> QED
    BY <2>1, <2>2
<1>6. ASSUME NEW s \in Slug PROVE SlugLeft(s)'
  <2>r. Removing(s) => Removing(s)'
    BY <1>1 DEF Removing
  <2>1. CASE s = At(w)
    <3>1. CASE d = NoDir
      BY <1>2, <2>1, <3>1 DEF SlugLeft
    <3>2. CASE package_req'[w].at = At(w)
      BY <2>1, <3>2 DEF SlugLeft, K!InUse
    <3> QED
      BY <3>1, <3>2
  <2>2. CASE s # At(w)
    BY <1>2, <1>3, <1>n, <2>2, <2>r DEF LeftNow, SlugLeft
  <2> QED
    BY <2>1, <2>2
<1> QED
  BY <1>4, <1>5, <1>6 DEF LeftNow

(* What a handler leaves behind was omitted. *)
LEMMA OmitsLeft ==
    ASSUME PackageTyped, TempsInv, LeftNow, NEW w \in Worker, PackageAct(w),
           At(w) \in Temp, UNCHANGED <<dir, plugin>>, Finished(w), package_pc[w] # "remove",
           K!Omitted(Of(w))
    PROVE  LeftNow'
<1>0. package_world' = package_world
  BY WorldKept
<1>1. \A x \in Worker \ {w} : package_pc'[x] = package_pc[x] /\ package_req'[x] = package_req[x]
  BY ActOthers
<1>n. NoDir \notin K!Name /\ Slug \cap Temp = {} /\ Temp \subseteq K!Name /\ Slug \subseteq K!Name
  BY PackageKnown DEF K!Name
<1>3. \A m \in K!Name \ {At(w)} : K!InUse(m) => K!InUse(m)'
  BY <1>1 DEF K!InUse, At
<1>4. \A x \in Worker : Matching(x)'
  BY <1>1, <1>n, FinishedInstall DEF LeftNow, Matching
<1>5. ASSUME NEW m \in Temp PROVE TempLeft(m)'
  <2>1. CASE m = At(w)
    <3>1. dir[m] # NoDir => dir[m].package = Of(w)
      BY <2>1 DEF LeftNow, Matching, At, Of
    <3> QED
      BY <1>0, <3>1 DEF TempLeft, K!Omitted
  <2>2. CASE m # At(w)
    BY <1>0, <1>3, <1>n, <2>2 DEF LeftNow, TempLeft, K!Omitted
  <2> QED
    BY <2>1, <2>2
<1>6. ASSUME NEW s \in Slug PROVE SlugLeft(s)'
  <2>1. Removing(s) => Removing(s)'
    BY <1>1 DEF Removing
  <2>2. s # At(w)
    BY <1>n
  <2> QED
    BY <1>3, <1>n, <2>1, <2>2 DEF LeftNow, SlugLeft
<1> QED
  BY <1>4, <1>5, <1>6 DEF LeftNow

LEMMA ExtractLeft ==
    ASSUME PackageTyped, TempsInv, LeftNow, ~K!Disturbed("disk_error"), NEW w \in Worker,
           \/ K!Clean(w) \/ K!Unpack(w) \/ K!Unpacked(w)
           \/ K!ReadForReview(w) \/ K!ReadForInstall(w)
    PROVE  LeftNow'
<1>1. PackageAct(w)
  BY DEF PackageAct, K!Extract, K!Install
<1>u. /\ package_pc[w] \in Unpacking /\ package_pc[w] # "remove"
      /\ UnpackOk(package_pc[w], package_req[w])
  BY CleanStep, UnpackStep, UnpackedStep, ReadStep DEF Unpacking
<1>n. At(w) \in K!Name /\ Of(w) \in Package
  BY <1>u DEF UnpackOk, At, Of
<1>e. UNCHANGED plugin
  BY CleanStep, UnpackStep, UnpackedStep, ReadStep DEF K!rowVars
<1>w. ASSUME dir' = [dir EXCEPT ![At(w)] = NoDir],
             package_req'[w].at \in {At(w), NoDir} \cup Slug
      PROVE  LeftNow'
  BY <1>1, <1>e, <1>n, <1>u, <1>w, WritesLeft
<1>f. Finished(w) => package_req'[w].at = NoDir
  BY FinishedInstall
<1>h. \A parts : K!Holding(Of(w), parts).package = Of(w)
  BY DEF K!Holding
<1>s. SameRequest(w) => package_req'[w].at = At(w) /\ package_req'[w].package = Of(w)
  BY DEF SameRequest, At, Of
<1>2. CASE K!Clean(w)
  <2>1. SameRequest(w) /\ dir' = [dir EXCEPT ![At(w)] = K!Holding(Of(w), {})]
    BY <1>2, CleanStep
  <2> QED
    BY <1>1, <1>e, <1>n, <1>u, <1>h, <1>s, <2>1, WritesLeft
<1>3. CASE K!Unpack(w)
  <2> DEFINE e == Of(w).entries[package_req[w].entry]
  <2>1. CASE /\ SameRequest(w)
             /\ dir' = [dir EXCEPT ![At(w)] = K!Holding(Of(w), K!Parts(At(w)) \cup {e})]
    BY <1>1, <1>e, <1>n, <1>u, <1>h, <1>s, <2>1, WritesLeft
  <2>2. CASE Finished(w) /\ dir' = [dir EXCEPT ![At(w)] = NoDir]
    BY <1>w, <1>f, <2>2
  <2>3. CASE /\ Finished(w) /\ UNCHANGED dir /\ e = Refused
             /\ package_req[w].front # "api" \/ package_req[w].install
    <3>1. /\ package_req[w].entry \in 1 .. Len(Of(w).entries)
          /\ UnpackOk("unpack", package_req[w])
      BY <1>3, UnpackStep
    <3>2. package_req[w].entry \in DOMAIN Of(w).entries
      BY <1>n, <3>1, PackageKnown
    <3>3. At(w) \notin Slug
      <4> SUFFICES ASSUME At(w) \in Slug PROVE FALSE
        OBVIOUS
      <4>1. EntryOk(Of(w), package_req[w].entry)
        BY <3>1, <3>2 DEF UnpackOk, At, Of
      <4> QED
        BY <2>3, <4>1, PackageKnown DEF EntryOk
    <3>4. Refused \in K!ToSet(Of(w).entries)
      BY <2>3, <3>2 DEF K!ToSet
    <3>5. "page" \in package_world.fronts \/ "install" \in package_world.requests
      <4>1. package_req[w].front \in {"api", "page"}
        BY StandsOk, RequestFields
      <4> QED
        BY <2>3, <3>1, <4>1 DEF UnpackOk
    <3>6. K!Omitted(Of(w))
      BY <3>4, <3>5 DEF K!Omitted
    <3>7. At(w) \in Temp
      BY <1>n, <3>3 DEF K!Name
    <3> QED
      BY <1>1, <1>e, <1>u, <2>3, <3>6, <3>7, OmitsLeft
  <2> QED
    BY <1>3, <2>1, <2>2, <2>3, UnpackStep
<1>4. CASE K!Unpacked(w)
  <2>1. CASE Finished(w) /\ dir' = [dir EXCEPT ![At(w)] = NoDir]
    BY <1>w, <1>f, <2>1
  <2>2. CASE package_req'[w] = package_req[w] /\ UNCHANGED dir
    BY <1>1, <1>e, <1>u, <2>2, StillLeft DEF At, Of
  <2> QED
    BY <1>4, <2>1, <2>2, UnpackedStep
<1>5. CASE K!ReadForReview(w) \/ K!ReadForInstall(w)
  <2>1. CASE Finished(w) /\ dir' = [dir EXCEPT ![At(w)] = NoDir]
    BY <1>w, <1>f, <2>1
  <2>2. CASE /\ package_req'[w].at = Of(w).slug
             /\ dir' = [dir EXCEPT ![At(w)] = NoDir]
    BY <1>w, <1>n, <2>2, PackageKnown
  <2>3. CASE /\ Finished(w) /\ UNCHANGED dir /\ package_req[w].install
             /\ ~K!load_from_dir(Of(w))
    <3>1. UnpackOk("read", package_req[w])
      BY <1>5, ReadStep
    <3>2. At(w) \in Temp /\ "install" \in package_world.requests
      BY <2>3, <3>1 DEF UnpackOk, At
    <3>3. K!Omitted(Of(w))
      BY <2>3, <3>2 DEF K!Omitted
    <3> QED
      BY <1>1, <1>e, <1>u, <2>3, <3>2, <3>3, OmitsLeft
  <2> QED
    BY <1>5, <2>1, <2>2, <2>3, ReadStep
<1> QED
  BY <1>2, <1>3, <1>4, <1>5

LEMMA RegisterLeft ==
    ASSUME PackageTyped, TempsInv, LeftNow, NEW w \in Worker, K!Register(w)
    PROVE  LeftNow'
<1>1. PackageAct(w)
  BY DEF PackageAct, K!Install
<1>2. /\ package_pc[w] = "register" /\ Finished(w) /\ For(w) \in Slug /\ At(w) = For(w)
  BY RegisterStep
<1>n. /\ NoDir \notin K!Name /\ Slug \cap Temp = {} /\ Temp \subseteq K!Name
      /\ Slug \subseteq K!Name
  BY PackageKnown DEF K!Name
<1>f. package_req'[w].at = NoDir
  BY <1>2, FinishedInstall
<1>3. CASE UNCHANGED plugin /\ dir' = [dir EXCEPT ![At(w)] = NoDir]
  BY <1>1, <1>2, <1>3, <1>f, <1>n, WritesLeft
<1>4. CASE /\ UNCHANGED dir
           /\ plugin' = [plugin EXCEPT ![For(w)] = [package |-> Of(w), status |-> "inactive"]]
  <2>0. package_world' = package_world
    BY <1>1, WorldKept
  <2>1. \A x \in Worker \ {w} : package_pc'[x] = package_pc[x] /\ package_req'[x] = package_req[x]
    BY <1>1, ActOthers
  <2>2. \A m \in K!Name \ {At(w)} : K!InUse(m) => K!InUse(m)'
    BY <2>1 DEF K!InUse, At
  <2>3. \A x \in Worker : Matching(x)'
    BY <1>4, <1>f, <1>n, <2>1 DEF LeftNow, Matching
  <2>4. \A m \in Temp : TempLeft(m)'
    BY <1>2, <1>4, <1>n, <2>0, <2>2 DEF LeftNow, TempLeft, K!Omitted
  <2>5. ASSUME NEW s \in Slug PROVE SlugLeft(s)'
    <3>1. CASE s = For(w)
      <4>1. plugin'[s] = [package |-> Of(w), status |-> "inactive"]
        BY <1>4, <3>1 DEF PackageTyped
      <4>2. plugin'[s] \in K!PluginRow
        BY <1>2, <4>1, UnpackingOk DEF K!PluginRow, UnpackOk, Of, Unpacking
      <4> QED
        BY <4>2, PackageKnown DEF SlugLeft
    <3>2. CASE s # For(w)
      <4>1. plugin'[s] = plugin[s]
        BY <1>4, <3>2 DEF PackageTyped
      <4>2. Removing(s) => Removing(s)'
        BY <1>2, <2>1 DEF Removing
      <4> QED
        BY <1>2, <1>4, <1>n, <2>2, <3>2, <4>1, <4>2 DEF LeftNow, SlugLeft
    <3> QED
      BY <3>1, <3>2
  <2> QED
    BY <2>3, <2>4, <2>5 DEF LeftNow
<1> QED
  BY <1>3, <1>4, RegisterStep

LEMMA RemoveLeft ==
    ASSUME PackageTyped, LeftNow, ~K!Disturbed("disk_error"), NEW w \in Worker, K!RemoveDir(w)
    PROVE  LeftNow'
<1>1. PackageAct(w)
  BY DEF PackageAct, K!Uninstall
<1>2. /\ package_pc[w] = "remove" /\ Finished(w) /\ For(w) \in Slug /\ UNCHANGED plugin
      /\ dir' = [dir EXCEPT ![For(w)] = NoDir]
  BY PlainSteps DEF K!rowVars
<1>n. /\ NoDir \notin K!Name /\ Slug \cap Temp = {} /\ Temp \subseteq K!Name
      /\ Slug \subseteq K!Name
  BY PackageKnown DEF K!Name
<1>3. At(w) = NoDir /\ package_req'[w].at = NoDir
  BY <1>2, SlugOk, FinishedInstall DEF Unpacking
<1>4. package_world' = package_world
  BY <1>1, WorldKept
<1>5. \A x \in Worker \ {w} : package_pc'[x] = package_pc[x] /\ package_req'[x] = package_req[x]
  BY <1>1, ActOthers
<1>6. \A m \in K!Name : K!InUse(m) => K!InUse(m)'
  BY <1>3, <1>5, <1>n DEF K!InUse, At
<1>7. dir'[For(w)] = NoDir /\ \A m \in K!Name \ {For(w)} : dir'[m] = dir[m]
  BY <1>2, <1>n DEF PackageTyped
<1>8. \A x \in Worker : Matching(x)'
  BY <1>2, <1>3, <1>5, <1>7, <1>n DEF LeftNow, Matching
<1>9. \A m \in Temp : TempLeft(m)'
  BY <1>2, <1>4, <1>6, <1>7, <1>n DEF LeftNow, TempLeft, K!Omitted
<1>10. ASSUME NEW s \in Slug PROVE SlugLeft(s)'
  <2>1. CASE s = For(w)
    BY <1>7, <2>1 DEF SlugLeft
  <2>2. CASE s # For(w)
    <3>1. Removing(s) => Removing(s)'
      BY <1>5, <2>2 DEF Removing, For
    <3> QED
      BY <1>2, <1>6, <1>7, <1>n, <2>2, <3>1 DEF LeftNow, SlugLeft
  <2> QED
    BY <2>1, <2>2
<1> QED
  BY <1>8, <1>9, <1>10 DEF LeftNow

(* The rows of other requests, and their directories, are left alone. *)
LEMMA QuietLeft ==
    ASSUME PackageTyped, LeftNow, NEW w \in Worker, PackageAct(w), UNCHANGED dir,
           package_pc[w] \notin Unpacking \cup {"remove"}, package_pc'[w] \notin Unpacking,
           \A s \in Slug : plugin'[s] = NoPlugin =>
               plugin[s] = NoPlugin
                   \/ (s = For(w) /\ package_pc'[w] = "remove" /\ package_req'[w].slug = s)
    PROVE  LeftNow'
<1>1. At(w) = NoDir
  BY StandsOk DEF RequestOk, At
<1>2. PackageTyped'
  BY ActTyped
<1>3. RequestOk(package_pc[w], package_req[w])'
  BY <1>2 DEF PackageTyped
<1>4. package_req'[w].at = NoDir
  BY <1>3 DEF RequestOk
<1> QED
  BY <1>1, <1>4, StillLeft

LEMMA OtherStepsLeft ==
    ASSUME PackageTyped, LeftNow, NEW w \in Worker,
           \/ K!Show(w) \/ K!Hide(w) \/ K!Move(w) \/ K!Media(w)
           \/ K!BeginUninstall(w) \/ K!SetUninstalling(w) \/ K!ListMedia(w) \/ K!Dereference(w)
           \/ K!DeleteRow(w)
    PROVE  LeftNow'
<1>1. PackageAct(w)
  BY DEF PackageAct, K!Uninstall
<1>2. CASE K!SetActive(w) \/ K!SetInactive(w) \/ K!SetUninstalling(w)
  <2>1. /\ package_pc[w] \notin Unpacking \cup {"remove"} /\ package_pc'[w] \notin Unpacking
        /\ UNCHANGED dir
    BY <1>2, StatusStep DEF Unpacking, Finished
  <2>2. \A s \in Slug : plugin'[s] = NoPlugin => plugin[s] = NoPlugin
    <3>1. CASE UNCHANGED plugin
      BY <3>1
    <3>2. ASSUME NEW to \in {"inactive", "active", "uninstalling"},
                 plugin' = [plugin EXCEPT ![For(w)].status = to],
                 plugin[For(w)] # NoPlugin, For(w) \in Slug
          PROVE  \A s \in Slug : plugin'[s] = NoPlugin => plugin[s] = NoPlugin
      <4>1. plugin[For(w)] \in K!PluginRow
        BY <3>2 DEF PackageTyped
      <4>2. plugin'[For(w)] = [plugin[For(w)] EXCEPT !.status = to]
        BY <3>2 DEF PackageTyped
      <4>3. plugin'[For(w)] \in K!PluginRow
        BY <4>1, <4>2 DEF K!PluginRow
      <4>4. \A s \in Slug \ {For(w)} : plugin'[s] = plugin[s]
        BY <3>2 DEF PackageTyped
      <4> QED
        BY <4>3, <4>4, PackageKnown
    <3> QED
      BY <1>2, <3>1, <3>2, StatusStep
  <2> QED
    BY <1>1, <2>1, <2>2, QuietLeft
<1>3. CASE K!DeleteRow(w)
  <2>1. /\ package_pc[w] \notin Unpacking \cup {"remove"} /\ package_pc'[w] \notin Unpacking
        /\ UNCHANGED dir /\ For(w) \in Slug
    BY <1>3, DeleteRowStep DEF Unpacking, Finished
  <2>2. CASE UNCHANGED plugin
    BY <1>1, <2>1, <2>2, QuietLeft
  <2>3. CASE /\ plugin' = [plugin EXCEPT ![For(w)] = NoPlugin]
             /\ package_pc'[w] = "remove" /\ package_req'[w] = package_req[w]
    <3>1. \A s \in Slug \ {For(w)} : plugin'[s] = plugin[s]
      BY <2>3 DEF PackageTyped
    <3>2. package_req'[w].slug = For(w)
      BY <2>3 DEF For
    <3> QED
      BY <1>1, <2>1, <2>3, <3>1, <3>2, QuietLeft
  <2> QED
    BY <1>3, <2>2, <2>3, DeleteRowStep
<1>4. ASSUME UNCHANGED <<dir, plugin>>, package_pc'[w] \notin Unpacking,
             package_pc[w] \notin Unpacking \cup {"remove"}
      PROVE  LeftNow'
  BY <1>1, <1>4, QuietLeft
<1>5. CASE K!BeginActivate(w) \/ K!BeginDeactivate(w) \/ K!BeginMove(w) \/ K!BeginMedia(w)
             \/ K!BeginUninstall(w)
  BY <1>4, <1>5, BeginActivateStep, BeginSteps DEF Begun, Unpacking, K!rowVars
<1>6. CASE K!DropElements(w) \/ K!CreateElement(w)
  BY <1>4, <1>6, DropStep, CreateStep DEF Unpacking, Finished
<1>7. CASE K!HideElements(w) \/ K!UpdateElement(w) \/ K!StoreMedia(w)
  BY <1>4, <1>7, PlainSteps DEF Unpacking, Finished, K!rowVars
<1>8. CASE K!ListMedia(w) \/ K!Dereference(w)
  BY <1>4, <1>8, ListStep, DereferenceStep DEF Unpacking, K!rowVars
<1> QED
  BY <1>2, <1>3, <1>5, <1>6, <1>7, <1>8 DEF K!Show, K!Hide, K!Move, K!Media

LEMMA ActLeft ==
    ASSUME PackageTyped, TempsInv, LeftInv, NEW w \in Worker, PackageAct(w)
    PROVE  LeftInv'
<1>1. package_world' = package_world
  BY WorldKept
<1>2. SUFFICES ASSUME K!Without({"disk_error", "restart"}) PROVE LeftNow'
  BY <1>1 DEF LeftInv, LeftNow, K!Without, Matching, TempLeft, SlugLeft, Removing
<1>3. LeftNow /\ ~K!Disturbed("disk_error")
  BY <1>2, LeftParts DEF K!Without, K!Disturbed
<1>4. CASE K!Extract(w) \/ K!Install(w)
  BY <1>3, <1>4, ReceiveLeft, ExtractLeft, RegisterLeft DEF K!Extract, K!Install
<1>5. CASE K!Uninstall(w)
  BY <1>3, <1>5, OtherStepsLeft, RemoveLeft DEF K!Uninstall
<1>6. CASE K!Show(w) \/ K!Hide(w) \/ K!Move(w) \/ K!Media(w)
  BY <1>3, <1>6, OtherStepsLeft
<1> QED
  BY <1>4, <1>5, <1>6 DEF PackageAct

-----------------------------------------------------------------------------
(* What members were given is served. *)

GivenNow == \A k \in given : k \in stored /\ k \notin jobs /\ ~K!Leaving(k[1])
Parting == {"list", "release", "remove"}

LEMMA GivenKeys == PackageTyped => \A k \in given : k \in K!Key /\ k[1] \in Slug
  BY DEF PackageTyped, K!Key

LEMMA NotLeaving ==
    ASSUME PackageTyped, NEW w \in Worker, PackageAct(w),
           package_pc'[w] \in Parting =>
               package_pc[w] \in Parting /\ package_req'[w].slug = For(w),
           \A s \in Slug : plugin'[s] = NoPlugin =>
               plugin[s] = NoPlugin \/ (s = For(w) /\ package_pc[w] \in Parting)
    PROVE  \A s \in Slug : K!Leaving(s)' => K!Leaving(s)
<1>1. \A x \in Worker \ {w} : package_pc'[x] = package_pc[x] /\ package_req'[x] = package_req[x]
  BY ActOthers
<1> SUFFICES ASSUME NEW s \in Slug, K!Leaving(s)' PROVE K!Leaving(s)
  OBVIOUS
<1>2. CASE plugin'[s] = NoPlugin
  BY <1>2 DEF K!Leaving, Parting, For
<1>3. ASSUME NEW x \in Worker, package_pc'[x] \in Parting, package_req'[x].slug = s
      PROVE  K!Leaving(s)
  BY <1>1, <1>3 DEF K!Leaving, Parting, For
<1> QED
  BY <1>2, <1>3 DEF K!Leaving, Parting

LEMMA StillGiven ==
    ASSUME PackageTyped, GivenNow, NEW w \in Worker, PackageAct(w),
           package_pc'[w] \in Parting =>
               package_pc[w] \in Parting /\ package_req'[w].slug = For(w),
           \A s \in Slug : plugin'[s] = NoPlugin =>
               plugin[s] = NoPlugin \/ (s = For(w) /\ package_pc[w] \in Parting),
           UNCHANGED <<stored, jobs>>, given' \subseteq given
    PROVE  GivenNow'
<1>1. \A s \in Slug : K!Leaving(s)' => K!Leaving(s)
  BY NotLeaving
<1> QED
  BY <1>1, GivenKeys DEF GivenNow

LEMMA StatusKeepsRows ==
    ASSUME PackageTyped, NEW w \in Worker,
           K!SetActive(w) \/ K!SetInactive(w) \/ K!SetUninstalling(w)
    PROVE  \A s \in Slug : plugin'[s] = NoPlugin <=> plugin[s] = NoPlugin
<1>1. CASE UNCHANGED plugin
  BY <1>1
<1>2. ASSUME NEW to \in {"inactive", "active", "uninstalling"},
             plugin' = [plugin EXCEPT ![For(w)].status = to],
             plugin[For(w)] # NoPlugin, For(w) \in Slug
      PROVE  \A s \in Slug : plugin'[s] = NoPlugin <=> plugin[s] = NoPlugin
  <2>1. plugin[For(w)] \in K!PluginRow
    BY <1>2 DEF PackageTyped
  <2>2. plugin'[For(w)] = [plugin[For(w)] EXCEPT !.status = to]
    BY <1>2 DEF PackageTyped
  <2>3. plugin'[For(w)] \in K!PluginRow
    BY <2>1, <2>2 DEF K!PluginRow
  <2>4. \A s \in Slug \ {For(w)} : plugin'[s] = plugin[s]
    BY <1>2 DEF PackageTyped
  <2> QED
    BY <1>2, <2>3, <2>4, PackageKnown
<1> QED
  BY <1>1, <1>2, StatusStep

LEMMA RegisterKeepsRows ==
    ASSUME PackageTyped, NEW w \in Worker, K!Register(w)
    PROVE  \A s \in Slug : plugin'[s] = NoPlugin => plugin[s] = NoPlugin
<1>1. CASE UNCHANGED plugin
  BY <1>1
<1>2. CASE plugin[For(w)] = NoPlugin
             /\ plugin' = [plugin EXCEPT ![For(w)] = [package |-> Of(w), status |-> "inactive"]]
  BY <1>2 DEF PackageTyped
<1> QED
  BY <1>1, <1>2, RegisterStep

(* What neither stores nor deletes media, and deletes no row. *)
Mediate(w) ==
    \/ K!StoreMedia(w) \/ K!SetUninstalling(w) \/ K!ListMedia(w) \/ K!Dereference(w)
    \/ K!DeleteRow(w) \/ K!BeginMedia(w)

LEMMA OtherActs ==
    ASSUME PackageTyped, NEW w \in Worker, PackageAct(w), ~Mediate(w)
    PROVE  /\ UNCHANGED K!mediaVars
           /\ package_pc'[w] \notin Parting \cup {"upload"}
           /\ \A s \in Slug : plugin'[s] = NoPlugin => plugin[s] = NoPlugin
<1>1. CASE K!Extract(w)
  BY <1>1, ReceiveSteps, CleanStep, UnpackStep, UnpackedStep
     DEF K!Extract, K!rowVars, Parting, Finished
<1>2. CASE K!Install(w)
  BY <1>2, ReadStep, RegisterStep, RegisterKeepsRows DEF K!Install, K!rowVars, Parting, Finished
<1>3. CASE K!Show(w)
  <2>1. CASE K!SetActive(w)
    <3>1. UNCHANGED K!mediaVars
      BY <2>1, StatusStep DEF K!SetActive
    <3>2. package_pc'[w] \notin Parting \cup {"upload"}
      BY <2>1, StatusStep DEF K!SetActive, K!SetStatus, Parting, Finished
    <3> QED
      BY <2>1, <3>1, <3>2, StatusKeepsRows
  <2> QED
    BY <1>3, <2>1, BeginActivateStep, DropStep, CreateStep
       DEF K!Show, Begun, K!rowVars, Parting, Finished
<1>4. CASE K!Hide(w)
  <2>1. CASE K!SetInactive(w)
    <3>1. UNCHANGED K!mediaVars
      BY <2>1 DEF K!SetInactive
    <3>2. package_pc'[w] \notin Parting \cup {"upload"}
      BY <2>1, StatusStep DEF K!SetInactive, K!SetStatus, Parting, Finished
    <3> QED
      BY <2>1, <3>1, <3>2, StatusKeepsRows
  <2> QED
    BY <1>4, <2>1, BeginSteps, PlainSteps DEF K!Hide, Begun, K!rowVars, Parting, Finished
<1>5. CASE K!Move(w)
  BY <1>5, BeginSteps, PlainSteps DEF K!Move, Begun, K!rowVars, Parting, Finished
<1>6. CASE K!BeginUninstall(w) \/ K!RemoveDir(w)
  BY <1>6, BeginSteps, PlainSteps DEF Begun, K!rowVars, Parting, Finished
<1> QED
  BY <1>1, <1>2, <1>3, <1>4, <1>5, <1>6 DEF PackageAct, Mediate, K!Media, K!Uninstall

LEMMA ActGiven ==
    ASSUME PackageTyped, GivenInv, NEW w \in Worker, PackageAct(w)
    PROVE  GivenInv'
<1>1. package_world' = package_world
  BY WorldKept
<1>2. SUFFICES ASSUME K!Without({"early"}) PROVE GivenNow'
  BY <1>1 DEF GivenInv, GivenNow, K!Without
<1>3. GivenNow /\ ~K!Disturbed("early")
  BY <1>2 DEF GivenInv, GivenNow, K!Without, K!Disturbed
<1>k. \A k \in given : k \in K!Key /\ k[1] \in Slug
  BY GivenKeys
<1>4. CASE ~Mediate(w)
  BY <1>3, <1>4, OtherActs, StillGiven DEF K!mediaVars
<1>5. CASE K!StoreMedia(w)
  <2>1. /\ package_pc[w] = "upload" /\ Finished(w) /\ UNCHANGED <<plugin, jobs>>
    BY <1>5, PlainSteps DEF K!rowVars
  <2>2. PICK k \in K!Key :
          /\ k \notin jobs /\ stored' = stored \cup {k}
          /\ given' = IF K!Leaving(k[1]) THEN given ELSE given \cup {k}
    BY <1>3, <1>5, PlainSteps
  <2>3. \A s \in Slug : K!Leaving(s)' => K!Leaving(s)
    BY <2>1, NotLeaving DEF Finished, Parting
  <2>4. k[1] \in Slug
    BY DEF K!Key
  <2> QED
    BY <1>3, <1>k, <2>1, <2>2, <2>3, <2>4 DEF GivenNow
<1>6. CASE K!SetUninstalling(w)
  <2>1. /\ UNCHANGED <<stored, jobs>> /\ For(w) \in Slug
        /\ given' = {k \in given : k[1] # For(w)}
        /\ \A s \in Slug : plugin'[s] = NoPlugin => plugin[s] = NoPlugin
        /\ package_pc'[w] = "list" => package_req'[w] = package_req[w]
    <3>1. package_pc[w] = "uninstall"
      BY <1>6 DEF K!SetUninstalling, K!SetStatus
    <3>2. package_pc'[w] = "list" => package_req'[w] = package_req[w]
      BY <1>6, StatusStep DEF Finished
    <3> QED
      BY <1>6, <3>1, <3>2, StatusStep, StatusKeepsRows
  <2>2. \A x \in Worker \ {w} : package_pc'[x] = package_pc[x] /\ package_req'[x] = package_req[x]
    BY ActOthers
  <2>3. package_pc'[w] \in Parting => package_pc'[w] = "list"
    BY <1>6, StatusStep DEF Parting, Finished
  <2>4. ASSUME NEW s \in Slug, K!Leaving(s)' PROVE K!Leaving(s) \/ s = For(w)
    <3>1. CASE plugin'[s] = NoPlugin
      BY <2>1, <3>1 DEF K!Leaving
    <3>2. ASSUME NEW x \in Worker, package_pc'[x] \in Parting, package_req'[x].slug = s
          PROVE  K!Leaving(s) \/ s = For(w)
      BY <2>1, <2>2, <2>3, <3>2 DEF K!Leaving, Parting, For
    <3> QED
      BY <2>4, <3>1, <3>2 DEF K!Leaving, Parting
  <2> QED
    BY <1>3, <1>k, <2>1, <2>4 DEF GivenNow
<1>7. CASE K!Dereference(w)
  <2>1. /\ package_pc[w] = "release" /\ For(w) \in Slug /\ SameRequest(w)
        /\ UNCHANGED <<plugin, stored, given>>
    BY <1>7, DereferenceStep DEF K!rowVars
  <2>2. PICK k \in K!Key : k[1] = For(w) /\ jobs' \subseteq jobs \cup {k}
    BY <1>7, DereferenceStep
  <2>3. K!Leaving(For(w))
    BY <2>1 DEF K!Leaving, For
  <2>4. k \notin given
    BY <1>3, <2>2, <2>3 DEF GivenNow
  <2>5. \A s \in Slug : K!Leaving(s)' => K!Leaving(s)
    BY <2>1, NotLeaving DEF SameRequest, For, Parting
  <2> QED
    BY <1>3, <1>k, <2>1, <2>2, <2>4, <2>5 DEF GivenNow
<1>8. CASE K!ListMedia(w)
  BY <1>3, <1>8, ListStep, StillGiven DEF Parting, SameRequest, For, K!rowVars, K!mediaVars
<1>9. CASE K!DeleteRow(w)
  <2>1. package_pc[w] = "release" /\ For(w) \in Slug /\ UNCHANGED K!mediaVars
    BY <1>9, DeleteRowStep
  <2>2. \A s \in Slug : plugin'[s] = NoPlugin => plugin[s] = NoPlugin \/ s = For(w)
    BY <1>9, DeleteRowStep DEF PackageTyped
  <2>3. package_pc'[w] \in Parting => package_req'[w].slug = For(w)
    BY <1>9, DeleteRowStep DEF Parting, Finished, For
  <2> QED
    BY <1>3, <2>1, <2>2, <2>3, StillGiven DEF Parting, K!mediaVars
<1>10. CASE K!BeginMedia(w)
  BY <1>3, <1>10, BeginSteps, StillGiven DEF Begun, Parting, K!rowVars, K!mediaVars
<1> QED
  BY <1>4, <1>5, <1>6, <1>7, <1>8, <1>9, <1>10 DEF Mediate

-----------------------------------------------------------------------------
(* What is left of a plugin is to be deleted. *)

CountedMedia == \A k \in K!Key : ref_count[k] = IF k \in stored \ jobs THEN 1 ELSE 0
LeftToJobs == \A k \in stored : plugin[k[1]] = NoPlugin => k \in jobs
ReleasedSoFar(w) ==
    package_pc[w] = "release" =>
        {k \in stored : k[1] = package_req[w].slug} \subseteq package_req[w].left \cup jobs
UploadsToRow(w) == package_pc[w] = "upload" => plugin[package_req[w].slug] # NoPlugin
ReclaimNow ==
    CountedMedia /\ LeftToJobs /\ \A w \in Worker : ReleasedSoFar(w) /\ UploadsToRow(w)

Undisturbed == K!Without({"overlap", "repeat", "db_error", "restart", "early"})

LEMMA ReclaimParts == ReclaimInv <=> (Undisturbed => ReclaimNow)
  BY DEF ReclaimInv, Undisturbed, ReclaimNow, CountedMedia, LeftToJobs, ReleasedSoFar,
         UploadsToRow

LEMMA ActReclaim ==
    ASSUME PackageTyped, SingleInv, ReclaimInv, NEW w \in Worker, PackageAct(w)
    PROVE  ReclaimInv'
<1>1. package_world' = package_world
  BY WorldKept
<1>2. SUFFICES ASSUME Undisturbed
               PROVE  (CountedMedia /\ LeftToJobs
                          /\ \A x \in Worker : ReleasedSoFar(x) /\ UploadsToRow(x))'
  BY <1>1 DEF ReclaimInv, Undisturbed, CountedMedia, LeftToJobs, ReleasedSoFar,
              UploadsToRow, K!Without
<1>3. /\ CountedMedia /\ LeftToJobs /\ ReleasedSoFar(w) /\ UploadsToRow(w)
      /\ ~K!Disturbed("overlap") /\ ~K!Disturbed("repeat") /\ ~K!Disturbed("db_error")
      /\ ~K!Disturbed("early") /\ Alone
  BY <1>2, ReclaimParts, SingleParts DEF Undisturbed, ReclaimNow, K!Without, K!Disturbed
<1>a. \A x \in Worker \ {w} : package_pc'[x] = "idle"
  BY <1>3, PackageActsAlone, ActOthers
<1>o. ASSUME CountedMedia', LeftToJobs', ReleasedSoFar(w)', UploadsToRow(w)'
      PROVE  (CountedMedia /\ LeftToJobs
                 /\ \A x \in Worker : ReleasedSoFar(x) /\ UploadsToRow(x))'
  BY <1>a, <1>o DEF ReleasedSoFar, UploadsToRow
<1>k. \A k \in K!Key : k[1] \in Slug
  BY DEF K!Key
<1>t. stored \subseteq K!Key /\ ref_count \in [K!Key -> 0 .. MaxRef]
  BY DEF PackageTyped
(* The media stay as they are, and no row goes. *)
<1>s. ASSUME UNCHANGED <<stored, jobs, ref_count>>,
             \A s \in Slug : plugin'[s] = NoPlugin => plugin[s] = NoPlugin
      PROVE  CountedMedia' /\ LeftToJobs'
  BY <1>3, <1>k, <1>s, <1>t DEF CountedMedia, LeftToJobs
<1>4. CASE ~Mediate(w)
  <2>1. /\ UNCHANGED <<stored, jobs, ref_count>>
        /\ package_pc'[w] \notin Parting \cup {"upload"}
        /\ \A s \in Slug : plugin'[s] = NoPlugin => plugin[s] = NoPlugin
    BY <1>4, OtherActs DEF K!mediaVars
  <2> QED
    BY <1>o, <1>s, <2>1 DEF ReleasedSoFar, UploadsToRow, Parting
<1>5. CASE K!StoreMedia(w)
  <2>1. package_pc[w] = "upload" /\ Finished(w) /\ UNCHANGED <<plugin, jobs>>
    BY <1>5, PlainSteps DEF K!rowVars
  <2>2. PICK k \in K!Key :
          /\ k[1] = For(w) /\ k \notin stored /\ k \notin jobs
          /\ ref_count' = [ref_count EXCEPT ![k] = @ + 1] /\ stored' = stored \cup {k}
    BY <1>3, <1>5, PlainSteps
  <2>3. plugin[For(w)] # NoPlugin
    BY <1>3, <2>1 DEF UploadsToRow, For
  <2>4. ref_count[k] = 0
    BY <1>3, <2>2 DEF CountedMedia
  <2>5. CountedMedia'
    BY <1>3, <1>t, <2>1, <2>2, <2>4 DEF CountedMedia
  <2>6. LeftToJobs'
    BY <1>3, <2>1, <2>2, <2>3 DEF LeftToJobs
  <2> QED
    BY <1>o, <2>1, <2>5, <2>6 DEF ReleasedSoFar, UploadsToRow, Finished
<1>6. CASE K!SetUninstalling(w)
  <2>1. UNCHANGED <<stored, jobs, ref_count>>
          /\ \A s \in Slug : plugin'[s] = NoPlugin => plugin[s] = NoPlugin
    BY <1>6, StatusStep, StatusKeepsRows
  <2>2. package_pc'[w] \notin {"release", "upload"}
    BY <1>6, StatusStep DEF Finished
  <2> QED
    BY <1>o, <1>s, <2>1, <2>2 DEF ReleasedSoFar, UploadsToRow
<1>7. CASE K!Dereference(w)
  <2>1. /\ package_pc[w] = "release" /\ package_pc'[w] = "release" /\ For(w) \in Slug
        /\ SameRequest(w) /\ UNCHANGED <<plugin, stored>>
    BY <1>7, DereferenceStep DEF K!rowVars
  <2>2. PICK k \in package_req[w].left :
          /\ k \in K!Key /\ package_req'[w].left = package_req[w].left \ {k}
          /\ ref_count' = [ref_count EXCEPT ![k] = K!Decremented(k)]
          /\ jobs' = IF K!Decremented(k) = 0 THEN jobs \cup {k} ELSE jobs
    BY <1>3, <1>7, DereferenceStep
  <2>3. K!Decremented(k) = 0
    BY <1>3, <2>2 DEF CountedMedia, K!Decremented
  <2>4. CountedMedia'
    BY <1>3, <1>t, <2>1, <2>2, <2>3 DEF CountedMedia
  <2>5. LeftToJobs'
    BY <1>3, <2>1, <2>2, <2>3 DEF LeftToJobs
  <2>6. ReleasedSoFar(w)'
    BY <1>3, <2>1, <2>2, <2>3 DEF ReleasedSoFar, SameRequest
  <2> QED
    BY <1>o, <2>1, <2>4, <2>5, <2>6 DEF UploadsToRow
<1>8. CASE K!ListMedia(w)
  <2>1. /\ package_pc'[w] = "release" /\ SameRequest(w)
        /\ package_req'[w].left = {k \in stored : k[1] = For(w)}
        /\ UNCHANGED <<plugin, stored, jobs, ref_count>>
    BY <1>3, <1>8, ListStep DEF K!rowVars, K!mediaVars
  <2> QED
    BY <1>o, <1>s, <2>1 DEF ReleasedSoFar, UploadsToRow, SameRequest, For
<1>9. CASE K!DeleteRow(w)
  <2>1. /\ package_pc[w] = "release" /\ package_req[w].left = {} /\ For(w) \in Slug
        /\ UNCHANGED <<stored, jobs, ref_count>> /\ package_pc'[w] = "remove"
        /\ plugin' = [plugin EXCEPT ![For(w)] = NoPlugin]
    BY <1>3, <1>9, DeleteRowStep DEF K!mediaVars
  <2>2. \A s \in Slug \ {For(w)} : plugin'[s] = plugin[s]
    BY <2>1 DEF PackageTyped
  <2>3. \A k \in stored : k[1] = For(w) => k \in jobs
    BY <1>3, <2>1 DEF ReleasedSoFar, For
  <2>4. LeftToJobs'
    BY <1>3, <1>k, <1>t, <2>1, <2>2, <2>3 DEF LeftToJobs
  <2>5. CountedMedia'
    BY <1>3, <2>1 DEF CountedMedia
  <2> QED
    BY <1>o, <2>1, <2>4, <2>5 DEF ReleasedSoFar, UploadsToRow
<1>10. CASE K!BeginMedia(w)
  BY <1>10, <1>o, <1>s, BeginSteps
     DEF Begun, K!rowVars, K!mediaVars, ReleasedSoFar, UploadsToRow
<1> QED
  BY <1>4, <1>5, <1>6, <1>7, <1>8, <1>9, <1>10 DEF Mediate

-----------------------------------------------------------------------------
(* Jobs and restarts. *)

LEMMA CollectPackages ==
    ASSUME PackagesInv, NEW k \in K!Key, K!Collect(k)
    PROVE  PackagesInv'
<1>1. PackageTyped' /\ WholeInv'
  <2>1. UNCHANGED package_world /\ WholeNow => WholeNow'
    BY CollectWhole DEF K!Collect
  <2> QED
    BY <2>1, CollectTyped DEF PackagesInv, WholeInv, WholeNow, K!Collect, K!Without
<1>2. UNCHANGED <<package_world, dir, plugin, elements, given, package_pc, package_req>>
  BY DEF K!Collect, K!fileVars, K!rowVars, K!requestVars
<1>3. TempsInv'
  BY <1>2 DEF PackagesInv, TempsInv
<1>4. SingleInv'
  BY <1>2 DEF PackagesInv, SingleInv, K!Without
<1>5. LeftInv'
  BY <1>2 DEF PackagesInv, LeftInv, K!Without, K!InUse, K!Omitted
<1>6. k \in jobs /\ jobs' = jobs \ {k} /\ stored' \in {stored, stored \ {k}}
        /\ ref_count' = [ref_count EXCEPT ![k] = K!Decremented(k)]
        /\ stored' = IF K!Decremented(k) = 0 THEN stored \ {k} ELSE stored
  BY DEF K!Collect
<1>7. GivenInv'
  BY <1>2, <1>6 DEF PackagesInv, GivenInv, K!Without, K!Leaving
<1>8. ReclaimInv'
  <2>1. SUFFICES ASSUME Undisturbed
                 PROVE  (CountedMedia /\ LeftToJobs
                            /\ \A x \in Worker : ReleasedSoFar(x) /\ UploadsToRow(x))'
    BY <1>2 DEF ReclaimInv, Undisturbed, CountedMedia, LeftToJobs, ReleasedSoFar,
                UploadsToRow, K!Without
  <2>2. CountedMedia /\ LeftToJobs /\ \A x \in Worker : ReleasedSoFar(x) /\ UploadsToRow(x)
    BY <2>1, ReclaimParts DEF PackagesInv, ReclaimNow
  <2>3. ref_count[k] = 0 /\ K!Decremented(k) = 0
    BY <1>6, <2>2 DEF CountedMedia, K!Decremented
  <2>4. ref_count \in [K!Key -> 0 .. MaxRef]
    BY DEF PackagesInv, PackageTyped
  <2>5. CountedMedia'
    BY <1>6, <2>2, <2>3, <2>4 DEF CountedMedia
  <2>6. LeftToJobs'
    BY <1>2, <1>6, <2>2, <2>3 DEF LeftToJobs
  <2>7. \A x \in Worker : ReleasedSoFar(x)' /\ UploadsToRow(x)'
    BY <1>2, <1>6, <2>2, <2>3 DEF ReleasedSoFar, UploadsToRow
  <2> QED
    BY <2>5, <2>6, <2>7
<1> QED
  BY <1>1, <1>3, <1>4, <1>5, <1>7, <1>8 DEF PackagesInv

LEMMA RestartPackages ==
    ASSUME PackagesInv, K!Restart
    PROVE  PackagesInv'
<1>1. "restart" \in package_world.events /\ UNCHANGED package_world
  BY DEF K!Restart, K!Disturbed
<1>2. PackageTyped' /\ WholeInv'
  <2>1. WholeNow => WholeNow'
    BY RestartWhole
  <2> QED
    BY <1>1, <2>1, RestartTyped DEF PackagesInv, WholeInv, WholeNow, K!Without
<1>3. \A w \in Worker : package_pc'[w] = "idle" /\ package_req'[w] = K!NoRequest
  BY DEF K!Restart
<1>4. UNCHANGED <<plugin, elements, given, stored>> /\ jobs' = {}
  BY DEF K!Restart, K!rowVars
<1>5. TempsInv'
  BY <1>3, NoRequestOk, PackageKnown DEF TempsInv, K!Name
<1>6. SingleInv'
  BY <1>1, <1>3, <1>4 DEF PackagesInv, SingleInv, K!Without
<1>7. LeftInv' /\ ReclaimInv'
  BY <1>1 DEF LeftInv, ReclaimInv, K!Without
<1>8. GivenInv'
  BY <1>1, <1>3, <1>4 DEF PackagesInv, GivenInv, K!Without, K!Leaving
<1> QED
  BY <1>2, <1>5, <1>6, <1>7, <1>8 DEF PackagesInv

LEMMA NextPackages ==
    ASSUME PackagesInv, K!Next
    PROVE  PackagesInv'
<1>1. ASSUME NEW w \in Worker, PackageAct(w) PROVE PackagesInv'
  BY <1>1, ActTyped, ActTemps, ActWhole, ActSingle, ActLeft, ActGiven, ActReclaim
     DEF PackagesInv
<1> QED
  BY <1>1, CollectPackages, RestartPackages, PackageSteps

LEMMA InitPackages == K!Init => PackagesInv
<1> SUFFICES ASSUME K!Init PROVE PackagesInv
  OBVIOUS
<1>1. PackageTyped
  BY InitPackageTyped
<1>2. \A w \in Worker : package_pc[w] = "idle" /\ package_req[w] = K!NoRequest
  BY DEF K!Init
<1>3. /\ \A n \in K!Name : dir[n] = NoDir
      /\ \A s \in Slug : plugin[s] = NoPlugin /\ elements[s] = {}
      /\ stored = {} /\ jobs = {} /\ given = {} /\ \A k \in K!Key : ref_count[k] = 0
  BY DEF K!Init
<1>4. TempsInv
  BY <1>2, NoRequestOk, PackageKnown DEF TempsInv, K!Name
<1>5. WholeInv
  BY <1>2, <1>3, NoRequestOk DEF WholeInv, InstallInv, PluginInv
<1>6. SingleInv
  BY <1>2, <1>3 DEF SingleInv
<1>7. LeftInv
  BY <1>2, <1>3, NoRequestOk, PackageKnown DEF LeftInv, K!Name
<1>8. GivenInv /\ ReclaimInv
  BY <1>2, <1>3 DEF GivenInv, ReclaimInv
<1> QED
  BY <1>1, <1>4, <1>5, <1>6, <1>7, <1>8 DEF PackagesInv

LEMMA IdlePackages ==
    ASSUME PackagesInv, UNCHANGED packageVars
    PROVE  PackagesInv'
<1>1. /\ UNCHANGED <<package_world, dir, plugin, elements, made>>
      /\ UNCHANGED <<stored, ref_count, jobs, given, package_pc, package_req>>
  BY DEF packageVars
<1>2. PackageTyped'
  BY <1>1 DEF PackagesInv, PackageTyped, RequestOk, UnpackOk
<1>3. TempsInv'
  BY <1>1 DEF PackagesInv, TempsInv
<1>4. WholeInv'
  BY <1>1, PluginSame
     DEF PackagesInv, WholeInv, InstallInv, Unpacked, Whole, K!Holding, K!Without
<1>5. SingleInv'
  BY <1>1 DEF PackagesInv, SingleInv, K!Without
<1>6. LeftInv'
  BY <1>1 DEF PackagesInv, LeftInv, K!InUse, K!Omitted, K!Without
<1>7. GivenInv'
  BY <1>1 DEF PackagesInv, GivenInv, K!Leaving, K!Without
<1>8. ReclaimInv'
  BY <1>1 DEF PackagesInv, ReclaimInv, K!Without
<1> QED
  BY <1>2, <1>3, <1>4, <1>5, <1>6, <1>7, <1>8 DEF PackagesInv

LEMMA PackagesInvHolds == PackagesInv => PackagesHold
<1> SUFFICES ASSUME PackagesInv PROVE PackagesHold
  OBVIOUS
<1>1. PackageTyped /\ LeftInv /\ GivenInv /\ ReclaimInv
  BY DEF PackagesInv
<1>2. K!TypeOK
  BY <1>1 DEF PackageTyped, K!TypeOK
<1>3. K!InstalledWhole /\ K!ElementsServed
  <2>1. SUFFICES ASSUME K!Without({"reinstall"}), NEW s \in Slug,
                        plugin[s] # NoPlugin \/ elements[s] # {}
                 PROVE  /\ plugin[s] # NoPlugin
                        /\ dir[s] = Whole(plugin[s].package)
                        /\ \A e \in elements[s] : e.component \in K!Parts(s)
    BY DEF K!InstalledWhole, K!ElementsServed, Whole
  <2>2. PluginInv(s)
    BY <2>1 DEF PackagesInv, WholeInv
  <2>3. plugin[s] # NoPlugin
    BY <2>1, <2>2 DEF PluginInv
  <2>4. plugin[s].package \in Package
    BY <1>1, <2>3 DEF PackageTyped, K!PluginRow
  <2>5. dir[s] = Whole(plugin[s].package)
    BY <2>2, <2>3 DEF PluginInv
  <2>6. \A e \in elements[s] : e.component \in K!ToSet(plugin[s].package.entries)
    BY <2>2, <2>3, <2>4, PackageKnown DEF PluginInv
  <2>7. dir[s] # NoDir
    BY <2>2, <2>3 DEF PluginInv
  <2>8. \A e \in elements[s] : e.component \in K!Parts(s)
    BY <2>3, <2>5, <2>6, <2>7 DEF K!Parts, Whole, K!Holding
  <2> QED
    BY <2>3, <2>5, <2>8
<1>4. K!ElementsOnce
  BY DEF PackagesInv, SingleInv, K!ElementsOnce
<1>5. K!NothingLeft
  <2>1. SUFFICES ASSUME K!Without({"disk_error", "restart"})
                 PROVE  /\ \A n \in Temp :
                              dir[n] # NoDir /\ ~K!InUse(n) => K!Omitted(dir[n].package)
                        /\ \A s \in Slug : K!Quiet /\ plugin[s] = NoPlugin => dir[s] = NoDir
    BY DEF K!NothingLeft
  <2>2. LeftNow
    BY <1>1, <2>1, LeftParts
  <2>3. ASSUME NEW s \in Slug, K!Quiet PROVE ~K!InUse(s) /\ ~Removing(s)
    <3>1. \A w \in Worker : package_pc[w] = "idle"
      BY <2>3 DEF K!Quiet
    <3>2. \A w \in Worker : package_req[w].at = NoDir
      BY <1>1, <3>1, IdleHolds
    <3> QED
      BY <3>1, <3>2, PackageKnown DEF K!InUse, Removing, K!Name
  <2> QED
    BY <2>2, <2>3 DEF LeftNow, TempLeft, SlugLeft
<1>6. K!MediaServed
  BY <1>1 DEF GivenInv, K!MediaServed
<1>7. K!MediaReclaimed
  BY <1>1 DEF ReclaimInv, K!MediaReclaimed
<1> QED
  BY <1>2, <1>3, <1>4, <1>5, <1>6, <1>7 DEF PackagesHold, K!PackagesHold

(* Whatever is refused, fails, crashes or overlaps, for any packages and   *)
(* any number of requests: behind a row is a directory with every file of  *)
(* its package and the elements it shows, no refused upload leaves a       *)
(* directory but by the omissions that are named, and the media members    *)
(* were given stay until their plugin is uninstalled, and go then.         *)
THEOREM PackagesAlwaysHold == PluginSpec => []PackagesHold
<1>1. PluginInit => PackagesInv
  BY InitPackages DEF PluginInit
<1>2. PackagesInv /\ [PluginNext]_pluginVars => PackagesInv'
  <2> SUFFICES ASSUME PackagesInv, [PluginNext]_pluginVars PROVE PackagesInv'
    OBVIOUS
  <2>1. CASE K!Next
    BY <2>1, NextPackages
  <2>2. CASE UNCHANGED packageVars
    BY <2>2, IdlePackages
  <2> QED
    BY <2>1, <2>2 DEF PluginNext, pluginVars
<1> QED
  BY <1>1, <1>2, PackagesInvHolds, PTL DEF PluginSpec

=================================================================================
