------------------------------- MODULE Events -------------------------------
(***************************************************************************)
(* What becomes of an event of ferum-board: the notification, the live     *)
(* connections of the user it is for, the audit log, the webhooks and the  *)
(* plugins.                                                                *)
(*                                                                         *)
(* The request that causes an event publishes it and waits: a row for the  *)
(* recipient, then the connections, then one task per subscribed webhook,  *)
(* each call's failure noted and passed over; a moderation event writes    *)
(* the audit log instead, whose failure ends it. The connections of a user *)
(* are an entry of a concurrent map, created by the first and removed with *)
(* the last.                                                               *)
(***************************************************************************)
EXTENDS Integers, FiniteSets

CONSTANTS
  Event,
  Notice,        \* the events that notify the user
  Conn,          \* the user's connections (tabs) over time
  Hook,          \* webhooks subscribed to these events
  MaxFailures,   \* WEBHOOK_MAX_FAILURES
  EventWorlds    \* what may happen in a behaviour

EventConstants ==
  /\ Notice \subseteq Event
  /\ MaxFailures \in Nat \ {0}
  /\ \A s \in EventWorlds : s \subseteq {"clients", "hooks", "error", "restart"}

VARIABLES
  event_world,
  stage,         \* where the publication of each event stands
  inbox,         \* notifications: event -> whether it is read
  audit_log,
  senders,       \* the connections in the user's entry; no entry is {}
  conn,          \* each connection: not yet there, open or closed
  heard,         \* what was sent over each connection
  known,         \* what had been sent before the connection was made
  jobs,          \* webhook tasks: spawned, or failed and half recorded
  webhooks,      \* rows: whether active, failure_count
  streak         \* history: failures recorded since a success was

eventVars == <<event_world, stage, inbox, audit_log, senders, conn, heard, known, jobs,
               webhooks, streak>>

TypeOK ==
  /\ event_world \in EventWorlds
  /\ DOMAIN inbox \subseteq Notice /\ audit_log \subseteq Event \ Notice
  /\ senders \subseteq {c \in Conn : conn[c] # "new"}
  /\ conn \in [Conn -> {"new", "open", "closed"}]
  /\ heard \in [Conn -> SUBSET Notice] /\ known \in [Conn -> SUBSET Event]
  /\ webhooks \in [Hook -> [active : BOOLEAN, failures : Nat]]
  /\ streak \in [Hook -> Nat]

Init ==
  /\ event_world \in EventWorlds
  /\ stage = [e \in Event |-> "new"]
  /\ inbox = <<>> /\ audit_log = {}
  /\ senders = {}
  /\ conn = [c \in Conn |-> "new"]
  /\ heard = [c \in Conn |-> {}] /\ known = [c \in Conn |-> {}]
  /\ jobs = {}
  /\ webhooks = [h \in Hook |-> [active |-> "clients" \notin event_world, failures |-> 0]]
  /\ streak = [h \in Hook |-> 0]

clients == <<senders, conn, heard, known>>
deliveries == <<jobs, webhooks, streak>>

To(e, s) == stage' = [stage EXCEPT ![e] = s]
At(e, s) == stage[e] = s

---------------------------------------------------------------------------
(* publish_inner and handle.                                               *)

(* Notices go to a user, moderation is audited, and the rest - a new       *)
(* thread, a reply to oneself - is for the webhooks alone, or for the      *)
(* plugins.                                                                *)
Publish(e) ==
  /\ At(e, "new")
  /\ \E s \in IF e \in Notice THEN {"row"} ELSE {"audit", "webhooks", "after"} : To(e, s)
  /\ UNCHANGED <<event_world, inbox, audit_log, clients, deliveries>>

CreateRow(e) ==
  /\ At(e, "row")
  /\ \/ inbox' = [n \in DOMAIN inbox \cup {e} |-> IF n = e THEN FALSE ELSE inbox[n]]
     \/ "error" \in event_world /\ UNCHANGED inbox
  /\ To(e, "push")
  /\ UNCHANGED <<event_world, audit_log, clients, deliveries>>

Audit(e) ==
  /\ At(e, "audit")
  /\ \/ audit_log' = audit_log \cup {e} /\ To(e, "webhooks")
     \/ "error" \in event_world /\ To(e, "after") /\ UNCHANGED audit_log
  /\ UNCHANGED <<event_world, inbox, clients, deliveries>>

Live == {c \in senders : conn[c] = "open"}

(* A mutant of Push that keeps only the connections it does not send to.   *)
PushOne(e) ==
  /\ At(e, "push")
  /\ \/ Live = {} /\ UNCHANGED heard
     \/ \E c \in Live : heard' = [heard EXCEPT ![c] = @ \cup {e}]
  /\ senders' = Live
  /\ To(e, IF senders # {} /\ Live = {} THEN "remove" ELSE "webhooks")
  /\ UNCHANGED <<event_world, inbox, audit_log, conn, known, deliveries>>

(* SseBroadcaster::publish holds the entry while it sends to all and drops *)
(* the senders whose receiver is gone. When none is left it lets go of the *)
(* entry, and removes it by its key after that.                            *)
Push(e) ==
  /\ At(e, "push")
  /\ heard' = [c \in Conn |-> IF c \in Live THEN heard[c] \cup {e} ELSE heard[c]]
  /\ senders' = Live
  /\ To(e, IF senders # {} /\ Live = {} THEN "remove" ELSE "webhooks")
  /\ UNCHANGED <<event_world, inbox, audit_log, conn, known, deliveries>>

(* A connection whose sender goes with the entry ends.                     *)
RemoveEntry(e) ==
  /\ At(e, "remove")
  /\ conn' = [c \in Conn |-> IF c \in senders THEN "closed" ELSE conn[c]]
  /\ senders' = {}
  /\ To(e, "webhooks")
  /\ UNCHANGED <<event_world, inbox, audit_log, heard, known, deliveries>>

(* dispatch_webhooks: a task for each active webhook, unless they cannot   *)
(* be looked up. A mention is for none.                                    *)
find_subscribed == {h \in Hook : webhooks[h].active}

DispatchWebhooks(e) ==
  /\ At(e, "webhooks")
  /\ \/ jobs' = jobs \cup {[event |-> e, hook |-> h, step |-> "send"] : h \in find_subscribed}
     \/ e \in Notice \cup (IF "error" \in event_world THEN Event ELSE {}) /\ UNCHANGED jobs
  /\ To(e, "after")
  /\ UNCHANGED <<event_world, inbox, audit_log, clients, webhooks, streak>>

(* The plugins hear of the event whatever became of it.                    *)
FireAfterEvent(e) ==
  /\ At(e, "after")
  /\ To(e, "done")
  /\ UNCHANGED <<event_world, inbox, audit_log, clients, deliveries>>

---------------------------------------------------------------------------
(* The user: connections and the inbox.                                    *)

Sent == {e \in Event : stage[e] \in {"remove", "webhooks", "after", "done"}}

(* subscribe evicts the dead and adds the new sender under one lock.       *)
Subscribe(c) ==
  /\ "clients" \in event_world /\ conn[c] = "new"
  /\ conn' = [conn EXCEPT ![c] = "open"]
  /\ senders' = Live \cup {c}
  /\ known' = [known EXCEPT ![c] = Sent]
  /\ UNCHANGED <<event_world, stage, inbox, audit_log, heard, deliveries>>

Disconnect(c) ==
  /\ conn[c] = "open"
  /\ conn' = [conn EXCEPT ![c] = "closed"]
  /\ UNCHANGED <<event_world, stage, inbox, audit_log, senders, heard, known, deliveries>>

(* The task that evicts dead senders every minute.                         *)
Evict ==
  /\ senders # Live /\ senders' = Live
  /\ UNCHANGED <<event_world, stage, inbox, audit_log, conn, heard, known, deliveries>>

unread_count == Cardinality({e \in DOMAIN inbox : ~inbox[e]})

MarkRead(e) ==
  /\ e \in DOMAIN inbox /\ ~inbox[e]
  /\ inbox' = [inbox EXCEPT ![e] = TRUE]
  /\ UNCHANGED <<event_world, stage, audit_log, clients, deliveries>>

MarkAllRead ==
  /\ unread_count > 0
  /\ inbox' = [e \in DOMAIN inbox |-> TRUE]
  /\ UNCHANGED <<event_world, stage, audit_log, clients, deliveries>>

---------------------------------------------------------------------------
(* Webhook deliveries.                                                     *)

(* dispatch_webhook answered with success: the count starts anew.          *)
DeliveryAccepted(j) ==
  /\ j \in jobs /\ j.step = "send"
  /\ jobs' = jobs \ {j}
  /\ webhooks' = [webhooks EXCEPT ![j.hook].failures = 0]
  /\ streak' = [streak EXCEPT ![j.hook] = 0]
  /\ UNCHANGED <<event_world, stage, inbox, audit_log, clients>>

(* Blocked, refused or without an answer: record_failure adds one ...      *)
DeliveryFailed(j) ==
  /\ j \in jobs /\ j.step = "send"
  /\ jobs' = (jobs \ {j}) \cup {[j EXCEPT !.step = "disable"]}
  /\ webhooks' = [webhooks EXCEPT ![j.hook].failures = @ + 1]
  /\ streak' = [streak EXCEPT ![j.hook] = @ + 1]
  /\ UNCHANGED <<event_world, stage, inbox, audit_log, clients>>

(* A mutant of DisableWebhook that is off by one.                          *)
DisableEarly(j) ==
  /\ j \in jobs /\ j.step = "disable"
  /\ jobs' = jobs \ {j}
  /\ webhooks' = [webhooks EXCEPT ![j.hook].active = @ /\ webhooks[j.hook].failures + 1 < MaxFailures]
  /\ UNCHANGED <<event_world, stage, inbox, audit_log, clients, streak>>

(* ... and then disables the webhook if by now the count is high enough.   *)
DisableWebhook(j) ==
  /\ j \in jobs /\ j.step = "disable"
  /\ jobs' = jobs \ {j}
  /\ webhooks' = [webhooks EXCEPT ![j.hook].active = @ /\ webhooks[j.hook].failures < MaxFailures]
  /\ UNCHANGED <<event_world, stage, inbox, audit_log, clients, streak>>

(* The result cannot be recorded: the delivery leaves no trace.            *)
RecordingFails(j) ==
  /\ "error" \in event_world
  /\ j \in jobs
  /\ jobs' = jobs \ {j}
  /\ UNCHANGED <<event_world, stage, inbox, audit_log, clients, webhooks, streak>>

(* WebhookUseCase::update; it leaves the count as it is.                   *)
SetActive(h, b) ==
  /\ "hooks" \in event_world /\ webhooks[h].active # b
  /\ webhooks' = [webhooks EXCEPT ![h].active = b]
  /\ UNCHANGED <<event_world, stage, inbox, audit_log, clients, jobs, streak>>

(* Publications, connections and tasks end with the process.               *)
Restart ==
  /\ "restart" \in event_world
  /\ stage' = [e \in Event |-> IF stage[e] = "new" THEN "new" ELSE "done"]
  /\ senders' = {}
  /\ conn' = [c \in Conn |-> IF conn[c] = "open" THEN "closed" ELSE conn[c]]
  /\ jobs' = {}
  /\ UNCHANGED <<event_world, inbox, audit_log, heard, known, webhooks, streak>>

Next ==
  \/ \E e \in Event :
       \/ Publish(e) \/ CreateRow(e) \/ Audit(e) \/ Push(e) \/ RemoveEntry(e)
       \/ DispatchWebhooks(e) \/ FireAfterEvent(e) \/ MarkRead(e)
  \/ \E c \in Conn : Subscribe(c) \/ Disconnect(c)
  \/ Evict \/ MarkAllRead
  \/ \E j \in jobs : \/ DeliveryAccepted(j) \/ DeliveryFailed(j) \/ DisableWebhook(j)
                     \/ RecordingFails(j)
  \/ \E h \in Hook, b \in BOOLEAN : SetActive(h, b)
  \/ Restart

Spec == Init /\ [][Next]_eventVars

---------------------------------------------------------------------------
(* handlers/api/notifications.rs, sse_stream: a connection that is open    *)
(* has been sent every notice since it was made, through disconnections,   *)
(* evictions and new connections of the same user; and what it was sent is *)
(* in the inbox, unless the row could not be written.                      *)
NoticesHeard ==
  \A c \in Conn :
    /\ conn[c] = "open" /\ "restart" \notin event_world =>
         (Sent \cap Notice) \ known[c] \subseteq heard[c]
    /\ "error" \notin event_world => heard[c] \subseteq DOMAIN inbox

DisablingStep ==
  \A j \in jobs : DisableWebhook(j) =>
    (webhooks'[j.hook].active # webhooks[j.hook].active => streak[j.hook] >= MaxFailures)

(* webhook_repository.rs, "Auto-disable if threshold reached": deliveries  *)
(* of many events run at once, and one that succeeds in between starts the *)
(* count anew: no task disables a webhook short of the threshold.          *)
DisabledByFailures == [][DisablingStep]_eventVars

(* sse_bus.rs, publish: "Automatically removes closed connections." Fails: *)
(* a connection made between the two steps of publish goes with the entry. *)
CutOnlyWhenClosed ==
  [][ \A e \in Event : (At(e, "remove") /\ stage'[e] = "webhooks") => conn' = conn ]_eventVars
=============================================================================
