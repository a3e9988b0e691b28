------------------------------- MODULE HookWorkers -------------------------------
(***************************************************************************)
(* Before-hooks and reloads of one script plugin on the worker threads of  *)
(* the async runtime.                                                      *)
(*                                                                         *)
(* dispatch_before_hook looks the script runtime up in a DashMap and keeps *)
(* the guard of that lookup, a shared lock, while it awaits the plugin's   *)
(* answer: an await gives the worker thread back, a lock does not.         *)
(* reload_plugin removes the entry, which takes the lock exclusively and   *)
(* blocks its worker thread until no guard is left.  A lookup does not wait *)
(* for a removal that is waiting: a DashMap's lock prefers readers.        *)
(***************************************************************************)
EXTENDS Naturals, FiniteSets

CONSTANTS
    Worker,  \* worker threads of the async runtime
    Hook,    \* requests that dispatch a before-hook
    Reload   \* requests that reload the plugin

VARIABLES
    hook,    \* where each dispatch is
    reload   \* where each reload is

vars == <<hook, reload>>

TypeOK ==
    /\ hook \in [Hook -> {"idle", "waiting", "ready"}]
    /\ reload \in [Reload -> {"idle", "blocked"}]

Init ==
    /\ hook = [h \in Hook |-> "idle"]
    /\ reload = [r \in Reload |-> "idle"]

Guarded == \E h \in Hook : hook[h] # "idle"
Blocked == {r \in Reload : reload[r] = "blocked"}

(* A task only advances on a worker thread that no reload blocks. *)
WorkerFree == Cardinality(Blocked) < Cardinality(Worker)

(* The lookup, and the message to the plugin's own thread. *)
Dispatch(h) ==
    /\ WorkerFree
    /\ hook[h] = "idle"
    /\ hook' = [hook EXCEPT ![h] = "waiting"]
    /\ UNCHANGED reload

(* The plugin answers on a thread of its own, or never. *)
Answer(h) ==
    /\ hook[h] = "waiting"
    /\ hook' = [hook EXCEPT ![h] = "ready"]
    /\ UNCHANGED reload

(* A dispatch with no bound on how long it waits. *)
NoTimeout(h) == FALSE /\ hook[h] = "waiting" /\ UNCHANGED vars

(* The timer runs on the worker threads. *)
Timeout(h) ==
    /\ WorkerFree
    /\ hook[h] = "waiting"
    /\ hook' = [hook EXCEPT ![h] = "ready"]
    /\ UNCHANGED reload

(* The dispatch goes on and drops its guard. *)
Return(h) ==
    /\ WorkerFree
    /\ hook[h] = "ready"
    /\ hook' = [hook EXCEPT ![h] = "idle"]
    /\ UNCHANGED reload

(* script_runtimes.remove: at once, or when the last guard is gone. *)
Remove(r) ==
    /\ WorkerFree
    /\ reload[r] = "idle"
    /\ Guarded
    /\ reload' = [reload EXCEPT ![r] = "blocked"]
    /\ UNCHANGED hook

Removed(r) ==
    /\ reload[r] = "blocked"
    /\ ~Guarded
    /\ reload' = [reload EXCEPT ![r] = "idle"]
    /\ UNCHANGED hook

Next == \/ \E h \in Hook : Dispatch(h) \/ Answer(h) \/ Timeout(h) \/ Return(h)
        \/ \E r \in Reload : Remove(r) \/ Removed(r)

Spec == Init /\ [][Next]_vars

(* The timer fires, a ready task is polled while a worker thread is free,  *)
(* and a lock that is free is taken.  A plugin need not answer.            *)
FairSpec ==
    /\ Spec
    /\ \A h \in Hook : WF_vars(Timeout(h)) /\ WF_vars(Return(h))
    /\ \A r \in Reload : WF_vars(Removed(r))

-----------------------------------------------------------------------------

(* A request that dispatches a before-hook gets its turn back, whatever    *)
(* the plugin does and however often administrators reload it: "the forum  *)
(* always stays up".                                                       *)
HookReturns == \A h \in Hook : hook[h] = "waiting" ~> hook[h] = "idle"

=============================================================================
