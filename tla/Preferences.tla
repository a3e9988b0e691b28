------------------------------ MODULE Preferences ------------------------------
(***************************************************************************)
(* One user's preferences: three tables, and the entry user:prefs:<id>.    *)
(*                                                                         *)
(* Sources: UserUseCase (get_preferences, update_preferences), the handlers *)
(* of /me/preferences and of /categories/:id/watch, and the user           *)
(* repository.  Watching and muting write the tables through the           *)
(* repository and leave the entry alone; saving reads the preferences       *)
(* through the entry to fill in what the request does not set, and writes  *)
(* all of them back.  Each database or cache call is a step.               *)
(*                                                                         *)
(* Theme, font, layout and the mail setting are one part: they are columns *)
(* of one row.  A tick is a part of the entry's five minutes and longer    *)
(* than a request.                                                         *)
(***************************************************************************)
EXTENDS Naturals, FiniteSets, TLC

CONSTANTS
    Worker,      \* requests in flight
    Category,
    Theme,
    Ttl,         \* PREFERENCES_CACHE_TTL
    Change,      \* what a request may set: functions from some of the parts
    Worlds,
    NoEntry

Parts == {"theme", "muted", "watched"}
Marks == {"muted", "watched"}

(* What a behaviour has: "overlap", two requests at once; "mark", watching *)
(* and muting of single categories; "cache_error".                         *)
World == SUBSET {"overlap", "mark", "cache_error"}

Values(f) == IF f = "theme" THEN Theme ELSE SUBSET Category

PreferenceConstants ==
    /\ Worlds \subseteq World
    /\ Ttl \in Nat \ {0}
    /\ Theme # {} /\ Worker # {} /\ IsFiniteSet(Worker)
    /\ \A g \in Change : /\ DOMAIN g # {} /\ DOMAIN g \subseteq Parts
                         /\ \A f \in DOMAIN g : g[f] \in Values(f)

Preference == [theme: Theme, muted: SUBSET Category, watched: SUBSET Category]

VARIABLES
    world,
    table,      \* user_preferences, user_muted_categories, user_watched_categories
    entry,      \* user:prefs:<id> and the ticks it has left, or NoEntry
    pc, req,
    quiet       \* history: ticks since the tables were last written

vars == <<world, table, entry, pc, req, quiet>>

Default == [theme |-> CHOOSE t \in Theme : TRUE, muted |-> {}, watched |-> {}]
NoChange == [f \in {} |-> Default]
NoRequest == [body |-> NoChange, left |-> {}, got |-> Default]

TypeOK ==
    /\ world \in Worlds
    /\ table \in Preference
    /\ entry \in [prefs: Preference, ttl: 1..Ttl] \cup {NoEntry}
    /\ pc \in [Worker -> {"idle", "get", "read", "fill", "upsert", "invalidate"}]
    /\ req \in [Worker -> [body: Change \cup {NoChange}, left: SUBSET Parts,
                           got: Preference]]
    /\ quiet \in 0..Ttl + 1

Init ==
    /\ world \in Worlds
    /\ table = Default
    /\ entry = NoEntry
    /\ pc = [w \in Worker |-> "idle"]
    /\ req = [w \in Worker |-> NoRequest]
    /\ quiet = Ttl

-----------------------------------------------------------------------------

Idle == \A w \in Worker : pc[w] = "idle"
Free(w) == pc[w] = "idle" /\ (Idle \/ "overlap" \in world)

Goto(w, label) == pc' = [pc EXCEPT ![w] = label] /\ UNCHANGED req
Finish(w) == /\ pc' = [pc EXCEPT ![w] = "idle"]
             /\ req' = [req EXCEPT ![w] = NoRequest]

Saving(w) == req[w].body # NoChange

(* GET /me/preferences and every page render.                              *)
Render(w) ==
    /\ Free(w)
    /\ pc' = [pc EXCEPT ![w] = "get"]
    /\ UNCHANGED <<world, table, entry, req, quiet>>

(* PUT /me/preferences with a body that sets some of the parts.            *)
Save(w, body) ==
    /\ Free(w)
    /\ pc' = [pc EXCEPT ![w] = "get"]
    /\ req' = [req EXCEPT ![w].body = body]
    /\ UNCHANGED <<world, table, entry, quiet>>

(* The cache first; an entry ends the reading.                             *)
CacheGet(w) ==
    /\ pc[w] = "get"
    /\ IF entry = NoEntry
       THEN /\ pc' = [pc EXCEPT ![w] = "read"]
            /\ req' = [req EXCEPT ![w].left = Parts]
       ELSE IF Saving(w)
       THEN /\ pc' = [pc EXCEPT ![w] = "upsert"]
            /\ req' = [req EXCEPT ![w].got = entry.prefs]
       ELSE Finish(w)
    /\ UNCHANGED <<world, table, entry, quiet>>

(* The three queries run at the same time, in no transaction.              *)
ReadPart(w, f) ==
    /\ pc[w] = "read" /\ f \in req[w].left
    /\ req' = [req EXCEPT ![w].got[f] = table[f], ![w].left = @ \ {f}]
    /\ pc' = IF req[w].left = {f} THEN [pc EXCEPT ![w] = "fill"] ELSE pc
    /\ UNCHANGED <<world, table, entry, quiet>>

Fill(w) ==
    /\ pc[w] = "fill"
    /\ \/ entry' = [prefs |-> req[w].got, ttl |-> Ttl]
       \/ "cache_error" \in world /\ UNCHANGED entry
    /\ IF Saving(w) THEN Goto(w, "upsert") ELSE Finish(w)
    /\ UNCHANGED <<world, table, quiet>>

(* What is saved: the body's parts, and for the rest what was read.        *)
Merged(w) ==
    [f \in Parts |-> IF f \in DOMAIN req[w].body THEN req[w].body[f] ELSE req[w].got[f]]

(* The three tables in one transaction.                                    *)
Upsert(w) ==
    /\ pc[w] = "upsert"
    /\ table' = Merged(w)
    /\ quiet' = 0
    /\ pc' = [pc EXCEPT ![w] = "invalidate"]
    /\ req' = [req EXCEPT ![w] = NoRequest]
    /\ UNCHANGED <<world, entry>>

(* Saving that leaves the entry to expire.                                 *)
InvalidateNothing(w) ==
    /\ pc[w] = "invalidate"
    /\ Finish(w)
    /\ UNCHANGED <<world, table, entry, quiet>>

Invalidate(w) ==
    /\ pc[w] = "invalidate"
    /\ \/ entry' = NoEntry
       \/ "cache_error" \in world /\ UNCHANGED entry
    /\ Finish(w)
    /\ UNCHANGED <<world, table, quiet>>

(* POST and DELETE /categories/:id/watch and /mute: one statement each,    *)
(* idempotent.                                                             *)
Mark(f, c) ==
    /\ "mark" \in world /\ (Idle \/ "overlap" \in world)
    /\ table' = [table EXCEPT ![f] = @ \cup {c}]
    /\ quiet' = 0
    /\ UNCHANGED <<world, entry, pc, req>>

Unmark(f, c) ==
    /\ "mark" \in world /\ (Idle \/ "overlap" \in world)
    /\ table' = [table EXCEPT ![f] = @ \ {c}]
    /\ quiet' = 0
    /\ UNCHANGED <<world, entry, pc, req>>

Tick ==
    /\ Idle
    /\ quiet' = IF quiet > Ttl THEN quiet ELSE quiet + 1
    /\ entry' = IF entry = NoEntry \/ entry.ttl = 1 THEN NoEntry
                ELSE [entry EXCEPT !.ttl = @ - 1]
    /\ UNCHANGED <<world, table, pc, req>>

Next ==
    \/ \E w \in Worker :
        \/ Render(w) \/ CacheGet(w) \/ Fill(w) \/ Upsert(w) \/ Invalidate(w)
        \/ \E f \in Parts : ReadPart(w, f)
        \/ \E body \in Change : Save(w, body)
    \/ \E f \in Marks, c \in Category : Mark(f, c) \/ Unmark(f, c)
    \/ Tick

Spec == Init /\ [][Next]_vars

-----------------------------------------------------------------------------

(* What a page shows between requests is what is stored: at once when      *)
(* nothing but saving writes the tables and requests come one at a time,   *)
(* and whatever overlaps, fails or goes round the entry once nothing was    *)
(* written for as long as an entry lives.                                  *)
PreferencesSettle ==
    Idle /\ entry # NoEntry /\ (world = {} \/ quiet >= Ttl) => entry.prefs = table

SavingStep ==
    \A w \in Worker : pc[w] = "upsert" /\ pc'[w] = "invalidate" =>
        \A f \in Parts \ DOMAIN req[w].body : table'[f] = table[f]

(* Saving changes what the request sets and "preserve[s] fields the        *)
(* request doesn't set" (profile.rs:125). Fails: watching a category from  *)
(* its page goes round the entry that saving reads the rest from.          *)
SavePreserves == [][SavingStep]_vars

=============================================================================
