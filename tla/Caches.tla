-------------------------------- MODULE Caches --------------------------------
(***************************************************************************)
(* The cache of ferum-board: keys that live for a time, in memory or in    *)
(* Redis, used by several requests at once.                                *)
(*                                                                         *)
(* In memory an entry that is over stays until somebody finds it: get lets *)
(* go of the entry it found and then removes the key. Redis drops keys by  *)
(* itself; del_prefix there is a scan that removes what each page holds.   *)
(***************************************************************************)
EXTENDS Integers, FiniteSets

CONSTANTS
  Worker,        \* callers
  Key,
  Swept,         \* the keys under the prefix that del_prefix is given
  Claim,         \* the keys for set_nx, which nobody reads or deletes
  Ttl,           \* ticks an entry lives
  CacheWorlds,   \* what may happen in a behaviour
  Empty

CacheConstants ==
  /\ Swept \subseteq Key /\ Claim \subseteq Key \ Swept
  /\ Ttl \in Nat \ {0} /\ Empty \notin Int
  /\ \A x \in CacheWorlds : /\ x.backend \in {"memory", "redis"}
                            /\ x.ops \subseteq {"get", "set", "set_nx", "sweep"}

VARIABLES
  cache_world,
  cells,         \* by key: ticks left, -1 when over, or Empty
  cache_pc,
  found,         \* the worker's key, or those its sweep is about to remove
  ahead,         \* the keys its sweep has still to see
  fresh,         \* history: by key, ticks left of what was set last
  claims,        \* history: grants of a key within the life of the first
  due            \* history: by worker, keys its sweep must not leave

cacheVars == <<cache_world, cells, cache_pc, found, ahead, fresh, claims, due>>

TypeOK ==
  /\ cache_world \in CacheWorlds
  /\ cells \in [Key -> -1 .. Ttl \cup {Empty}]
  /\ cache_pc \in [Worker -> {"idle", "remove", "scan", "unlink", "swept"}]
  /\ found \in [Worker -> SUBSET Key] /\ ahead \in [Worker -> SUBSET Key]
  /\ fresh \in [Key -> -1 .. Ttl]

Init ==
  /\ cache_world \in CacheWorlds
  /\ cells = [k \in Key |-> Empty]
  /\ cache_pc = [w \in Worker |-> "idle"]
  /\ found = [w \in Worker |-> {}] /\ ahead = [w \in Worker |-> {}]
  /\ fresh = [k \in Key |-> -1]
  /\ claims = [k \in Claim |-> 0]
  /\ due = [w \in Worker |-> {}]

Memory == cache_world.backend = "memory"
Does(w, op) == cache_pc[w] = "idle" /\ op \in cache_world.ops

is_expired(k) == cells[k] # Empty /\ cells[k] < 0

Goto(w, label, keys) ==
  /\ cache_pc' = [cache_pc EXCEPT ![w] = label]
  /\ found' = [found EXCEPT ![w] = keys]

Erase(keys) ==
  /\ cells' = [k \in Key |-> IF k \in keys THEN Empty ELSE cells[k]]
  /\ fresh' = [k \in Key |-> IF k \in keys THEN -1 ELSE fresh[k]]

(* A hit or a miss changes nothing; finding an entry that is over does.    *)
Get(w, k) ==
  /\ Does(w, "get") /\ k \notin Claim
  /\ is_expired(k)
  /\ Goto(w, "remove", {k})
  /\ UNCHANGED <<cache_world, cells, ahead, fresh, claims, due>>

Remove(w) ==
  /\ cache_pc[w] = "remove"
  /\ cells' = [k \in Key |-> IF k \in found[w] THEN Empty ELSE cells[k]]
  /\ Goto(w, "idle", {})
  /\ UNCHANGED <<cache_world, ahead, fresh, claims, due>>

Put(k) ==
  /\ cells' = [cells EXCEPT ![k] = Ttl]
  /\ fresh' = [fresh EXCEPT ![k] = Ttl]

Set(w, k) ==
  /\ Does(w, "set") /\ k \notin Claim
  /\ Put(k)
  /\ due' = [v \in Worker |-> due[v] \ {k}]
  /\ UNCHANGED <<cache_world, cache_pc, found, ahead, claims>>

(* Granted when there is no entry or it is over, under the entry's lock.   *)
SetNx(w, k) ==
  /\ Does(w, "set_nx") /\ k \in Claim
  /\ cells[k] = Empty \/ is_expired(k)
  /\ Put(k)
  /\ claims' = [claims EXCEPT ![k] = IF fresh[k] < 0 THEN 1 ELSE @ + 1]
  /\ UNCHANGED <<cache_world, cache_pc, found, ahead, due>>

Del(w, k) ==
  /\ Does(w, "set") /\ k \notin Claim
  /\ Erase({k})
  /\ UNCHANGED <<cache_world, cache_pc, found, ahead, claims, due>>

(* Both go through the keys part by part: the map shard by shard, Redis    *)
(* page by page.                                                           *)
BeginSweep(w) ==
  /\ Does(w, "sweep")
  /\ Goto(w, "scan", {})
  /\ ahead' = [ahead EXCEPT ![w] = Key]
  /\ due' = [due EXCEPT ![w] = {k \in Swept : cells[k] # Empty}]
  /\ UNCHANGED <<cache_world, cells, fresh, claims>>

(* A part that is read and then removed; the part of a map is locked.      *)
Part(w, part, last) ==
  /\ ahead' = [ahead EXCEPT ![w] = @ \ part]
  /\ IF Memory
       THEN /\ Erase(part \cap Swept)
            /\ Goto(w, IF last THEN "swept" ELSE "scan", {})
       ELSE /\ Goto(w, "unlink", {k \in part \cap Swept : cells[k] # Empty})
            /\ UNCHANGED <<cells, fresh>>
  /\ UNCHANGED <<cache_world, claims, due>>

Scan(w) ==
  /\ cache_pc[w] = "scan"
  /\ \E part \in SUBSET ahead[w] \ {{}} : Part(w, part, part = ahead[w])

Unlink(w) ==
  /\ cache_pc[w] = "unlink"
  /\ Erase(found[w])
  /\ Goto(w, IF ahead[w] = {} THEN "swept" ELSE "scan", {})
  /\ UNCHANGED <<cache_world, ahead, claims, due>>

EndSweep(w) ==
  /\ cache_pc[w] = "swept"
  /\ Goto(w, "idle", {})
  /\ due' = [due EXCEPT ![w] = {}]
  /\ UNCHANGED <<cache_world, cells, ahead, fresh, claims>>

(* In memory an entry is over after its time, in Redis it is gone.         *)
Older(left) == IF left < 0 THEN -1 ELSE left - 1

Tick ==
  /\ cells' = [k \in Key |->
                 CASE cells[k] = Empty -> Empty
                   [] ~Memory /\ cells[k] = 0 -> Empty
                   [] OTHER -> Older(cells[k])]
  /\ fresh' = [k \in Key |-> Older(fresh[k])]
  /\ UNCHANGED <<cache_world, cache_pc, found, ahead, claims, due>>

Next ==
  \/ \E w \in Worker :
       \/ \E k \in Key : Get(w, k) \/ Set(w, k) \/ SetNx(w, k) \/ Del(w, k)
       \/ Remove(w) \/ BeginSweep(w) \/ Scan(w) \/ Unlink(w) \/ EndSweep(w)
  \/ Tick

Spec == Init /\ [][Next]_cacheVars

---------------------------------------------------------------------------
(* Of the callers that claim a key within its life one is granted it (what *)
(* makes a password reset token good for once), whoever else uses the      *)
(* cache.                                                                  *)
ClaimedOnce == \A k \in Claim : claims[k] <= 1

(* del_prefix leaves no key that was there when it began and was not set   *)
(* since (what makes a ban end the sessions there are).                    *)
SweptGone ==
  \A w \in Worker : cache_pc[w] = "swept" => \A k \in due[w] : cells[k] = Empty

(* An entry is there for as long as it was set to live: what a ban's flag  *)
(* is for. Fails in memory: get removes an entry set after the one it      *)
(* found to be over.                                                       *)
FreshSurvives == \A k \in Key : fresh[k] >= 0 => cells[k] = fresh[k]
=============================================================================
