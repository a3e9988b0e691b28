------------------------------ MODULE RateLimits ------------------------------
(***************************************************************************)
(* Rate limiting of ferum-board: the middleware that names the client and  *)
(* reads the limit, and the two limiters it may ask, in memory and Redis.  *)
(*                                                                         *)
(* The limiter in memory counts under a lock on the key's entry; a loop    *)
(* drops entries that are over. Redis is asked twice, INCR and then, by    *)
(* the request that found no count, EXPIRE; requests interleave between    *)
(* the two.                                                                *)
(***************************************************************************)
EXTENDS Integers, Sequences, FiniteSetsExt

CONSTANTS
  Worker,        \* requests in flight
  Client,        \* the clients that send requests, named by their addresses
  Address,
  Proxy,         \* address of the proxies, as the next hop sees it
  Headers,       \* what clients may send as X-Forwarded-For and X-Real-IP
  Window,        \* ticks of a window
  Limit,         \* values of the configured limit
  MaxAsked,      \* bound on the requests within a window, and on a count
  LimitWorlds,   \* what may happen in a behaviour
  Nobody, NoWindow

(* Headers: the addresses of X-Forwarded-For, whether it is text at all    *)
(* (to_str), and X-Real-IP (Nobody: absent, or no text).                   *)
(*                                                                         *)
(* A world: the backend, how many proxies are trusted (as many as there    *)
(* are), what they do with X-Real-IP, who sends requests, and what may go  *)
(* wrong.                                                                  *)
LimitConstants ==
  /\ Client \subseteq Address /\ Proxy \in Address /\ Nobody \notin Address
  /\ Headers \subseteq
       [xff: Seq(Address), readable: BOOLEAN, real: Address \cup {Nobody}]
  /\ Window \in Nat \ {0}
  /\ Limit \subseteq Nat /\ \E n \in Limit : \A m \in Limit : m <= n
  /\ NoWindow \notin [count: Nat, left: Int, ends: BOOLEAN] \cup [count: Nat, left: Int]
  /\ \A x \in LimitWorlds :
       /\ x.backend \in {"memory", "redis"} /\ x.proxies \in 0 .. 2
       /\ x.real \in {"set", "removed", "passed"} /\ x.clients \subseteq Client
       /\ x.events \subseteq {"restart", "error", "slow", "reconfigure"}

VARIABLES
  limit_world,
  limit,         \* site_config_cache
  store,         \* by key: count, ticks left (-1: over), and whether it has an end
  gate,          \* where each worker stands
  call,          \* its client, key and header, what it was told
  asked, admitted \* history: per key and age, requests counted and let in

limitVars == <<limit_world, limit, store, gate, call, asked, admitted>>

Age == 0 .. Window
Idle == [client |-> Nobody, key |-> Nobody, readable |-> TRUE, count |-> 0, limit |-> 0,
         allowed |-> FALSE]

TypeOK ==
  /\ limit_world \in LimitWorlds /\ limit \in Limit
  /\ \A k \in Address : store[k] = NoWindow \/ store[k].left \in -1 .. Window
  /\ gate \in [Worker -> {"idle", "incr", "expire", "told"}]
  /\ asked \in [Address -> [Age -> Nat]] /\ admitted \in [Address -> [Age -> Nat]]

Init ==
  /\ limit_world \in LimitWorlds
  /\ limit \in Limit
  /\ store = [k \in Address |-> NoWindow]
  /\ gate = [w \in Worker |-> "idle"]
  /\ call = [w \in Worker |-> Idle]
  /\ asked = [k \in Address |-> [a \in Age |-> 0]]
  /\ admitted = asked

May(event) == event \in limit_world.events
Within(history, k) == MapThenSumSet(LAMBDA a : history[k][a], Age)
Once(history, k) == [history EXCEPT ![k][0] = @ + 1]

---------------------------------------------------------------------------
(* The middleware.                                                         *)

(* Each proxy appends the address it was called from, to text or not.      *)
Forwarded(c, h) ==
  LET n == limit_world.proxies
  IN  [xff      |-> CASE n = 0 -> h.xff
                      [] n = 1 -> Append(h.xff, c)
                      [] n = 2 -> h.xff \o <<c, Proxy>>,
       readable |-> h.readable,
       real     |-> CASE n = 0 \/ limit_world.real = "passed" -> h.real
                      [] n > 0 /\ limit_world.real = "removed" -> Nobody
                      [] n > 0 /\ limit_world.real = "set" -> IF n = 1 THEN c ELSE Proxy]

Peer(c) == IF limit_world.proxies = 0 THEN c ELSE Proxy

(* The n-th last address of X-Forwarded-For, or what X-Real-IP says.       *)
extract_client_ip(h, n) ==
  CASE n = 0 -> Nobody
    [] n > 0 /\ h.readable /\ h.xff # <<>> ->
         h.xff[IF Len(h.xff) >= n THEN Len(h.xff) - n + 1 ELSE 1]
    [] n > 0 /\ (~h.readable \/ h.xff = <<>>) -> h.real

KeyFor(c, h) ==
  LET ip == extract_client_ip(Forwarded(c, h), limit_world.proxies)
  IN  IF ip = Nobody THEN Peer(c) ELSE ip

Request(w, c, h) ==
  /\ c \in limit_world.clients /\ gate[w] = "idle"
  /\ MapThenSumSet(LAMBDA k : Within(asked, k), Address) < MaxAsked
  /\ \A k \in Address : store[k] # NoWindow => store[k].count <= MaxAsked
  /\ gate' = [gate EXCEPT ![w] = "incr"]
  /\ call' = [call EXCEPT ![w] =
                [Idle EXCEPT !.client = c, !.key = KeyFor(c, h), !.readable = h.readable,
                             !.limit = limit]]
  /\ UNCHANGED <<limit_world, limit, store, asked, admitted>>

(* Told whether the count is within the limit read before.                 *)
Tell(w, n) ==
  /\ gate' = [gate EXCEPT ![w] = "told"]
  /\ call' = [call EXCEPT ![w].allowed = n <= call[w].limit]
  /\ admitted' = IF n <= call[w].limit THEN Once(admitted, call[w].key) ELSE admitted

Return(w) ==
  /\ gate[w] = "told"
  /\ gate' = [gate EXCEPT ![w] = "idle"]
  /\ call' = [call EXCEPT ![w] = Idle]
  /\ UNCHANGED <<limit_world, limit, store, asked, admitted>>

(* An error of the limiter: the request is refused with 503, uncounted or, *)
(* when only EXPIRE failed, counted.                                       *)
FailClosed(w) ==
  /\ May("error") /\ limit_world.backend = "redis" /\ gate[w] \in {"incr", "expire"}
  /\ gate' = [gate EXCEPT ![w] = "idle"]
  /\ call' = [call EXCEPT ![w] = Idle]
  /\ UNCHANGED <<limit_world, limit, store, asked, admitted>>

Configure(n) ==
  /\ May("reconfigure")
  /\ limit' = n
  /\ UNCHANGED <<limit_world, store, gate, call, asked, admitted>>

---------------------------------------------------------------------------
(* In memory.                                                              *)

(* A window that starts anew with each request.                            *)
CheckSliding(w) ==
  LET k == call[w].key
      n == IF store[k] = NoWindow \/ store[k].left < 0 THEN 1 ELSE store[k].count + 1
  IN  /\ limit_world.backend = "memory" /\ gate[w] = "incr"
      /\ store' = [store EXCEPT ![k] = [count |-> n, left |-> Window, ends |-> TRUE]]
      /\ asked' = Once(asked, call[w].key)
      /\ Tell(w, n)
      /\ UNCHANGED <<limit_world, limit>>

(* A window that is over and goes on counting.                             *)
CheckNoReset(w) ==
  LET k == call[w].key
      e == IF store[k] = NoWindow THEN [count |-> 0, left |-> Window, ends |-> TRUE]
           ELSE store[k]
  IN  /\ limit_world.backend = "memory" /\ gate[w] = "incr"
      /\ store' = [store EXCEPT ![k] = [e EXCEPT !.count = @ + 1]]
      /\ asked' = Once(asked, call[w].key)
      /\ Tell(w, e.count + 1)
      /\ UNCHANGED <<limit_world, limit>>

Check(w) ==
  LET k == call[w].key
      e == IF store[k] = NoWindow \/ store[k].left < 0
             THEN [count |-> 0, left |-> Window, ends |-> TRUE]
             ELSE store[k]
  IN  /\ limit_world.backend = "memory" /\ gate[w] = "incr"
      /\ store' = [store EXCEPT ![k] = [e EXCEPT !.count = @ + 1]]
      /\ asked' = Once(asked, call[w].key)
      /\ Tell(w, e.count + 1)
      /\ UNCHANGED <<limit_world, limit>>

(* retain(reset_at > now).                                                 *)
Sweep ==
  /\ limit_world.backend = "memory"
  /\ store' = [k \in Address |->
                 IF store[k] # NoWindow /\ store[k].left <= 0 THEN NoWindow ELSE store[k]]
  /\ UNCHANGED <<limit_world, limit, gate, call, asked, admitted>>

Restart ==
  /\ May("restart")
  /\ store' = IF limit_world.backend = "memory" THEN [k \in Address |-> NoWindow] ELSE store
  /\ gate' = [w \in Worker |-> "idle"]
  /\ call' = [w \in Worker |-> Idle]
  /\ UNCHANGED <<limit_world, limit, asked, admitted>>

---------------------------------------------------------------------------
(* Redis.                                                                  *)

Incr(w) ==
  LET k == call[w].key
      n == IF store[k] = NoWindow THEN 1 ELSE store[k].count + 1
  IN  /\ limit_world.backend = "redis" /\ gate[w] = "incr"
      /\ store' = [store EXCEPT ![k] =
                     IF @ = NoWindow THEN [count |-> 1, left |-> Window, ends |-> FALSE]
                     ELSE [@ EXCEPT !.count = n]]
      /\ asked' = Once(asked, call[w].key)
      /\ IF n = 1
           THEN /\ gate' = [gate EXCEPT ![w] = "expire"]
                /\ call' = [call EXCEPT ![w].count = n]
                /\ UNCHANGED admitted
           ELSE Tell(w, n)
      /\ UNCHANGED <<limit_world, limit>>

Expire(w) ==
  /\ gate[w] = "expire"
  /\ store' = [store EXCEPT ![call[w].key] =
                 IF @ = NoWindow THEN @ ELSE [@ EXCEPT !.left = Window, !.ends = TRUE]]
  /\ Tell(w, call[w].count)
  /\ UNCHANGED <<limit_world, limit, asked>>

---------------------------------------------------------------------------
(* A request takes less than a tick, but for the world that is slow.       *)
Older(history) ==
  [k \in Address |-> [a \in Age |-> IF a = 0 THEN 0 ELSE history[k][a - 1]]]

Tick ==
  /\ May("slow") \/ \A w \in Worker : gate[w] = "idle"
  /\ store' = [k \in Address |->
                 IF store[k] = NoWindow \/ ~store[k].ends THEN store[k]
                 ELSE IF limit_world.backend = "redis" /\ store[k].left = 0 THEN NoWindow
                 ELSE [store[k] EXCEPT !.left = Max({-1, @ - 1})]]
  /\ asked' = Older(asked) /\ admitted' = Older(admitted)
  /\ UNCHANGED <<limit_world, limit, gate, call>>

Next ==
  \/ \E w \in Worker :
       \/ \E c \in Client, h \in Headers : Request(w, c, h)
       \/ Check(w) \/ Incr(w) \/ Expire(w) \/ FailClosed(w) \/ Return(w)
  \/ \E n \in Limit : Configure(n)
  \/ Sweep \/ Restart \/ Tick

Spec == Init /\ [][Next]_limitVars

---------------------------------------------------------------------------
Highest == Max(Limit)

AdmittedLately(k) == MapThenSumSet(LAMBDA a : admitted[k][a], 0 .. Window - 1)

(* However requests interleave, at most twice the limit of those counted   *)
(* under one key are let through in less than a window (once before a      *)
(* window ends and once after).                                            *)
AdmittedBounded ==
  ~May("restart") => \A k \in Address : AdmittedLately(k) <= 2 * Highest

(* No request stops, or lingers, between the two commands it sends to      *)
(* Redis.                                                                  *)
Uninterrupted ==
  ~(May("error") \/ May("slow") \/ (May("restart") /\ limit_world.backend = "redis"))

(* A client is told to wait only when its key was asked for that often:    *)
(* the key's requests within the last window exceed the limit.             *)
DeniedIsEarned ==
  Uninterrupted =>
    \A w \in Worker :
      gate[w] = "told" /\ ~call[w].allowed => Within(asked, call[w].key) > call[w].limit

(* Whose key it is, whatever the client writes: its own without a proxy,   *)
(* behind one that sets X-Real-IP, and where its X-Forwarded-For is text.  *)
(* With any other header it is the proxy's, shared by all who send such    *)
(* headers; only where the proxies pass X-Real-IP on is it what the client *)
(* wrote there, a new one each time or another client's.                   *)
KeyOfClient ==
  \A w \in Worker : gate[w] # "idle" =>
    /\ \/ call[w].readable \/ limit_world.proxies = 0
       \/ limit_world.proxies = 1 /\ limit_world.real = "set"
       => call[w].key = call[w].client
    /\ limit_world.real # "passed" => call[w].key \in {call[w].client, Proxy}

(* The configuration key says auth_rate_limit_per_min: within any minute.  *)
(* Fails where two windows meet.                                           *)
PerMinute ==
  ~May("restart") => \A k \in Address : AdmittedLately(k) <= Highest

(* redis.rs, "set TTL only on first call within the window". Fails: when   *)
(* that call stops between the two commands the key has no end.            *)
EveryWindowEnds ==
  (\A w \in Worker : gate[w] = "idle") => \A k \in Address : store[k] # NoWindow => store[k].ends

(* Both limiters are rate windows: a key's window is what is stored for it *)
(* until it is over.                                                       *)
Windows == [k \in Address |-> IF store[k] = NoWindow \/ store[k].left < 0 THEN NoWindow
                              ELSE [count |-> store[k].count, left |-> store[k].left]]
Promise == INSTANCE RateWindow WITH Key <- Address, window <- Windows
WindowStep ==
  Uninterrupted =>
    Promise!Next \/ (May("restart") /\ Promise!Forget) \/ UNCHANGED Windows
KeepsWindows == [][WindowStep]_limitVars
=============================================================================
