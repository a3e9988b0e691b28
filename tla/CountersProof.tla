------------------------------ MODULE CountersProof ------------------------------
(***************************************************************************)
(* Proofs about what MCPlatform counts and keeps for a while, for any      *)
(* values of the constants: the rate limiters (see RateLimits), the two    *)
(* caches (see Caches), views and daily statistics (see Statistics), and   *)
(* the sums that the properties of limits and views are stated with.       *)
(***************************************************************************)
EXTENDS MCPlatform, Integers, Sequences, FiniteSetTheorems, WellFoundedInduction, TLAPS

-----------------------------------------------------------------------------
(* Sums. What MapThenSumSet recurs over has one solution, and the size of  *)
(* a set is one: of a field of f[x] points over every x.                   *)

Points(f, S) == {p \in S \X Nat : p[2] < f[p[1]]}
Total(f, S) == Cardinality(Points(f, S))

SumsUp(g, f, S) ==
    g = [s \in SUBSET S |-> IF s = {} THEN 0
                            ELSE LET x == CHOOSE x \in s : TRUE IN f[x] + g[s \ {x}]]

LEMMA PointsOfOne ==
    ASSUME NEW x, NEW n \in Nat
    PROVE  LET C == {p \in {x} \X Nat : p[2] < n}
           IN  IsFiniteSet(C) /\ Cardinality(C) = n
<1> DEFINE C == {p \in {x} \X Nat : p[2] < n}
           b == [i \in 0 .. n - 1 |-> <<x, i>>]
<1>1. IsFiniteSet(0 .. n - 1) /\ Cardinality(0 .. n - 1) = n
  BY FS_Interval
<1>2. b \in Bijection(0 .. n - 1, C)
  <2>1. b \in [0 .. n - 1 -> C]
    OBVIOUS
  <2>2. ASSUME NEW i \in 0 .. n - 1, NEW j \in 0 .. n - 1, b[i] = b[j] PROVE i = j
    BY <2>2
  <2>3. ASSUME NEW p \in C PROVE \E i \in 0 .. n - 1 : b[i] = p
    <3>1. p = <<x, p[2]>> /\ p[2] \in 0 .. n - 1
      OBVIOUS
    <3> QED
      BY <3>1
  <2> QED
    BY <2>1, <2>2, <2>3 DEF Bijection, Injection, Surjection, IsInjective
<1>3. ExistsBijection(0 .. n - 1, C)
  BY <1>2 DEF ExistsBijection
<1> QED
  BY <1>1, <1>3, FS_Bijection

LEMMA PointsFinite ==
    ASSUME NEW S, IsFiniteSet(S), NEW f, \A x \in S : f[x] \in Nat
    PROVE  IsFiniteSet(Points(f, S))
<1> DEFINE Col(x) == {p \in {x} \X Nat : p[2] < f[x]}
           All == {Col(x) : x \in S}
<1>1. \A x \in S : IsFiniteSet(Col(x))
  BY PointsOfOne
<1>2. IsFiniteSet(All)
  <2> DEFINE c == [x \in S |-> Col(x)]
  <2>1. c \in Surjection(S, All)
    BY DEF Surjection
  <2> QED
    BY <2>1, FS_Surjection
<1>3. IsFiniteSet(UNION All)
  BY <1>1, <1>2, FS_UNION
<1>4. Points(f, S) \subseteq UNION All
  <2>1. ASSUME NEW p \in Points(f, S) PROVE p \in Col(p[1]) /\ p[1] \in S
    BY <2>1 DEF Points
  <2> QED
    BY <2>1
<1> QED
  BY <1>3, <1>4, FS_Subset

LEMMA TotalNat ==
    ASSUME NEW S, IsFiniteSet(S), NEW f, \A x \in S : f[x] \in Nat
    PROVE  Total(f, S) \in Nat
  BY PointsFinite, FS_CardinalityType DEF Total

LEMMA TotalEmpty == ASSUME NEW f PROVE Total(f, {}) = 0
<1>1. Points(f, {}) = {}
  BY DEF Points
<1> QED
  BY <1>1, FS_EmptySet DEF Total

LEMMA TotalSame ==
    ASSUME NEW S, NEW f, NEW g, \A x \in S : f[x] = g[x]
    PROVE  Total(f, S) = Total(g, S)
<1>1. Points(f, S) = Points(g, S)
  BY DEF Points
<1> QED
  BY <1>1 DEF Total

LEMMA TotalSplit ==
    ASSUME NEW S, NEW T, IsFiniteSet(S), IsFiniteSet(T), S \cap T = {},
           NEW f, \A x \in S \cup T : f[x] \in Nat
    PROVE  Total(f, S \cup T) = Total(f, S) + Total(f, T)
<1>1. /\ Points(f, S \cup T) = Points(f, S) \cup Points(f, T)
      /\ Points(f, S) \cap Points(f, T) = {}
  BY DEF Points
<1>2. IsFiniteSet(Points(f, S)) /\ IsFiniteSet(Points(f, T))
  BY PointsFinite
<1> DEFINE A == Points(f, S)
           B == Points(f, T)
<1>3. Total(f, S) = Cardinality(A) /\ Total(f, T) = Cardinality(B)
      /\ Total(f, S \cup T) = Cardinality(A \cup B)
  BY <1>1 DEF Total
<1>4. IsFiniteSet(A) /\ IsFiniteSet(B) /\ A \cap B = {}
  BY <1>1, <1>2
<1> HIDE DEF A, B
<1>5. Cardinality(A \cup B) = Cardinality(A) + Cardinality(B) - Cardinality({})
  BY <1>4, FS_Union
<1>6. Cardinality({}) = 0
  BY FS_EmptySet
<1>7. Cardinality(A) \in Nat /\ Cardinality(B) \in Nat
  BY <1>4, FS_CardinalityType
<1> QED
  BY <1>3, <1>5, <1>6, <1>7

LEMMA TotalOne ==
    ASSUME NEW x, NEW f, f[x] \in Nat
    PROVE  Total(f, {x}) = f[x]
<1>1. Points(f, {x}) = {p \in {x} \X Nat : p[2] < f[x]}
  BY DEF Points
<1> QED
  BY <1>1, PointsOfOne DEF Total

LEMMA TotalTake ==
    ASSUME NEW S, IsFiniteSet(S), NEW f, \A x \in S : f[x] \in Nat, NEW x \in S
    PROVE  /\ Total(f, S) = f[x] + Total(f, S \ {x})
           /\ Total(f, S \ {x}) \in Nat
<1> DEFINE R == S \ {x}
<1>1. {x} \cap R = {} /\ {x} \cup R = S
  OBVIOUS
<1>2. IsFiniteSet({x})
  BY FS_Singleton
<1>3. IsFiniteSet(R) /\ \A y \in R : f[y] \in Nat
  BY FS_RemoveElement
<1> HIDE DEF R
<1>4. Total(f, {x} \cup R) = Total(f, {x}) + Total(f, R)
  BY <1>1, <1>2, <1>3, TotalSplit
<1>5. Total(f, {x}) = f[x]
  BY TotalOne
<1>6. Total(f, R) \in Nat
  BY <1>3, TotalNat
<1> QED
  BY <1>1, <1>4, <1>5, <1>6 DEF R

(* One entry changes.                                                      *)
LEMMA TotalChanged ==
    ASSUME NEW S, IsFiniteSet(S), NEW f, NEW g, \A x \in S : f[x] \in Nat /\ g[x] \in Nat,
           NEW x \in S, \A y \in S \ {x} : g[y] = f[y]
    PROVE  /\ Total(g, S) = Total(f, S) - f[x] + g[x]
           /\ f[x] <= Total(f, S)
<1>1. Total(g, S \ {x}) = Total(f, S \ {x})
  BY TotalSame
<1> QED
  BY <1>1, TotalTake

LEMMA TotalLeq ==
    ASSUME NEW S, IsFiniteSet(S), NEW f, NEW g,
           \A x \in S : f[x] \in Nat /\ g[x] \in Nat /\ f[x] <= g[x]
    PROVE  Total(f, S) <= Total(g, S)
<1>1. Points(f, S) \subseteq Points(g, S)
  BY DEF Points
<1> QED
  BY <1>1, PointsFinite, FS_Subset DEF Total

LEMMA TotalMore ==
    ASSUME NEW S, IsFiniteSet(S), NEW T, T \subseteq S, NEW f, \A x \in S : f[x] \in Nat
    PROVE  Total(f, T) <= Total(f, S)
<1>1. Points(f, T) \subseteq Points(f, S)
  BY DEF Points
<1> QED
  BY <1>1, PointsFinite, FS_Subset DEF Total

LEMMA TotalZero ==
    ASSUME NEW S, NEW f, \A x \in S : f[x] = 0
    PROVE  Total(f, S) = 0
<1>1. Points(f, S) = {}
  BY DEF Points
<1> QED
  BY <1>1, FS_EmptySet DEF Total

(* The recursion has one solution.                                         *)
LEMMA TotalSumsUp ==
    ASSUME NEW S, IsFiniteSet(S), NEW f, \A x \in S : f[x] \in Nat
    PROVE  SumsUp([s \in SUBSET S |-> Total(f, s)], f, S)
<1> DEFINE h == [s \in SUBSET S |-> Total(f, s)]
<1>1. ASSUME NEW s \in SUBSET S
      PROVE  h[s] = IF s = {} THEN 0
                    ELSE LET x == CHOOSE x \in s : TRUE IN f[x] + h[s \ {x}]
  <2>1. CASE s = {}
    BY <2>1, TotalEmpty
  <2>2. CASE s # {}
    <3> DEFINE x == CHOOSE x \in s : TRUE
    <3>1. x \in s /\ s \ {x} \in SUBSET S
      BY <2>2
    <3>2. IsFiniteSet(s) /\ \A y \in s : f[y] \in Nat
      BY FS_Subset
    <3>3. Total(f, s) = f[x] + Total(f, s \ {x})
      BY <3>1, <3>2, TotalTake
    <3> QED
      BY <2>2, <3>1, <3>3
  <2> QED
    BY <2>1, <2>2
<1> DEFINE r == [s \in SUBSET S |-> IF s = {} THEN 0
                                   ELSE LET x == CHOOSE x \in s : TRUE
                                        IN f[x] + h[s \ {x}]]
<1>2. \A s \in SUBSET S : h[s] = r[s]
  BY <1>1
<1>3. h = r
  BY <1>2, Zenon
<1> QED
  BY <1>3 DEF SumsUp

LEMMA SumsUpOnce ==
    ASSUME NEW S, IsFiniteSet(S), NEW f, NEW g, NEW h, SumsUp(g, f, S), SumsUp(h, f, S)
    PROVE  g = h
<1> DEFINE Differ == {s \in SUBSET S : g[s] # h[s]}
<1>1. SUFFICES ASSUME Differ # {} PROVE FALSE
  BY DEF SumsUp
<1>2. /\ IsWellFoundedOn(StrictSubsetOrdering(S), FiniteSubsetsOf(S))
      /\ FiniteSubsetsOf(S) = SUBSET S
  BY FS_StrictSubsetOrderingWellFounded, FS_FiniteSubsetsOfFinite
<1>3. PICK s \in Differ : \A t \in Differ : ~ (<<t, s>> \in StrictSubsetOrdering(S))
  <2> DEFINE R == StrictSubsetOrdering(S)
             U == SUBSET S
  <2>1. IsWellFoundedOn(R, U) /\ Differ \subseteq U
    BY <1>2
  <2> HIDE DEF R, U, Differ
  <2>2. \E s \in Differ : \A t \in Differ : ~ (<<t, s>> \in R)
    BY <1>1, <2>1, WFMin, Zenon
  <2> QED
    BY <2>2 DEF R
<1>4. CASE s = {}
  BY <1>3, <1>4 DEF SumsUp
<1>5. CASE s # {}
  <2> DEFINE x == CHOOSE x \in s : TRUE
  <2>1. x \in s /\ s \ {x} \in SUBSET S
    BY <1>5
  <2>2. <<s \ {x}, s>> \in StrictSubsetOrdering(S)
    BY <1>3, <2>1 DEF StrictSubsetOrdering
  <2>3. g[s \ {x}] = h[s \ {x}]
    BY <1>3, <2>1, <2>2
  <2>4. g[s] = f[x] + g[s \ {x}] /\ h[s] = f[x] + h[s \ {x}]
    BY <1>3, <1>5 DEF SumsUp
  <2> QED
    BY <1>3, <2>3, <2>4
<1> QED
  BY <1>4, <1>5

LEMMA TheSum ==
    ASSUME NEW S, IsFiniteSet(S), NEW f, \A x \in S : f[x] \in Nat
    PROVE  (CHOOSE g : SumsUp(g, f, S))[S] = Total(f, S)
<1> DEFINE h == [s \in SUBSET S |-> Total(f, s)]
<1>1. SumsUp(h, f, S)
  BY TotalSumsUp
<1>2. \A g : SumsUp(g, f, S) => g = h
  BY <1>1, SumsUpOnce
<1> HIDE DEF h
<1>3. (CHOOSE g : SumsUp(g, f, S)) = h
  BY <1>1, <1>2
<1> QED
  BY <1>3 DEF h

-----------------------------------------------------------------------------
(* Rate limits.                                                            *)

LimitRow == [count: Nat \ {0}, left: -1 .. Window, ends: BOOLEAN]
LimitCall == [client: Client \cup {Nobody}, key: Address \cup {Nobody}, readable: BOOLEAN,
              count: Nat, limit: Nat, allowed: BOOLEAN]
LimitHeader == [xff: Seq(Address), readable: BOOLEAN, real: Address \cup {Nobody}]

LimitTyped ==
    /\ limit_world \in LimitWorlds /\ limit \in Limit
    /\ store \in [Address -> LimitRow \cup {NoWindow}]
    /\ gate \in [Process -> {"idle", "incr", "expire", "told"}]
    /\ call \in [Process -> LimitCall]
    /\ \A w \in Process : gate[w] \in {"incr", "expire"} => call[w].key \in Address

(* In memory every window has an end.  In Redis one that has none yet is   *)
(* new, and the request that began it is about to set its end.             *)
LimitInv ==
    /\ LimitTyped
    /\ limit_world.backend = "memory" =>
         /\ \A k \in Address : store[k] # NoWindow => store[k].ends
         /\ \A w \in Process : gate[w] # "expire"
    /\ limit_world.backend = "redis" =>
         \A k \in Address : store[k] # NoWindow => store[k].left >= 0
    /\ limit_world.backend = "redis" /\ Limits!Uninterrupted =>
         /\ \A k \in Address : store[k] # NoWindow /\ ~store[k].ends =>
              \E w \in Process : gate[w] = "expire" /\ call[w].key = k
         /\ \A w \in Process : gate[w] = "expire" =>
              store[call[w].key] # NoWindow /\ store[call[w].key].left = Window

LEMMA LimitFacts ==
    /\ Client \subseteq Address /\ Proxy \in Address /\ Headers \subseteq LimitHeader
    /\ Nobody \notin Address
    /\ Window \in Nat \ {0} /\ Limit \subseteq Nat
    /\ \A r \in LimitRow : r # NoWindow
    /\ \A c, n : c \in Nat /\ n \in Nat => [count |-> c, left |-> n] # NoWindow
    /\ \A x \in LimitWorlds : /\ x.backend \in {"memory", "redis"} /\ x.proxies \in 0 .. 2
                             /\ x.real \in {"set", "removed", "passed"}
<1>1. /\ Client \subseteq Address /\ Proxy \in Address /\ Headers \subseteq LimitHeader
      /\ Nobody \notin Address
      /\ Window \in Nat \ {0} /\ Limit \subseteq Nat
      /\ \A x \in LimitWorlds : /\ x.backend \in {"memory", "redis"} /\ x.proxies \in 0 .. 2
                               /\ x.real \in {"set", "removed", "passed"}
      /\ NoWindow \notin [count: Nat, left: Int, ends: BOOLEAN] \cup [count: Nat, left: Int]
  BY PlatformConstants DEF Limits!LimitConstants, LimitHeader
<1>2. \A r \in LimitRow : r \in [count: Nat, left: Int, ends: BOOLEAN]
  BY <1>1 DEF LimitRow
<1>3. \A c, n : c \in Nat /\ n \in Nat => [count |-> c, left |-> n] \in [count: Nat, left: Int]
  OBVIOUS
<1> QED
  BY <1>1, <1>2, <1>3

(* What the headers say when they reach the server: Forwarded, case by     *)
(* case.                                                                   *)
LEMMA ForwardedTo ==
    ASSUME LimitTyped, NEW c \in Client, NEW h \in Headers
    PROVE  LET n == limit_world.proxies
               f == Limits!Forwarded(c, h)
           IN  /\ n \in 0 .. 2 /\ h \in LimitHeader /\ c \in Address /\ Proxy \in Address
               /\ f.readable = h.readable /\ f.real \in Address \cup {Nobody}
               /\ f.xff \in Seq(Address)
               /\ n = 1 => f.xff = Append(h.xff, c)
               /\ n = 2 => f.xff = h.xff \o <<c, Proxy>>
               /\ n = 1 /\ limit_world.real = "set" => f.real = c
               /\ n # 0 /\ limit_world.real # "passed" => f.real \in {c, Proxy, Nobody}
<1> DEFINE n == limit_world.proxies
           f == Limits!Forwarded(c, h)
<1>1. /\ n \in 0 .. 2 /\ h \in LimitHeader /\ c \in Address /\ Proxy \in Address
      /\ limit_world.real \in {"set", "removed", "passed"}
  BY LimitFacts DEF LimitTyped
<1>2. h.xff \in Seq(Address) /\ h.real \in Address \cup {Nobody}
  BY <1>1 DEF LimitHeader
<1>3. /\ f.readable = h.readable
      /\ f.xff = CASE n = 0 -> h.xff
                   [] n = 1 -> Append(h.xff, c)
                   [] n = 2 -> h.xff \o <<c, Proxy>>
      /\ f.real = CASE n = 0 \/ limit_world.real = "passed" -> h.real
                    [] n > 0 /\ limit_world.real = "removed" -> Nobody
                    [] n > 0 /\ limit_world.real = "set" -> IF n = 1 THEN c ELSE Proxy
  BY DEF Limits!Forwarded
<1> HIDE DEF f, n
<1>4. (n = 0 => f.xff = h.xff) /\ (n = 1 => f.xff = Append(h.xff, c))
      /\ (n = 2 => f.xff = h.xff \o <<c, Proxy>>)
  BY <1>1, <1>3
<1>5. f.xff \in Seq(Address)
  <2>1. CASE n = 0
    BY <1>2, <1>4, <2>1
  <2>2. CASE n = 1
    BY <1>1, <1>2, <1>4, <2>2
  <2>3. CASE n = 2
    <3>1. \A a \in Seq(Address) : a \o <<c, Proxy>> \in Seq(Address)
      BY <1>1
    <3> QED
      BY <1>2, <1>4, <2>3, <3>1
  <2> QED
    BY <1>1, <2>1, <2>2, <2>3
<1>6. /\ n = 0 \/ limit_world.real = "passed" => f.real = h.real
      /\ n # 0 /\ limit_world.real = "removed" => f.real = Nobody
      /\ n # 0 /\ limit_world.real = "set" => f.real = IF n = 1 THEN c ELSE Proxy
  BY <1>1, <1>3
<1> QED
  BY <1>1, <1>2, <1>3, <1>4, <1>5, <1>6 DEF f, n

(* The key a request is counted by is an address, and whose.               *)
LEMMA OnesKey ==
    ASSUME LimitTyped, NEW c \in Client, NEW h \in Headers
    PROVE  /\ Limits!KeyFor(c, h) \in Address
           /\ \/ h.readable \/ limit_world.proxies = 0
              \/ limit_world.proxies = 1 /\ limit_world.real = "set"
              => Limits!KeyFor(c, h) = c
           /\ limit_world.real # "passed" => Limits!KeyFor(c, h) \in {c, Proxy}
<1> DEFINE n == limit_world.proxies
           f == Limits!Forwarded(c, h)
           ip == Limits!extract_client_ip(f, n)
           key == Limits!KeyFor(c, h)
<1>1. /\ n \in 0 .. 2 /\ h \in LimitHeader /\ c \in Address /\ Proxy \in Address
      /\ f.readable = h.readable /\ f.real \in Address \cup {Nobody}
      /\ f.xff \in Seq(Address)
      /\ n = 1 => f.xff = Append(h.xff, c)
      /\ n = 2 => f.xff = h.xff \o <<c, Proxy>>
      /\ n = 1 /\ limit_world.real = "set" => f.real = c
      /\ n # 0 /\ limit_world.real # "passed" => f.real \in {c, Proxy, Nobody}
  BY ForwardedTo
<1>2. key = IF ip = Nobody THEN Limits!Peer(c) ELSE ip
  BY DEF Limits!KeyFor
<1>3. h.xff \in Seq(Address) /\ h.readable \in BOOLEAN /\ c # Nobody /\ Proxy # Nobody
  BY <1>1, LimitFacts DEF LimitHeader
<1>4. CASE n = 0
  <2>1. ip = Nobody /\ Limits!Peer(c) = c
    BY <1>4 DEF Limits!extract_client_ip, Limits!Peer
  <2> HIDE DEF ip, n, key
  <2> QED
    BY <1>1, <1>2, <2>1 DEF key, n
<1>5. CASE n # 0
  <2>1. Limits!Peer(c) = Proxy /\ n \in 1 .. 2
    BY <1>1, <1>5 DEF Limits!Peer
  <2>2. f.xff # <<>> /\ Len(f.xff) \in Nat /\ Len(f.xff) >= n
        /\ f.xff[Len(f.xff) - n + 1] = c
    <3> HIDE DEF f, n
    <3>1. CASE n = 1
      <4>1. Len(f.xff) = Len(h.xff) + 1 /\ f.xff[Len(h.xff) + 1] = c /\ Len(h.xff) \in Nat
        BY <1>1, <1>3, <3>1
      <4> QED
        BY <1>1, <3>1, <4>1
    <3>2. CASE n = 2
      <4>1. Len(f.xff) = Len(h.xff) + 2 /\ f.xff[Len(h.xff) + 1] = c /\ Len(h.xff) \in Nat
        BY <1>1, <1>3, <3>2
      <4> QED
        BY <1>1, <3>2, <4>1
    <3> QED
      BY <2>1, <3>1, <3>2
  <2>3. (h.readable => ip = c) /\ (~h.readable => ip = f.real)
    <3> HIDE DEF f, n
    <3>1. h.readable => ip = f.xff[IF Len(f.xff) >= n THEN Len(f.xff) - n + 1 ELSE 1]
      BY <1>1, <1>3, <2>1, <2>2 DEF Limits!extract_client_ip
    <3>2. ~h.readable => ip = f.real
      BY <1>1, <1>3, <2>1 DEF Limits!extract_client_ip
    <3> QED
      BY <2>2, <3>1, <3>2
  <2> HIDE DEF ip, f, n, key
  <2>4. key = (IF ip = Nobody THEN Proxy ELSE ip)
    BY <1>2, <2>1
  <2>5. CASE h.readable
    BY <1>1, <1>3, <2>3, <2>4, <2>5 DEF key
  <2>6. CASE ~h.readable
    <3>1. key = (IF f.real = Nobody THEN Proxy ELSE f.real)
      BY <2>3, <2>4, <2>6
    <3>2. key \in Address /\ (n = 1 /\ limit_world.real = "set" => key = c)
          /\ (limit_world.real # "passed" => key \in {c, Proxy})
      BY <1>1, <1>3, <1>5, <3>1
    <3> QED
      BY <1>5, <2>6, <3>2 DEF key, n
  <2> QED
    BY <2>5, <2>6
<1> QED
  BY <1>4, <1>5

LEMMA MaxOfTwo == \A n \in Int : n >= -1 => Limits!Max({-1, n}) = n
<1> SUFFICES ASSUME NEW n \in Int, n >= -1 PROVE Limits!Max({-1, n}) = n
  OBVIOUS
<1>1. n \in {-1, n} /\ \A y \in {-1, n} : n >= y
  OBVIOUS
<1>2. \A x \in {-1, n} : (\A y \in {-1, n} : x >= y) => x = n
  OBVIOUS
<1> QED
  BY <1>1, <1>2 DEF Limits!Max
LEMMA IdleCall == Limits!Idle \in LimitCall
  BY DEF Limits!Idle, LimitCall

(* A step that leaves the stored windows alone, and begins or gives up no  *)
(* EXPIRE.                                                                 *)
LEMMA StoreKept ==
    ASSUME LimitInv, LimitTyped', UNCHANGED <<limit_world, store>>, NEW w \in Process,
           \A x \in Process \ {w} : gate'[x] = gate[x] /\ call'[x] = call[x],
           gate'[w] # "expire",
           gate[w] = "expire" => limit_world.backend = "redis" /\ ~Limits!Uninterrupted
    PROVE  LimitInv' /\ Limits!WindowStep
<1>1. UNCHANGED Limits!Windows
  BY DEF Limits!Windows
<1>2. Limits!Uninterrupted' = Limits!Uninterrupted
  BY DEF Limits!Uninterrupted, Limits!May
<1>3. ASSUME limit_world.backend = "redis", Limits!Uninterrupted
      PROVE  /\ \A k \in Address : store[k] # NoWindow /\ ~store[k].ends =>
                  \E x \in Process : gate'[x] = "expire" /\ call'[x].key = k
             /\ \A x \in Process : gate'[x] = "expire" =>
                  store[call'[x].key] # NoWindow /\ store[call'[x].key].left = Window
  BY <1>3 DEF LimitInv
<1> QED
  BY <1>1, <1>2, <1>3 DEF LimitInv, Limits!WindowStep

LEMMA WaitingSteps ==
    ASSUME LimitInv, NEW w \in Process,
           \/ \E c \in Client, h \in Headers : Limits!Request(w, c, h)
           \/ Limits!Return(w) \/ Limits!FailClosed(w)
    PROVE  LimitInv' /\ Limits!WindowStep
<1>a. LimitTyped /\ w \in Process /\ UNCHANGED <<limit_world, limit, store>>
  BY DEF LimitInv, Limits!Request, Limits!Return, Limits!FailClosed
<1>1. CASE \E c \in Client, h \in Headers : Limits!Request(w, c, h)
  <2>1. PICK c \in Client, h \in Headers : Limits!Request(w, c, h)
    BY <1>1
  <2> DEFINE key == Limits!KeyFor(c, h)
             r == [Limits!Idle EXCEPT !.client = c, !.key = key, !.readable = h.readable,
                                      !.limit = limit]
  <2>2. key \in Address /\ h.readable \in BOOLEAN
    BY <1>a, OnesKey, LimitFacts DEF LimitHeader
  <2>3. gate[w] = "idle" /\ gate' = [gate EXCEPT ![w] = "incr"] /\ call' = [call EXCEPT ![w] = r]
    BY <2>1 DEF Limits!Request
  <2> HIDE DEF key
  <2>4. r \in LimitCall /\ r.key = key
    BY <2>2, <1>a, LimitFacts DEF Limits!Idle, LimitCall, LimitTyped
  <2> HIDE DEF r
  <2>5. LimitTyped'
    BY <1>a, <2>2, <2>3, <2>4 DEF LimitTyped
  <2>6. gate'[w] = "incr" /\ \A x \in Process \ {w} : gate'[x] = gate[x] /\ call'[x] = call[x]
    BY <1>a, <2>3 DEF LimitTyped
  <2> QED
    BY <1>a, <2>3, <2>5, <2>6, StoreKept
<1>2. CASE Limits!Return(w) \/ Limits!FailClosed(w)
  <2>1. gate' = [gate EXCEPT ![w] = "idle"] /\ call' = [call EXCEPT ![w] = Limits!Idle]
    BY <1>2 DEF Limits!Return, Limits!FailClosed
  <2>2. LimitTyped'
    BY <1>a, <2>1, IdleCall DEF LimitTyped
  <2>3. gate'[w] = "idle" /\ \A x \in Process \ {w} : gate'[x] = gate[x] /\ call'[x] = call[x]
    BY <1>a, <2>1 DEF LimitTyped
  <2>4. gate[w] = "expire" => limit_world.backend = "redis" /\ ~Limits!Uninterrupted
    BY <1>2 DEF Limits!Return, Limits!FailClosed, Limits!Uninterrupted
  <2> QED
    BY <1>a, <2>2, <2>3, <2>4, StoreKept
<1> QED
  BY <1>1, <1>2

LEMMA ConfigureSteps ==
    ASSUME LimitInv, NEW n \in Limit, Limits!Configure(n)
    PROVE  LimitInv' /\ Limits!WindowStep
<1>1. UNCHANGED <<limit_world, store, gate, call>> /\ limit' = n
  BY DEF Limits!Configure
<1>2. UNCHANGED Limits!Windows
  BY <1>1 DEF Limits!Windows
<1> QED
  BY <1>1, <1>2 DEF LimitInv, LimitTyped, Limits!Uninterrupted, Limits!May, Limits!WindowStep

(* One window is counted up.                                               *)
LEMMA OneWindow ==
    ASSUME LimitTyped, NEW k \in Address, NEW r \in LimitRow, store' = [store EXCEPT ![k] = r],
           r.left >= 0,
           r.count = IF store[k] = NoWindow \/ store[k].left < 0 THEN 1 ELSE store[k].count + 1,
           r.left = IF store[k] = NoWindow \/ store[k].left < 0 THEN Window ELSE store[k].left
    PROVE  Limits!WindowStep
<1> DEFINE W == Limits!Windows
<1>1. r.count \in Nat /\ r.left \in Nat /\ r # NoWindow /\ ~(r.left < 0)
  BY LimitFacts DEF LimitRow
<1>2. \A x \in Address : W[x] = IF store[x] = NoWindow \/ store[x].left < 0 THEN NoWindow
                                ELSE [count |-> store[x].count, left |-> store[x].left]
  BY DEF Limits!Windows
<1>3. r.count = Limits!Promise!Count(k) /\ r.left = Limits!Promise!Left(k)
  <2>1. CASE store[k] = NoWindow \/ store[k].left < 0
    BY <1>2, <2>1 DEF Limits!Promise!Count, Limits!Promise!Left
  <2>2. CASE ~(store[k] = NoWindow \/ store[k].left < 0)
    <3>1. store[k] \in LimitRow
      BY <2>2 DEF LimitTyped
    <3>2. W[k] = [count |-> store[k].count, left |-> store[k].left] /\ W[k] # NoWindow
      <4>1. store[k].count \in Nat /\ store[k].left \in Nat
        BY <2>2, <3>1, LimitFacts DEF LimitRow
      <4>2. W[k] = [count |-> store[k].count, left |-> store[k].left]
        BY <1>2, <2>2
      <4> QED
        BY <4>1, <4>2, LimitFacts
    <3> HIDE DEF W
    <3> QED
      BY <3>2, <2>2 DEF Limits!Promise!Count, Limits!Promise!Left, W
  <2> QED
    BY <2>1, <2>2
<1>4. Limits!Windows' = [Limits!Windows EXCEPT ![k] = [count |-> r.count, left |-> r.left]]
  <2>1. store'[k] = r /\ \A x \in Address \ {k} : store'[x] = store[x]
    BY DEF LimitTyped
  <2>2. Limits!Windows' = [x \in Address |-> IF store'[x] = NoWindow \/ store'[x].left < 0
                                               THEN NoWindow
                                             ELSE [count |-> store'[x].count,
                                                   left |-> store'[x].left]]
    BY DEF Limits!Windows
  <2>3. Limits!Windows = [x \in Address |-> IF store[x] = NoWindow \/ store[x].left < 0
                                              THEN NoWindow
                                            ELSE [count |-> store[x].count, left |-> store[x].left]]
    BY DEF Limits!Windows
  <2> QED
    BY <1>1, <2>1, <2>2, <2>3
<1>5. Limits!Promise!Check(k)
  BY <1>3, <1>4 DEF Limits!Promise!Check
<1> QED
  BY <1>5 DEF Limits!WindowStep, Limits!Promise!Next

(* Being told the outcome.                                                 *)
LEMMA ToldTyped ==
    ASSUME LimitTyped, NEW w \in Process, NEW n \in Nat, Limits!Tell(w, n)
    PROVE  /\ gate' \in [Process -> {"idle", "incr", "expire", "told"}]
           /\ call' \in [Process -> LimitCall]
           /\ gate'[w] = "told"
           /\ \A x \in Process \ {w} : gate'[x] = gate[x] /\ call'[x] = call[x]
<1>1. call[w] \in LimitCall
  BY DEF LimitTyped
<1> DEFINE r == [call[w] EXCEPT !.allowed = n <= call[w].limit]
<1>2. r \in LimitCall
  <2>1. (n <= call[w].limit) \in BOOLEAN
    <3>1. call[w].limit \in Nat
      BY <1>1 DEF LimitCall
    <3> QED
      BY <3>1
  <2>2. \A b \in BOOLEAN : [call[w] EXCEPT !.allowed = b] \in LimitCall
    BY <1>1 DEF LimitCall
  <2> QED
    BY <2>1, <2>2, Zenon
<1>3. call' = [call EXCEPT ![w] = r] /\ gate' = [gate EXCEPT ![w] = "told"]
  BY <1>1 DEF Limits!Tell, LimitTyped
<1> HIDE DEF r
<1> QED
  BY <1>2, <1>3 DEF LimitTyped

LEMMA CheckSteps ==
    ASSUME LimitInv, NEW w \in Process, Limits!Check(w)
    PROVE  LimitInv' /\ Limits!WindowStep
<1> DEFINE k == call[w].key
           e == IF store[k] = NoWindow \/ store[k].left < 0
                  THEN [count |-> 0, left |-> Window, ends |-> TRUE]
                ELSE store[k]
           r == [e EXCEPT !.count = e.count + 1]
<1>a. /\ LimitTyped /\ k \in Address /\ limit_world.backend = "memory"
      /\ UNCHANGED <<limit_world, limit>> /\ store[k] \in LimitRow \cup {NoWindow}
  BY DEF LimitInv, LimitTyped, Limits!Check
<1>1. /\ e \in [count: Nat, left: -1 .. Window, ends: BOOLEAN]
      /\ e.left >= 0 /\ e.ends
  BY <1>a, LimitFacts DEF LimitRow, LimitInv
<1>2. store' = [store EXCEPT ![k] = r] /\ Limits!Tell(w, e.count + 1) /\ e.count + 1 \in Nat
  BY <1>1 DEF Limits!Check, LimitRow
<1>c. e.count = (IF store[k] = NoWindow \/ store[k].left < 0 THEN 0 ELSE store[k].count)
      /\ e.left = (IF store[k] = NoWindow \/ store[k].left < 0 THEN Window ELSE store[k].left)
  OBVIOUS
<1> HIDE DEF e
<1>3. r \in LimitRow /\ r.left = e.left /\ r.count = e.count + 1 /\ r.ends
  BY <1>1 DEF LimitRow
<1>d. /\ r.count = IF store[k] = NoWindow \/ store[k].left < 0 THEN 1 ELSE store[k].count + 1
      /\ r.left = IF store[k] = NoWindow \/ store[k].left < 0 THEN Window ELSE store[k].left
      /\ r.left >= 0
  BY <1>1, <1>c, <1>3
<1> HIDE DEF r, k
<1>4. Limits!WindowStep
  BY <1>a, <1>d, <1>2, <1>3, OneWindow
<1>5. gate'[w] = "told" /\ \A x \in Process \ {w} : gate'[x] = gate[x] /\ call'[x] = call[x]
  BY <1>a, <1>2, ToldTyped
<1>6. LimitTyped'
  <2>1. store' \in [Address -> LimitRow \cup {NoWindow}]
    BY <1>a, <1>2, <1>3 DEF LimitTyped
  <2>2. /\ gate' \in [Process -> {"idle", "incr", "expire", "told"}]
        /\ call' \in [Process -> LimitCall]
    BY <1>a, <1>2, ToldTyped
  <2> QED
    BY <1>a, <1>5, <2>1, <2>2 DEF LimitTyped
<1>7. \A x \in Address : store'[x] # NoWindow => store'[x].ends
  BY <1>a, <1>2, <1>3 DEF LimitInv, LimitTyped
<1> QED
  BY <1>a, <1>4, <1>5, <1>6, <1>7 DEF LimitInv

LEMMA ForgettingSteps ==
    ASSUME LimitInv, Limits!Sweep \/ Limits!Restart
    PROVE  LimitInv' /\ Limits!WindowStep
<1>a. LimitTyped /\ UNCHANGED <<limit_world, limit>>
  BY DEF LimitInv, Limits!Sweep, Limits!Restart
<1>1. CASE Limits!Sweep
  <2> DEFINE over == {k \in Address : store[k] # NoWindow /\ store[k].left <= 0}
  <2>1. /\ store' = [k \in Address |-> IF k \in over THEN NoWindow ELSE store[k]]
        /\ UNCHANGED <<gate, call>> /\ limit_world.backend = "memory"
    BY <1>1 DEF Limits!Sweep
  <2>2. LimitInv'
    BY <1>a, <2>1 DEF LimitInv, LimitTyped
  <2>3. Limits!Promise!Close
    <3> DEFINE W == Limits!Windows
               ended == {k \in Address : W[k] # NoWindow /\ W[k].left = 0}
    <3>1. \A k \in Address : W[k] = IF store[k] = NoWindow \/ store[k].left < 0 THEN NoWindow
                                    ELSE [count |-> store[k].count, left |-> store[k].left]
      BY DEF Limits!Windows
    <3>2. \A k \in Address : store[k] = NoWindow \/ store[k] \in LimitRow
      BY <1>a DEF LimitTyped
    <3>3. ASSUME NEW k \in Address 
          PROVE  k \in over <=> (W[k] = NoWindow /\ store[k] # NoWindow) \/ k \in ended
      <4>1. CASE store[k] = NoWindow
        BY <3>1, <4>1
      <4>2. CASE store[k] # NoWindow
        <5>1. store[k].count \in Nat /\ store[k].left \in -1 .. Window
          BY <3>2, <4>2 DEF LimitRow
        <5>2. CASE store[k].left < 0
          <6>1. k \in over
            BY <4>2, <5>1, <5>2, LimitFacts
          <6>2. W[k] = NoWindow
            BY <3>1, <5>2
          <6> HIDE DEF W, over
          <6> QED
            BY <4>2, <6>1, <6>2
        <5>3. CASE store[k].left >= 0
          <6>1. store[k].left \in Nat
            BY <5>1, <5>3, LimitFacts
          <6>2. W[k] = [count |-> store[k].count, left |-> store[k].left] /\ W[k] # NoWindow
            BY <3>1, <4>2, <5>1, <5>3, <6>1, LimitFacts
          <6> HIDE DEF W
          <6> QED
            BY <4>2, <5>3, <6>1, <6>2
        <5> QED
          BY <5>1, <5>2, <5>3, LimitFacts
      <4> QED
        BY <4>1, <4>2
    <3>5. Limits!Windows' = [k \in Address |-> IF k \in ended THEN NoWindow ELSE W[k]]
      <4>1. Limits!Windows' = [k \in Address |->
                                 IF store'[k] = NoWindow \/ store'[k].left < 0 THEN NoWindow
                                 ELSE [count |-> store'[k].count, left |-> store'[k].left]]
        BY DEF Limits!Windows
      <4> QED
        BY <4>1, <3>1, <3>3, <2>1
    <3> QED
      BY <3>5 DEF Limits!Promise!Close
  <2> QED
    BY <2>2, <2>3 DEF Limits!WindowStep, Limits!Promise!Next
<1>2. CASE Limits!Restart
  <2>1. /\ store' = IF limit_world.backend = "memory" THEN [k \in Address |-> NoWindow] ELSE store
        /\ gate' = [w \in Process |-> "idle"] /\ call' = [w \in Process |-> Limits!Idle]
        /\ Limits!May("restart")
    BY <1>2 DEF Limits!Restart
  <2>2. LimitTyped'
    BY <1>a, <2>1, IdleCall DEF LimitTyped
  <2>3. Limits!Uninterrupted => limit_world.backend = "memory"
    BY <1>a, <2>1, LimitFacts DEF Limits!Uninterrupted, LimitTyped
  <2>4. LimitInv'
    BY <1>a, <2>1, <2>2, <2>3 DEF LimitInv, Limits!Uninterrupted, Limits!May
  <2>5. limit_world.backend = "memory" => Limits!Promise!Forget
    BY <2>1 DEF Limits!Promise!Forget, Limits!Windows
  <2> QED
    BY <2>1, <2>3, <2>4, <2>5 DEF Limits!WindowStep, Limits!Uninterrupted
<1> QED
  BY <1>1, <1>2

LEMMA IncrSteps ==
    ASSUME LimitInv, NEW w \in Process, Limits!Incr(w)
    PROVE  LimitInv' /\ Limits!WindowStep
<1> DEFINE k == call[w].key
           n == IF store[k] = NoWindow THEN 1 ELSE store[k].count + 1
           r == IF store[k] = NoWindow THEN [count |-> 1, left |-> Window, ends |-> FALSE]
                ELSE [store[k] EXCEPT !.count = n]
<1>a. /\ LimitTyped /\ k \in Address /\ limit_world.backend = "redis" /\ gate[w] = "incr"
      /\ UNCHANGED <<limit_world, limit>> /\ store[k] \in LimitRow \cup {NoWindow}
      /\ call[w] \in LimitCall
  BY DEF LimitInv, LimitTyped, Limits!Incr
<1>1. n \in Nat /\ (store[k] # NoWindow => store[k].left >= 0 /\ store[k] \in LimitRow)
  BY <1>a DEF LimitRow, LimitInv
<1>2. store' = [store EXCEPT ![k] = r]
  BY <1>a DEF Limits!Incr, LimitTyped
<1>3. /\ r \in LimitRow /\ r.count = n
      /\ store[k] = NoWindow => r.left = Window /\ ~r.ends
      /\ store[k] # NoWindow => r.left = store[k].left /\ r.ends = store[k].ends
  <2>1. CASE store[k] = NoWindow
    BY <2>1, LimitFacts DEF LimitRow
  <2>2. CASE store[k] # NoWindow
    BY <2>2, <1>1 DEF LimitRow
  <2> QED
    BY <2>1, <2>2
<1>d. /\ r.left >= 0
      /\ r.count = IF store[k] = NoWindow \/ store[k].left < 0 THEN 1 ELSE store[k].count + 1
      /\ r.left = IF store[k] = NoWindow \/ store[k].left < 0 THEN Window ELSE store[k].left
  <2> HIDE DEF r
  <2>1. CASE store[k] = NoWindow
    BY <1>3, <2>1, LimitFacts
  <2>2. CASE store[k] # NoWindow
    <3>1. store[k].left \in Int /\ ~(store[k].left < 0)
      BY <1>1, <2>2 DEF LimitRow
    <3> QED
      BY <1>1, <1>3, <2>2, <3>1
  <2> QED
    BY <2>1, <2>2
<1>4. Limits!WindowStep /\ r # NoWindow
  <2> HIDE DEF r, k
  <2> QED
    BY <1>a, <1>d, <1>2, <1>3, OneWindow, LimitFacts
<1>5. CASE store[k] = NoWindow
  <2>1. n = 1
    BY <1>5
  <2> DEFINE g == [call[w] EXCEPT !.count = n]
  <2>2. g \in LimitCall /\ g.key = k
    BY <1>a, <1>1 DEF LimitCall
  <2>3. gate' = [gate EXCEPT ![w] = "expire"] /\ call' = [call EXCEPT ![w] = g]
    BY <2>1, <1>a DEF Limits!Incr, LimitTyped
  <2> HIDE DEF g
  <2>4. /\ gate' \in [Process -> {"idle", "incr", "expire", "told"}]
        /\ call' \in [Process -> LimitCall]
        /\ gate'[w] = "expire" /\ call'[w].key = k
        /\ \A x \in Process \ {w} : gate'[x] = gate[x] /\ call'[x] = call[x]
    BY <2>2, <2>3, <1>a DEF LimitTyped
  <2>5. /\ store' \in [Address -> LimitRow \cup {NoWindow}] /\ store'[k] = r
        /\ \A x \in Address \ {k} : store'[x] = store[x]
    BY <1>a, <1>2, <1>3 DEF LimitTyped
  <2>6. LimitTyped'
    BY <1>a, <2>4, <2>5 DEF LimitTyped
  <2>7. r.left = Window /\ ~r.ends /\ r.left >= 0
    BY <1>3, <1>5, <1>d
  <2> HIDE DEF r, k, n
  <2>8. ASSUME Limits!Uninterrupted
        PROVE  /\ \A x \in Address : store'[x] # NoWindow /\ ~store'[x].ends =>
                    \E v \in Process : gate'[v] = "expire" /\ call'[v].key = x
               /\ \A v \in Process : gate'[v] = "expire" =>
                    store'[call'[v].key] # NoWindow /\ store'[call'[v].key].left = Window
    <3>1. ASSUME NEW x \in Address, store'[x] # NoWindow, ~store'[x].ends
          PROVE  \E v \in Process : gate'[v] = "expire" /\ call'[v].key = x
      <4>1. CASE x = k
        BY <4>1, <2>4
      <4>2. CASE x # k
        <5>1. PICK v \in Process : gate[v] = "expire" /\ call[v].key = x
          BY <1>a, <2>5, <2>8, <3>1, <4>2 DEF LimitInv
        <5> QED
          BY <5>1, <1>a, <2>4
      <4> QED
        BY <4>1, <4>2
    <3>2. ASSUME NEW v \in Process, gate'[v] = "expire"
          PROVE  store'[call'[v].key] # NoWindow /\ store'[call'[v].key].left = Window
      <4>1. CASE v = w
        BY <4>1, <2>4, <2>5, <2>7, <1>4
      <4>2. CASE v # w
        <5>1. gate[v] = "expire" /\ call'[v] = call[v]
          BY <3>2, <4>2, <2>4
        <5>2. /\ call[v].key \in Address /\ store[call[v].key] # NoWindow
              /\ store[call[v].key].left = Window
          BY <5>1, <1>a, <2>8 DEF LimitInv, LimitTyped
        <5> QED
          BY <5>1, <5>2, <1>5, <2>5
      <4> QED
        BY <4>1, <4>2
    <3> QED
      BY <3>1, <3>2
  <2>9. \A x \in Address : store'[x] # NoWindow => store'[x].left >= 0
    BY <1>a, <2>5, <2>7 DEF LimitInv
  <2> QED
    BY <1>a, <1>4, <2>6, <2>8, <2>9 DEF LimitInv, Limits!Uninterrupted, Limits!May
<1>6. CASE store[k] # NoWindow
  <2>1. n # 1
    BY <1>6, <1>1 DEF LimitRow
  <2>2. Limits!Tell(w, n)
    BY <2>1 DEF Limits!Incr
  <2>4. /\ gate' \in [Process -> {"idle", "incr", "expire", "told"}]
        /\ call' \in [Process -> LimitCall]
        /\ gate'[w] = "told"
        /\ \A x \in Process \ {w} : gate'[x] = gate[x] /\ call'[x] = call[x]
    BY <2>2, <1>1, <1>a, ToldTyped
  <2>5. /\ store' \in [Address -> LimitRow \cup {NoWindow}] /\ store'[k] = r
        /\ \A x \in Address \ {k} : store'[x] = store[x]
    BY <1>a, <1>2, <1>3 DEF LimitTyped
  <2>6. LimitTyped'
    BY <1>a, <2>4, <2>5 DEF LimitTyped
  <2>7. r.left = store[k].left /\ r.ends = store[k].ends /\ r.left >= 0
    BY <1>3, <1>6, <1>d
  <2> HIDE DEF r, k, n
  <2>8. \A x \in Address : /\ (store'[x] = NoWindow <=> store[x] = NoWindow)
                           /\ store'[x] # NoWindow => /\ store'[x].left = store[x].left
                                                      /\ store'[x].ends = store[x].ends
    BY <1>4, <1>6, <2>5, <2>7
  <2>9. ASSUME Limits!Uninterrupted
        PROVE  /\ \A x \in Address : store'[x] # NoWindow /\ ~store'[x].ends =>
                    \E v \in Process : gate'[v] = "expire" /\ call'[v].key = x
               /\ \A v \in Process : gate'[v] = "expire" =>
                    store'[call'[v].key] # NoWindow /\ store'[call'[v].key].left = Window
    <3>1. \A x \in Address : store'[x] # NoWindow /\ ~store'[x].ends =>
             \E v \in Process : gate[v] = "expire" /\ call[v].key = x
      <4>1. \A x \in Address : store[x] # NoWindow /\ ~store[x].ends =>
               \E v \in Process : gate[v] = "expire" /\ call[v].key = x
        BY <1>a, <2>9 DEF LimitInv
      <4> QED
        BY <4>1, <2>8
    <3>2. \A v \in Process : gate[v] = "expire" =>
             call[v].key \in Address /\ store[call[v].key] # NoWindow
               /\ store[call[v].key].left = Window
      BY <1>a, <2>9 DEF LimitInv, LimitTyped
    <3>3. \A v \in Process : gate'[v] = "expire" => gate[v] = "expire" /\ call'[v] = call[v]
      BY <2>4
    <3>4. \A v \in Process : gate[v] = "expire" => gate'[v] = "expire" /\ call'[v] = call[v]
      BY <1>a, <2>4
    <3>5. \A x \in Address : store'[x] # NoWindow /\ ~store'[x].ends =>
             \E v \in Process : gate'[v] = "expire" /\ call'[v].key = x
      BY <3>1, <3>4
    <3>6. \A v \in Process : gate'[v] = "expire" =>
             store'[call'[v].key] # NoWindow /\ store'[call'[v].key].left = Window
      BY <3>2, <3>3, <2>8
    <3> QED
      BY <3>5, <3>6
  <2>10. \A x \in Address : store'[x] # NoWindow => store'[x].left >= 0
    <3>1. \A x \in Address : store[x] # NoWindow => store[x].left >= 0
      BY <1>a DEF LimitInv
    <3> QED
      BY <3>1, <2>8
  <2> QED
    BY <1>a, <1>4, <2>6, <2>9, <2>10 DEF LimitInv, Limits!Uninterrupted, Limits!May
<1> QED
  BY <1>5, <1>6


LEMMA ExpireSteps ==
    ASSUME LimitInv, NEW w \in Process, Limits!Expire(w)
    PROVE  LimitInv' /\ Limits!WindowStep
<1> DEFINE k == call[w].key
           r == IF store[k] = NoWindow THEN NoWindow
                ELSE [store[k] EXCEPT !.left = Window, !.ends = TRUE]
<1>a. /\ LimitTyped /\ k \in Address /\ gate[w] = "expire"
      /\ UNCHANGED <<limit_world, limit>> /\ store[k] \in LimitRow \cup {NoWindow}
      /\ call[w] \in LimitCall /\ limit_world.backend = "redis"
  BY LimitFacts DEF LimitInv, LimitTyped, Limits!Expire
<1>1. store' = [store EXCEPT ![k] = r]
  BY <1>a DEF Limits!Expire, LimitTyped
<1>2. /\ (r = NoWindow <=> store[k] = NoWindow)
      /\ r # NoWindow => /\ r \in LimitRow /\ r.left = Window /\ r.ends
                         /\ r.count = store[k].count
  <2>1. CASE store[k] = NoWindow
    BY <2>1
  <2>2. CASE store[k] # NoWindow
    <3>1. store[k] \in LimitRow /\ Window \in -1 .. Window
      BY <2>2, <1>a, LimitFacts
    <3>2. r = [store[k] EXCEPT !.left = Window, !.ends = TRUE]
      BY <2>2
    <3> HIDE DEF r
    <3>3. r \in LimitRow /\ r.left = Window /\ r.ends /\ r.count = store[k].count
      BY <3>1, <3>2 DEF LimitRow
    <3> QED
      BY <2>2, <3>3, LimitFacts
  <2> QED
    BY <2>1, <2>2
<1>3. /\ gate' \in [Process -> {"idle", "incr", "expire", "told"}]
      /\ call' \in [Process -> LimitCall]
      /\ gate'[w] = "told"
      /\ \A x \in Process \ {w} : gate'[x] = gate[x] /\ call'[x] = call[x]
  <2>1. Limits!Tell(w, call[w].count) /\ call[w].count \in Nat
    BY <1>a DEF Limits!Expire, LimitCall
  <2> QED
    BY <2>1, <1>a, ToldTyped
<1>4. /\ store' \in [Address -> LimitRow \cup {NoWindow}] /\ store'[k] = r
      /\ \A x \in Address \ {k} : store'[x] = store[x]
  BY <1>a, <1>1, <1>2 DEF LimitTyped
<1>5. LimitTyped'
  BY <1>a, <1>3, <1>4 DEF LimitTyped
<1> HIDE DEF r
<1>6. \A x \in Address : store'[x] # NoWindow => store'[x].left >= 0
  BY <1>a, <1>2, <1>4, LimitFacts DEF LimitInv
<1>7. ASSUME Limits!Uninterrupted
      PROVE  /\ \A x \in Address : store'[x] # NoWindow /\ ~store'[x].ends =>
                  \E v \in Process : gate'[v] = "expire" /\ call'[v].key = x
             /\ \A v \in Process : gate'[v] = "expire" =>
                  store'[call'[v].key] # NoWindow /\ store'[call'[v].key].left = Window
             /\ UNCHANGED Limits!Windows
  <2>0. store[k] # NoWindow /\ store[k].left = Window
    BY <1>7, <1>a DEF LimitInv
  <2>1. ASSUME NEW x \in Address, store'[x] # NoWindow, ~store'[x].ends
        PROVE  \E v \in Process : gate'[v] = "expire" /\ call'[v].key = x
    <3>1. x # k /\ store'[x] = store[x]
      BY <2>0, <2>1, <1>2, <1>4
    <3>2. PICK v \in Process : gate[v] = "expire" /\ call[v].key = x
      BY <1>a, <1>7, <2>1, <3>1 DEF LimitInv
    <3> QED
      BY <3>1, <3>2, <1>3
  <2>2. ASSUME NEW v \in Process, gate'[v] = "expire"
        PROVE  store'[call'[v].key] # NoWindow /\ store'[call'[v].key].left = Window
    <3>1. gate[v] = "expire" /\ call'[v] = call[v]
      BY <1>3, <2>2
    <3>2. /\ call[v].key \in Address /\ store[call[v].key] # NoWindow
          /\ store[call[v].key].left = Window
      BY <3>1, <1>a, <1>7 DEF LimitInv, LimitTyped
    <3> QED
      BY <3>1, <3>2, <1>2, <1>4
  <2>3. UNCHANGED Limits!Windows
    <3>1. \A x \in Address : /\ (store'[x] = NoWindow <=> store[x] = NoWindow)
                             /\ store'[x] # NoWindow => /\ store'[x].left = store[x].left
                                                        /\ store'[x].count = store[x].count
      BY <2>0, <1>2, <1>4
    <3> QED
      BY <3>1 DEF Limits!Windows
  <2> QED
    BY <2>1, <2>2, <2>3
<1>8. Limits!WindowStep
  BY <1>7 DEF Limits!Uninterrupted, Limits!WindowStep
<1> QED
  BY <1>a, <1>5, <1>6, <1>7, <1>8 DEF LimitInv, Limits!Uninterrupted, Limits!May

(* A tick brings the windows that have an end nearer to it.                *)
LEMMA WindowAges ==
    ASSUME LimitTyped, Limits!Tick, NEW k \in Address
    PROVE  \/ store'[k] = store[k] /\ (store[k] = NoWindow \/ ~store[k].ends)
           \/ /\ store'[k] = NoWindow /\ limit_world.backend = "redis"
              /\ store[k] # NoWindow /\ store[k].left = 0
           \/ /\ store[k] # NoWindow /\ store[k].ends /\ store'[k] \in LimitRow
              /\ store'[k].count = store[k].count /\ store'[k].ends
              /\ store'[k].left = IF store[k].left = -1 THEN -1 ELSE store[k].left - 1
              /\ limit_world.backend = "redis" => store[k].left # 0
<1>1. CASE store[k] = NoWindow \/ (store[k] # NoWindow /\ ~store[k].ends)
  <2>1. store'[k] = store[k]
    BY <1>1 DEF Limits!Tick
  <2> QED
    BY <1>1, <2>1
<1>2. CASE store[k] # NoWindow /\ store[k].ends /\ limit_world.backend = "redis"
           /\ store[k].left = 0
  <2>1. store'[k] = NoWindow
    BY <1>2 DEF Limits!Tick
  <2> QED
    BY <1>2, <2>1
<1>3. CASE store[k] # NoWindow /\ store[k].ends
           /\ ~(limit_world.backend = "redis" /\ store[k].left = 0)
  <2>1. store'[k] = [store[k] EXCEPT !.left = Limits!Max({-1, store[k].left - 1})]
    BY <1>3 DEF Limits!Tick
  <2>2. store[k] \in LimitRow /\ store[k].left \in -1 .. Window
    BY <1>3 DEF LimitTyped, LimitRow
  <2>3. Limits!Max({-1, store[k].left - 1})
          = IF store[k].left = -1 THEN -1 ELSE store[k].left - 1
    <3>1. CASE store[k].left # -1
      <4>1. store[k].left - 1 \in Int /\ store[k].left - 1 >= -1
        BY <2>2, <3>1, LimitFacts
      <4>2. Limits!Max({-1, store[k].left - 1}) = store[k].left - 1
        BY <4>1, MaxOfTwo
      <4> QED
        BY <3>1, <4>2
    <3>2. CASE store[k].left = -1
      <4>1. store[k].left - 1 = -2
        BY <3>2
      <4>2. Limits!Max({-1, -2}) = -1
        <5>1. \A x \in {-1, -2} : (\A y \in {-1, -2} : x >= y) <=> x = -1
          OBVIOUS
        <5> QED
          BY <5>1 DEF Limits!Max
      <4> QED
        BY <3>2, <4>1, <4>2
    <3> QED
      BY <3>1, <3>2
  <2>4. store'[k] = [store[k] EXCEPT !.left = IF store[k].left = -1 THEN -1
                                              ELSE store[k].left - 1]
    BY <2>1, <2>3
  <2> QED
    BY <1>3, <2>2, <2>4, LimitFacts DEF LimitRow
<1> QED
  BY <1>1, <1>2, <1>3

LEMMA TickSteps ==
    ASSUME LimitInv, Limits!Tick
    PROVE  LimitInv' /\ Limits!WindowStep
<1>a. /\ LimitTyped /\ UNCHANGED <<limit_world, limit, gate, call>>
      /\ limit_world.backend \in {"memory", "redis"}
  BY LimitFacts DEF LimitInv, LimitTyped, Limits!Tick
<1>1. ASSUME NEW k \in Address
      PROVE  \/ store'[k] = store[k] /\ (store[k] = NoWindow \/ ~store[k].ends)
             \/ /\ store'[k] = NoWindow /\ limit_world.backend = "redis"
                /\ store[k] # NoWindow /\ store[k].left = 0
             \/ /\ store[k] # NoWindow /\ store[k].ends /\ store'[k] \in LimitRow
                /\ store'[k].count = store[k].count /\ store'[k].ends
                /\ store'[k].left = IF store[k].left = -1 THEN -1 ELSE store[k].left - 1
                /\ limit_world.backend = "redis" => store[k].left # 0
  BY <1>a, <1>1, WindowAges
<1>2. LimitTyped'
  <2>1. \A k \in Address : store'[k] \in LimitRow \cup {NoWindow}
    BY <1>1, <1>a DEF LimitTyped
  <2>2. store' \in [Address -> LimitRow \cup {NoWindow}]
    BY <2>1 DEF Limits!Tick
  <2> QED
    BY <1>a, <2>2 DEF LimitTyped
<1>r. \A k \in Address : store[k] # NoWindow =>
        store[k] \in LimitRow /\ store[k].left \in -1 .. Window /\ store[k].count \in Nat
  BY <1>a DEF LimitTyped, LimitRow
<1>3. limit_world.backend = "memory" => \A k \in Address : store'[k] # NoWindow => store'[k].ends
  BY <1>1 DEF LimitInv
<1>4. limit_world.backend = "redis"
        => \A k \in Address : store'[k] # NoWindow => store'[k].left >= 0
  BY <1>1, <1>r, LimitFacts DEF LimitInv
<1>5. Limits!Uninterrupted => \A w \in Process : gate[w] = "idle"
  BY DEF Limits!Tick, Limits!Uninterrupted
<1>6. Limits!Uninterrupted => \A k \in Address : store[k] # NoWindow => store[k].ends
  BY <1>a, <1>5 DEF LimitInv
<1>7. LimitInv'
  <2>1. Limits!Uninterrupted => \A k \in Address : store'[k] # NoWindow => store'[k].ends
    BY <1>1, <1>6
  <2> QED
    BY <1>a, <1>2, <1>3, <1>4, <1>5, <2>1 DEF LimitInv, Limits!Uninterrupted, Limits!May
<1>8. ASSUME Limits!Uninterrupted PROVE Limits!Promise!Tick
  <2>1. ASSUME NEW k \in Address
        PROVE  Limits!Windows'[k] =
                 IF Limits!Windows[k] = NoWindow \/ Limits!Windows[k].left = 0 THEN NoWindow
                 ELSE [Limits!Windows[k] EXCEPT !.left = Limits!Windows[k].left - 1]
    <3> DEFINE v == Limits!Windows[k]
               u == Limits!Windows'[k]
    <3>1. v = IF store[k] = NoWindow \/ store[k].left < 0 THEN NoWindow
              ELSE [count |-> store[k].count, left |-> store[k].left]
      BY DEF Limits!Windows
    <3>2. u = IF store'[k] = NoWindow \/ store'[k].left < 0 THEN NoWindow
              ELSE [count |-> store'[k].count, left |-> store'[k].left]
      BY DEF Limits!Windows
    <3> HIDE DEF u, v
    <3> SUFFICES u = IF v = NoWindow \/ v.left = 0 THEN NoWindow
                     ELSE [v EXCEPT !.left = v.left - 1]
      BY DEF u, v
    <3>3. CASE store[k] = NoWindow
      BY <1>1, <3>1, <3>2, <3>3
    <3>4. CASE store[k] # NoWindow /\ store[k].left = -1
      <4>1. store'[k] # NoWindow => store'[k].left = -1
        BY <1>1, <1>6, <1>8, <3>4
      <4> QED
        BY <4>1, <3>1, <3>2, <3>4
    <3>5. CASE store[k] # NoWindow /\ store[k].left >= 0
      <4>1. /\ v = [count |-> store[k].count, left |-> store[k].left] /\ v # NoWindow
            /\ store[k].left \in Nat
        BY <1>r, <3>1, <3>5, LimitFacts
      <4>2. CASE store[k].left = 0
        <5>1. store'[k] = NoWindow \/ store'[k].left = -1
          BY <1>1, <1>6, <1>8, <3>5, <4>2
        <5>2. u = NoWindow
          BY <3>2, <5>1
        <5> QED
          BY <4>1, <4>2, <5>2
      <4>3. CASE store[k].left # 0
        <5>1. store'[k] # NoWindow /\ store'[k].left = store[k].left - 1
              /\ store'[k].count = store[k].count
          <6>1. store'[k] \in LimitRow => store'[k] # NoWindow
            BY LimitFacts
          <6> QED
            BY <6>1, <1>1, <1>6, <1>8, <3>5, <4>1, <4>3
        <5>2. u = [count |-> store[k].count, left |-> store[k].left - 1]
          BY <3>2, <4>1, <4>3, <5>1
        <5> QED
          BY <4>1, <4>3, <5>2
      <4> QED
        BY <4>2, <4>3
    <3> QED
      BY <1>r, <3>3, <3>4, <3>5, LimitFacts
  <2> QED
    BY <2>1 DEF Limits!Promise!Tick, Limits!Windows
<1>9. Limits!WindowStep
  BY <1>8 DEF Limits!Uninterrupted, Limits!WindowStep, Limits!Promise!Next
<1> QED
  BY <1>7, <1>9

LEMMA InitLimits == Limits!Init => LimitInv
  BY IdleCall, LimitFacts DEF Limits!Init, LimitInv, LimitTyped

LEMMA NextLimits == LimitInv /\ [Limits!Next]_limitVars => LimitInv'
<1>1. LimitInv /\ UNCHANGED limitVars => LimitInv'
  BY DEF limitVars, LimitInv, LimitTyped, Limits!Uninterrupted, Limits!May
<1> QED
  BY <1>1, WaitingSteps, ConfigureSteps, CheckSteps, IncrSteps, ExpireSteps, ForgettingSteps,
     TickSteps DEF Limits!Next

LimitsInv == side = "limits" => LimitInv

(* Whatever the limit, the window, the clients and what they write in      *)
(* their headers, and however requests interleave: every step of either    *)
(* limiter (in_memory.rs, redis.rs) is a step of the rate windows it       *)
(* promises, unless a request stops or lingers between INCR and EXPIRE.    *)
THEOREM WindowsKept == PlatformSpec => KeepsWindows
<1>1. PlatformInit => LimitsInv
  BY InitLimits DEF PlatformInit, LimitsInv
<1>2. LimitsInv /\ [PlatformNext]_platformVars => LimitsInv'
  BY NextLimits DEF LimitsInv, PlatformNext, platformVars
<1>3. LimitsInv /\ [PlatformNext]_platformVars => [side = "limits" => Limits!WindowStep]_limitVars
  <2> SUFFICES ASSUME LimitsInv, [PlatformNext]_platformVars, side = "limits",
                      ~UNCHANGED limitVars
               PROVE  Limits!WindowStep
    OBVIOUS
  <2>1. LimitInv /\ Limits!Next
    BY DEF LimitsInv, PlatformNext, platformVars
  <2> QED
    BY <2>1, WaitingSteps, ConfigureSteps, CheckSteps, IncrSteps, ExpireSteps, ForgettingSteps,
       TickSteps DEF Limits!Next
<1> QED
  BY <1>1, <1>2, <1>3, PTL DEF PlatformSpec, KeepsWindows

-----------------------------------------------------------------------------
(* What was let through under a key, and what had been asked for.          *)

Lately(c, n) == Total(admitted[c], 0 .. n - 1)
Sought(c, n) == Total(asked[c], 0 .. n - 1)

Waiting(k) == \E w \in Process : gate[w] = "expire" /\ call[w].key = k
Live(k) == store[k] # NoWindow /\ store[k].left >= 0
Elapsed(k) == Window - store[k].left

(* How many requests the window of a key has let through at most; one that *)
(* is to send EXPIRE is counted but not let through yet.                   *)
Used(k) ==
    IF Limits!Highest = 0 THEN 0
    ELSE (IF store[k].count <= Limits!Highest THEN store[k].count ELSE Limits!Highest)
         - (IF Waiting(k) THEN 1 ELSE 0)

(* A request on its way has a key and a limit.                             *)
CalledInv ==
    /\ asked \in [Address -> [Limits!Age -> Nat]] /\ admitted \in [Address -> [Limits!Age -> Nat]]
    /\ \A w \in Process : gate[w] # "idle" => call[w].key \in Address /\ call[w].limit \in Limit
    /\ \A w \in Process : gate[w] = "expire" => call[w].count = 1
    /\ \A k \in Address : store[k] # NoWindow /\ ~store[k].ends => store[k].left = Window

(* The window of a key is begun by one request, which gives it its end.    *)
BegunInv ==
    ~Limits!May("restart") =>
      /\ \A w \in Process : gate[w] = "expire" =>
           store[call[w].key] # NoWindow /\ ~store[call[w].key].ends
      /\ \A w, x \in Process :
           gate[w] = "expire" /\ gate[x] = "expire" /\ call[w].key = call[x].key => w = x

(* A window that ended had let through the limit; so may the one after.    *)
QuotaOf(c) ==
    /\ ~Live(c) => Lately(c, Window) <= Limits!Highest
    /\ Live(c) => /\ Lately(c, Window) <= Limits!Highest + Used(c)
                  /\ Lately(c, Elapsed(c)) <= Used(c)
QuotaInv == ~Limits!May("restart") => \A c \in Address : QuotaOf(c)

(* What a window counts was asked for since it began.                      *)
EarnedOf(c) == Live(c) => store[c].count <= Sought(c, Elapsed(c) + 1)
ToldOf(w) ==
    gate[w] = "told" /\ ~call[w].allowed => call[w].limit < Sought(call[w].key, Window + 1)
EarnedInv ==
    Limits!Uninterrupted => /\ \A c \in Address : EarnedOf(c)
                            /\ \A w \in Process : ToldOf(w)

AdmissionInv == CalledInv /\ BegunInv /\ QuotaInv /\ EarnedInv

LEMMA HighestLimit ==
    /\ Limits!Highest \in Limit /\ Limits!Highest \in Nat
    /\ \A n \in Limit : n \in Nat /\ n <= Limits!Highest
<1>1. Limit \subseteq Nat /\ \E n \in Limit : \A m \in Limit : m <= n
  BY PlatformConstants DEF Limits!LimitConstants
<1>2. PICK n \in Limit : \A m \in Limit : m <= n
  BY <1>1
<1>3. n \in Limit /\ \A y \in Limit : n >= y
  BY <1>1, <1>2
<1>4. Limits!Highest = CHOOSE x \in Limit : \A y \in Limit : x >= y
  BY DEF Limits!Highest, Limits!Max
<1>5. Limits!Highest \in Limit /\ \A y \in Limit : Limits!Highest >= y
  BY <1>3, <1>4, Zenon
<1> QED
  BY <1>1, <1>5

(* The history of a key, and how it grows and ages.                        *)
LEMMA AgesTo ==
    ASSUME NEW f \in [Limits!Age -> Nat], NEW n \in 0 .. Window + 1
    PROVE  /\ IsFiniteSet(0 .. n - 1) /\ 0 .. n - 1 \subseteq Limits!Age
           /\ \A a \in 0 .. n - 1 : f[a] \in Nat
           /\ Total(f, 0 .. n - 1) \in Nat
<1>1. n \in Nat /\ Window \in Nat /\ 0 .. n - 1 \subseteq Limits!Age
  BY LimitFacts DEF Limits!Age
<1>2. IsFiniteSet(0 .. n - 1)
  BY <1>1, FS_Interval
<1>3. \A a \in 0 .. n - 1 : f[a] \in Nat
  BY <1>1
<1> QED
  BY <1>1, <1>2, <1>3, TotalNat

LEMMA OneMore ==
    ASSUME NEW f \in [Limits!Age -> Nat], NEW n \in 0 .. Window + 1
    PROVE  LET g == [f EXCEPT ![0] = f[0] + 1]
           IN  /\ g \in [Limits!Age -> Nat]
               /\ Total(g, 0 .. n - 1) = Total(f, 0 .. n - 1) + IF n = 0 THEN 0 ELSE 1
<1> DEFINE g == [f EXCEPT ![0] = f[0] + 1]
           S == 0 .. n - 1
<1>1. 0 \in Limits!Age /\ f[0] \in Nat
  BY LimitFacts DEF Limits!Age
<1>2. g \in [Limits!Age -> Nat] /\ g[0] = f[0] + 1 /\ \A a \in Limits!Age \ {0} : g[a] = f[a]
  BY <1>1
<1> HIDE DEF g
<1>3. IsFiniteSet(S) /\ S \subseteq Limits!Age /\ Total(f, S) \in Nat
  BY AgesTo
<1>4. \A a \in S : f[a] \in Nat /\ g[a] \in Nat
  BY <1>2, <1>3
<1>5. CASE n = 0
  <2>1. S = {}
    BY <1>5
  <2> QED
    BY <1>2, <1>5, <2>1, TotalEmpty DEF g
<1>6. CASE n # 0
  <2>1. 0 \in S
    BY <1>6, LimitFacts
  <2> HIDE DEF S
  <2>2. Total(g, S) = Total(f, S) - f[0] + g[0]
    BY <1>2, <1>3, <1>4, <2>1, TotalChanged
  <2> QED
    BY <1>1, <1>2, <1>3, <1>6, <2>2 DEF g, S
<1> QED
  BY <1>5, <1>6

LEMMA OneOlder ==
    ASSUME NEW f \in [Limits!Age -> Nat], NEW n \in 0 .. Window
    PROVE  LET g == [a \in Limits!Age |-> IF a = 0 THEN 0 ELSE f[a - 1]]
           IN  /\ g \in [Limits!Age -> Nat]
               /\ Total(g, 0 .. n) = Total(f, 0 .. n - 1)
<1> DEFINE g == [a \in Limits!Age |-> IF a = 0 THEN 0 ELSE f[a - 1]]
           b == [p \in Points(f, 0 .. n - 1) |-> <<p[1] + 1, p[2]>>]
<1>a. n \in Nat /\ n <= Window /\ Window \in Nat
  BY LimitFacts
<1>1. g \in [Limits!Age -> Nat]
  <2>1. \A a \in Limits!Age : a # 0 => a - 1 \in Limits!Age
    BY <1>a DEF Limits!Age
  <2> QED
    BY <2>1
<1>2. IsFiniteSet(Points(f, 0 .. n - 1))
  <2>1. n \in 0 .. Window + 1
    BY <1>a
  <2> QED
    BY <2>1, AgesTo, PointsFinite
<1>3. \A a \in 0 .. n - 1 : a + 1 \in 0 .. n /\ g[a + 1] = f[a]
  BY <1>a DEF Limits!Age
<1>4. \A a \in 0 .. n : (a = 0 /\ g[a] = 0) \/ (a - 1 \in 0 .. n - 1 /\ g[a] = f[a - 1])
  BY <1>a DEF Limits!Age
<1> HIDE DEF g
<1>5. b \in [Points(f, 0 .. n - 1) -> Points(g, 0 .. n)]
  <2>1. ASSUME NEW p \in Points(f, 0 .. n - 1)
        PROVE  <<p[1] + 1, p[2]>> \in Points(g, 0 .. n)
    <3>1. p[1] \in 0 .. n - 1 /\ p[2] \in Nat /\ p[2] < f[p[1]]
      BY DEF Points
    <3>2. p[1] + 1 \in 0 .. n /\ g[p[1] + 1] = f[p[1]]
      BY <1>3, <3>1
    <3> QED
      BY <3>1, <3>2 DEF Points
  <2> QED
    BY <2>1
<1>6. ASSUME NEW p \in Points(f, 0 .. n - 1), NEW q \in Points(f, 0 .. n - 1), b[p] = b[q]
      PROVE  p = q
  <2>1. p = <<p[1], p[2]>> /\ q = <<q[1], q[2]>> /\ p[1] \in Int /\ q[1] \in Int
    BY DEF Points
  <2>2. p[1] + 1 = q[1] + 1 /\ p[2] = q[2]
    BY <1>6
  <2>3. p[1] = q[1]
    BY <2>1, <2>2
  <2> QED
    BY <2>1, <2>2, <2>3
<1>7. ASSUME NEW q \in Points(g, 0 .. n)
      PROVE  \E p \in Points(f, 0 .. n - 1) : b[p] = q
  <2>1. q = <<q[1], q[2]>> /\ q[1] \in 0 .. n /\ q[2] \in Nat /\ q[2] < g[q[1]]
    BY DEF Points
  <2>2. q[1] - 1 \in 0 .. n - 1 /\ g[q[1]] = f[q[1] - 1]
    BY <1>4, <2>1
  <2>3. <<q[1] - 1, q[2]>> \in Points(f, 0 .. n - 1)
    BY <2>1, <2>2 DEF Points
  <2>4. q[1] - 1 + 1 = q[1]
    BY <2>1
  <2>5. b[<<q[1] - 1, q[2]>>] = <<q[1] - 1 + 1, q[2]>>
    BY <2>3
  <2> QED
    BY <2>1, <2>3, <2>4, <2>5
<1>8. b \in Bijection(Points(f, 0 .. n - 1), Points(g, 0 .. n))
  BY <1>5, <1>6, <1>7 DEF Bijection, Injection, Surjection, IsInjective
<1>9. ExistsBijection(Points(f, 0 .. n - 1), Points(g, 0 .. n))
  BY <1>8 DEF ExistsBijection
<1>10. Total(g, 0 .. n) = Total(f, 0 .. n - 1)
  BY <1>2, <1>9, FS_Bijection DEF Total
<1> QED
  BY <1>1, <1>10 DEF g

LEMMA LongerTotal ==
    ASSUME NEW f \in [Limits!Age -> Nat], NEW n \in 0 .. Window + 1, NEW m \in 0 .. n
    PROVE  Total(f, 0 .. m - 1) <= Total(f, 0 .. n - 1)
<1>1. 0 .. m - 1 \subseteq 0 .. n - 1
  BY LimitFacts
<1> QED
  BY <1>1, AgesTo, TotalMore

(* The sums of RateLimits.                                                 *)
LEMMA WithinSum ==
    ASSUME NEW history \in [Address -> [Limits!Age -> Nat]], NEW c \in Address
    PROVE  Limits!Within(history, c) = Total(history[c], 0 .. Window)
<1> DEFINE S == Limits!Age
           f == history[c]
           Q(g) == g = [s \in SUBSET S |-> IF s = {} THEN 0
                                           ELSE LET x == CHOOSE x \in s : TRUE
                                                IN  history[c][x] + g[s \ {x}]]
<1>1. \A g : Q(g) <=> SumsUp(g, f, S)
  BY DEF SumsUp
<1>2. Limits!Within(history, c) = (CHOOSE g : Q(g))[S]
  BY DEF Limits!Within, Limits!MapThenSumSet, Limits!MapThenFoldSet
<1>3. (CHOOSE g : Q(g)) = (CHOOSE g : SumsUp(g, f, S))
  BY <1>1
<1>4. S = 0 .. Window /\ IsFiniteSet(S)
  BY LimitFacts, FS_Interval DEF Limits!Age
<1> HIDE DEF Q
<1>5. (CHOOSE g : SumsUp(g, f, S))[S] = Total(f, S)
  BY <1>4, TheSum
<1> QED
  BY <1>2, <1>3, <1>4, <1>5

LEMMA LatelySum ==
    ASSUME admitted \in [Address -> [Limits!Age -> Nat]], NEW c \in Address
    PROVE  Limits!AdmittedLately(c) = Lately(c, Window)
<1> DEFINE S == 0 .. Window - 1
           f == admitted[c]
           Q(g) == g = [s \in SUBSET S |-> IF s = {} THEN 0
                                           ELSE LET x == CHOOSE x \in s : TRUE
                                                IN  admitted[c][x] + g[s \ {x}]]
<1>1. \A g : Q(g) <=> SumsUp(g, f, S)
  BY DEF SumsUp
<1>2. Limits!AdmittedLately(c) = (CHOOSE g : Q(g))[S]
  BY DEF Limits!AdmittedLately, Limits!MapThenSumSet, Limits!MapThenFoldSet
<1>3. (CHOOSE g : Q(g)) = (CHOOSE g : SumsUp(g, f, S))
  BY <1>1
<1>4. S \subseteq Limits!Age /\ IsFiniteSet(S)
  <2>1. Window \in Nat /\ Window - 1 \in Int
    BY LimitFacts
  <2>2. IsFiniteSet(S)
    BY <2>1, FS_Interval
  <2> QED
    BY <2>1, <2>2 DEF Limits!Age
<1> HIDE DEF Q
<1>5. (CHOOSE g : SumsUp(g, f, S))[S] = Total(f, S)
  BY <1>4, TheSum
<1> QED
  BY <1>2, <1>3, <1>5 DEF Lately

(* Numbers of a key's window.                                              *)
LEMMA AdmissionTypes ==
    ASSUME LimitTyped, CalledInv, NEW c \in Address
    PROVE  /\ c \in Address /\ (Live(c) => Elapsed(c) \in 0 .. Window /\ store[c] \in LimitRow)
           /\ Live(c) => store[c].count \in Nat \ {0} /\ Used(c) \in 0 .. Limits!Highest
           /\ \A n \in 0 .. Window + 1 : Lately(c, n) \in Nat /\ Sought(c, n) \in Nat
<1>1. c \in Address /\ store[c] \in LimitRow \cup {NoWindow}
  BY LimitFacts DEF LimitTyped
<1>2. \A n \in 0 .. Window + 1 : Lately(c, n) \in Nat /\ Sought(c, n) \in Nat
  BY AgesTo DEF CalledInv, Lately, Sought
<1>3. ASSUME Live(c)
      PROVE  /\ store[c] \in LimitRow /\ Elapsed(c) \in 0 .. Window
             /\ store[c].count \in Nat \ {0} /\ Used(c) \in 0 .. Limits!Highest
  <2>1. store[c] \in LimitRow /\ store[c].count \in Nat \ {0} /\ store[c].left \in 0 .. Window
    BY <1>1, <1>3, LimitFacts DEF Live, LimitRow
  <2>2. Elapsed(c) \in 0 .. Window
    BY <2>1, LimitFacts DEF Elapsed
  <2>3. Used(c) \in 0 .. Limits!Highest
    BY <2>1, HighestLimit DEF Used
  <2> QED
    BY <2>1, <2>2, <2>3
<1> QED
  BY <1>1, <1>2, <1>3

(* What a step leaves alone about a key or a request.                      *)
LEMMA QuotaKept ==
    ASSUME NEW c \in Address, QuotaOf(c), store'[c] = store[c], admitted'[c] = admitted[c],
           Waiting(c)' = Waiting(c)
    PROVE  QuotaOf(c)'
<1>1. Live(c)' = Live(c) /\ Elapsed(c)' = Elapsed(c) /\ Used(c)' = Used(c)
  BY DEF Live, Elapsed, Used, Limits!Highest
<1>2. \A n : Lately(c, n)' = Lately(c, n)
  BY DEF Lately
<1> QED
  BY <1>1, <1>2 DEF QuotaOf, Limits!Highest

LEMMA EarnedKept ==
    ASSUME NEW c \in Address, EarnedOf(c), store'[c] = store[c], asked'[c] = asked[c]
    PROVE  EarnedOf(c)'
  BY DEF EarnedOf, Live, Elapsed, Sought

(* A step that is not counted: of the request w, whose EXPIRE it may give  *)
(* up.                                                                     *)
LEMMA NotCounted ==
    ASSUME LimitInv, AdmissionInv, LimitTyped', NEW w \in Process,
           UNCHANGED <<limit_world, store, asked, admitted>>,
           \A x \in Process \ {w} : gate'[x] = gate[x] /\ call'[x] = call[x],
           gate'[w] \in {"idle", "incr"},
           gate'[w] = "incr" => call'[w].key \in Address /\ call'[w].limit \in Limit,
           gate[w] = "expire" => ~Limits!Uninterrupted
    PROVE  AdmissionInv'
<1>1. CalledInv' /\ BegunInv'
  <2>1. \A x \in Process : x = w \/ (gate'[x] = gate[x] /\ call'[x] = call[x])
    OBVIOUS
  <2>2. CalledInv'
    BY <2>1 DEF AdmissionInv, CalledInv
  <2>3. \A x \in Process : gate'[x] = "expire" => gate[x] = "expire" /\ call'[x] = call[x]
    OBVIOUS
  <2>4. BegunInv'
    BY <2>3 DEF AdmissionInv, BegunInv, Limits!May
  <2> QED
    BY <2>2, <2>4
<1>2. QuotaInv'
  <2> SUFFICES ASSUME ~Limits!May("restart"), NEW c \in Address PROVE QuotaOf(c)'
    BY DEF QuotaInv, Limits!May
  <2>1. QuotaOf(c)
    BY DEF AdmissionInv, QuotaInv
  <2>2. /\ Live(c)' = Live(c) /\ Elapsed(c)' = Elapsed(c)
        /\ \A n : Lately(c, n)' = Lately(c, n)
    BY DEF Live, Elapsed, Lately
  <2>3. Waiting(c)' => Waiting(c)
    <3>1. \A x \in Process : gate'[x] = "expire" => gate[x] = "expire" /\ call'[x] = call[x]
      OBVIOUS
    <3> QED
      BY <3>1 DEF Waiting
  <2>4. Live(c) => Used(c) <= Used(c)' /\ Used(c) \in Int /\ Used(c)' \in Int
    <3>1. Live(c) => store[c].count \in Nat
      BY AdmissionTypes DEF AdmissionInv, LimitInv
    <3> QED
      BY <2>3, <3>1, HighestLimit DEF Used, Limits!Highest
  <2>5. Live(c) => Lately(c, Window) \in Nat /\ Lately(c, Elapsed(c)) \in Nat
    <3>1. Window \in 0 .. Window + 1 /\ (Live(c) => Elapsed(c) \in 0 .. Window + 1)
      BY AdmissionTypes, LimitFacts DEF AdmissionInv, LimitInv
    <3> QED
      BY <3>1, AdmissionTypes DEF AdmissionInv, LimitInv
  <2> DEFINE l == Lately(c, Window)
             e == Lately(c, Elapsed(c))
             u == Used(c)
             v == Used(c)'
             h == Limits!Highest
  <2>6. h \in Nat
    BY HighestLimit
  <2>7. Live(c) => l <= h + u /\ e <= u
    BY <2>1 DEF QuotaOf
  <2>8. Live(c) => l <= h + v /\ e <= v
    <3> HIDE DEF l, e, u, v, h
    <3>1. Live(c) => l \in Nat /\ e \in Nat
      BY <2>5 DEF l, e
    <3>2. Live(c) => u <= v /\ u \in Int /\ v \in Int
      BY <2>4 DEF u, v
    <3> QED
      BY <2>6, <2>7, <3>1, <3>2
  <2>9. ~Live(c) => l <= h
    BY <2>1 DEF QuotaOf
  <2> QED
    BY <2>2, <2>8, <2>9 DEF QuotaOf, Limits!Highest
<1>3. EarnedInv'
  <2> SUFFICES ASSUME Limits!Uninterrupted
               PROVE  (\A c \in Address : EarnedOf(c)') /\ \A x \in Process : ToldOf(x)'
    BY DEF EarnedInv, Limits!Uninterrupted, Limits!May
  <2>1. (\A c \in Address : EarnedOf(c)) /\ \A x \in Process : ToldOf(x)
    BY DEF AdmissionInv, EarnedInv
  <2>2. \A c \in Address : EarnedOf(c)'
    BY <2>1, EarnedKept
  <2>3. ASSUME NEW x \in Process PROVE ToldOf(x)'
    <3>1. CASE x = w
      BY <3>1 DEF ToldOf
    <3>2. CASE x # w
      BY <2>1, <3>2 DEF ToldOf, Sought
    <3> QED
      BY <3>1, <3>2
  <2> QED
    BY <2>2, <2>3
<1> QED
  BY <1>1, <1>2, <1>3 DEF AdmissionInv

(* A request is counted in its key's window.                               *)
LEMMA OnesHistory ==
    ASSUME LimitTyped, CalledInv, NEW c \in Address, NEW b \in BOOLEAN,
           admitted'[c] = IF b THEN [admitted[c] EXCEPT ![0] = admitted[c][0] + 1]
                          ELSE admitted[c]
    PROVE  \A n \in 0 .. Window + 1 :
             /\ Lately(c, n) \in Nat
             /\ Lately(c, n)' = Lately(c, n) + IF b /\ n # 0 THEN 1 ELSE 0
<1> TAKE n \in 0 .. Window + 1
<1>1. Lately(c, n) \in Nat /\ admitted[c] \in [Limits!Age -> Nat]
  BY AdmissionTypes DEF CalledInv
<1>2. Lately(c, n)' = Total(admitted'[c], 0 .. n - 1)
  BY DEF Lately
<1>3. b => Total(admitted'[c], 0 .. n - 1)
             = Total(admitted[c], 0 .. n - 1) + IF n = 0 THEN 0 ELSE 1
  BY <1>1, OneMore
<1> QED
  BY <1>1, <1>2, <1>3 DEF Lately

LEMMA QuotaCounted ==
    ASSUME LimitTyped, LimitTyped', CalledInv, NEW c \in Address, QuotaOf(c),
           store'[c] # NoWindow,
           store'[c].count = IF Live(c) THEN store[c].count + 1 ELSE 1,
           store'[c].left = IF Live(c) THEN store[c].left ELSE Window,
           NEW b \in BOOLEAN,
           admitted'[c] = IF b THEN [admitted[c] EXCEPT ![0] = admitted[c][0] + 1]
                          ELSE admitted[c],
           b => store'[c].count <= Limits!Highest,
           \/ Waiting(c)' <=> Live(c) /\ Waiting(c)
           \/ ~b /\ ~Live(c)
    PROVE  QuotaOf(c)'
<1> DEFINE H == Limits!Highest
           n == store[c].count
           m == store'[c].count
           e == Elapsed(c)
           f == Elapsed(c)'
           one == IF b THEN 1 ELSE 0
<1>1. H \in Nat /\ Limits!Highest' = H /\ Window \in Nat \ {0}
  BY HighestLimit, LimitFacts DEF Limits!Highest
<1>2. \A k \in 0 .. Window + 1 :
        /\ Lately(c, k) \in Nat
        /\ Lately(c, k)' = Lately(c, k) + IF b /\ k # 0 THEN 1 ELSE 0
  BY OnesHistory
<1>3. Live(c)'
  BY LimitFacts DEF Live
<1>4. CASE Live(c)
  <2>1. /\ e \in 0 .. Window /\ f = e /\ n \in Nat \ {0} /\ m = n + 1
        /\ Lately(c, Window) <= H + Used(c) /\ Lately(c, e) <= Used(c)
        /\ b => m <= H
    BY <1>4, AdmissionTypes DEF QuotaOf, Elapsed
  <2>3. Used(c)' \in Int /\ Used(c) \in Int /\ Used(c)' >= Used(c) + one
    <3>1. Used(c) = IF H = 0 THEN 0 ELSE (IF n <= H THEN n ELSE H)
                                         - (IF Waiting(c) THEN 1 ELSE 0)
      BY DEF Used
    <3>2. Used(c)' = IF H = 0 THEN 0 ELSE (IF m <= H THEN m ELSE H)
                                          - (IF Waiting(c)' THEN 1 ELSE 0)
      BY <1>1 DEF Used
    <3>3. Waiting(c)' <=> Waiting(c)
      BY <1>4
    <3> HIDE DEF H, n, m
    <3> QED
      BY <1>1, <2>1, <3>1, <3>2, <3>3
  <2> DEFINE u == Used(c)
             v == Used(c)'
             l == Lately(c, Window)
             a == Lately(c, e)
  <2>4. Lately(c, Window)' = l + one /\ l \in Nat
    BY <1>1, <1>2
  <2>5. Lately(c, Elapsed(c))' = a + (IF b /\ e # 0 THEN 1 ELSE 0) /\ a \in Nat
    <3>1. e \in 0 .. Window + 1
      BY <1>1, <2>1
    <3>2. \A k \in 0 .. Window + 1 :
            /\ Lately(c, k) \in Nat
            /\ Total(admitted'[c], 0 .. k - 1) = Lately(c, k) + (IF b /\ k # 0 THEN 1 ELSE 0)
      BY <1>2 DEF Lately
    <3>3. Lately(c, Elapsed(c))' = Total(admitted'[c], 0 .. f - 1)
      BY DEF Lately
    <3> HIDE DEF e, f
    <3> QED
      BY <2>1, <3>1, <3>2, <3>3
  <2>6. l + one <= H + v /\ a + (IF b /\ e # 0 THEN 1 ELSE 0) <= v
    <3>1. l <= H + u /\ a <= u /\ v >= u + one /\ u \in Int /\ v \in Int
      BY <2>1, <2>3
    <3>2. l \in Nat /\ a \in Nat
      BY <2>4, <2>5
    <3> HIDE DEF H, u, v, l, a, e
    <3> QED
      BY <1>1, <3>1, <3>2
  <2> QED
    BY <1>1, <1>3, <2>4, <2>5, <2>6 DEF QuotaOf
<1>5. CASE ~Live(c)
  <2>1. Lately(c, Window) <= H /\ m = 1 /\ store'[c].left = Window
    BY <1>5 DEF QuotaOf
  <2>2. f = 0
    BY <1>1, <2>1 DEF Elapsed
  <2>3. Lately(c, Elapsed(c))' = 0
    <3>1. Lately(c, Elapsed(c))' = Total(admitted'[c], 0 .. f - 1)
      BY DEF Lately
    <3>2. 0 .. f - 1 = {}
      BY <2>2
    <3> QED
      BY <3>1, <3>2, TotalEmpty
  <2>4. Used(c)' >= one /\ Used(c)' \in Int
    <3>1. Used(c)' = IF H = 0 THEN 0 ELSE (IF m <= H THEN m ELSE H)
                                          - (IF Waiting(c)' THEN 1 ELSE 0)
      BY <1>1 DEF Used
    <3>2. b => m <= H /\ ~Waiting(c)'
      BY <1>5
    <3> HIDE DEF H, m
    <3> QED
      BY <1>1, <2>1, <3>1, <3>2
  <2> DEFINE l == Lately(c, Window)
             v == Used(c)'
  <2>5. Lately(c, Window)' = l + one /\ l \in Nat
    BY <1>1, <1>2
  <2>6. l + one <= H + v /\ 0 <= v
    <3>1. l <= H /\ v >= one /\ v \in Int
      BY <2>1, <2>4
    <3>2. l \in Nat
      BY <2>5
    <3> HIDE DEF H, l, v
    <3> QED
      BY <1>1, <3>1, <3>2
  <2> QED
    BY <1>1, <1>3, <2>3, <2>5, <2>6 DEF QuotaOf
<1> QED
  BY <1>4, <1>5

(* The request that began a window gives it its end, and is told.          *)
LEMMA QuotaEnds ==
    ASSUME LimitTyped, LimitTyped', CalledInv, NEW c \in Address, QuotaOf(c), Live(c),
           store[c].left = Window, store'[c] # NoWindow,
           store'[c].count = store[c].count, store'[c].left = Window,
           Waiting(c), ~Waiting(c)', NEW b \in BOOLEAN, b => 1 <= Limits!Highest,
           admitted'[c] = IF b THEN [admitted[c] EXCEPT ![0] = admitted[c][0] + 1]
                          ELSE admitted[c]
    PROVE  QuotaOf(c)'
<1> DEFINE H == Limits!Highest
           n == store[c].count
           u == Used(c)
           v == Used(c)'
           l == Lately(c, Window)
           one == IF b THEN 1 ELSE 0
<1>1. H \in Nat /\ Limits!Highest' = H /\ Window \in Nat \ {0}
  BY HighestLimit, LimitFacts DEF Limits!Highest
<1>2. l \in Nat /\ Lately(c, Window)' = l + one
  BY <1>1, OnesHistory
<1>3. Live(c)' /\ Elapsed(c)' = 0
  BY <1>1 DEF Live, Elapsed
<1>4. Lately(c, Elapsed(c))' = 0
  <2>1. Lately(c, Elapsed(c))' = Total(admitted'[c], 0 .. Elapsed(c)' - 1)
    BY DEF Lately
  <2>2. 0 .. Elapsed(c)' - 1 = {}
    BY <1>3
  <2> QED
    BY <2>1, <2>2, TotalEmpty
<1>5. u = (IF H = 0 THEN 0 ELSE (IF n <= H THEN n ELSE H) - 1)
      /\ v = (IF H = 0 THEN 0 ELSE (IF n <= H THEN n ELSE H)) /\ n \in Nat \ {0}
  BY <1>1, AdmissionTypes DEF Used
<1>6. l <= H + u
  BY DEF QuotaOf
<1>7. b => 1 <= H
  OBVIOUS
<1> HIDE DEF H, u, v, l, n
<1>8. l + one <= H + v /\ 0 <= v
  BY <1>1, <1>2, <1>5, <1>6, <1>7
<1> QED
  BY <1>1, <1>2, <1>3, <1>4, <1>8 DEF QuotaOf, H, v

(* A tick: what was let through grows older, and windows come to an end.   *)
LEMMA HistoryAges ==
    ASSUME CalledInv, Limits!Tick, NEW c \in Address
    PROVE  /\ \A n \in 0 .. Window : /\ Total(admitted'[c], 0 .. n) = Lately(c, n)
                                     /\ Total(asked'[c], 0 .. n) = Sought(c, n)
           /\ Lately(c, Window)' <= Lately(c, Window)
<1>1. /\ admitted'[c] = [a \in Limits!Age |-> IF a = 0 THEN 0 ELSE admitted[c][a - 1]]
      /\ asked'[c] = [a \in Limits!Age |-> IF a = 0 THEN 0 ELSE asked[c][a - 1]]
      /\ admitted[c] \in [Limits!Age -> Nat] /\ asked[c] \in [Limits!Age -> Nat]
  BY DEF Limits!Tick, Limits!Older, CalledInv
<1>2. \A n \in 0 .. Window : /\ Total(admitted'[c], 0 .. n) = Lately(c, n)
                             /\ Total(asked'[c], 0 .. n) = Sought(c, n)
  BY <1>1, OneOlder DEF Lately, Sought
<1>3. Window - 1 \in 0 .. Window /\ Window \in 0 .. Window + 1
  BY LimitFacts
<1>4. Lately(c, Window)' = Lately(c, Window - 1)
  BY <1>2, <1>3 DEF Lately
<1>5. Lately(c, Window - 1) <= Lately(c, Window)
  BY <1>1, <1>3, LongerTotal DEF Lately
<1> QED
  BY <1>2, <1>4, <1>5

LEMMA QuotaAged ==
    ASSUME LimitTyped, LimitTyped', CalledInv, Limits!Tick, NEW c \in Address, QuotaOf(c)
    PROVE  QuotaOf(c)'
<1> DEFINE H == Limits!Highest
           l == Lately(c, Window)
           m == Lately(c, Window)'
           u == Used(c)
<1>1. H \in Nat /\ Limits!Highest' = H /\ Window \in Nat \ {0} /\ c \in Address
  BY HighestLimit, LimitFacts DEF Limits!Highest
<1>2. l \in Nat /\ m \in Int /\ m <= l
  <2>1. Window \in 0 .. Window + 1 /\ Window - 1 \in 0 .. Window /\ Window - 1 \in 0 .. Window + 1
    BY <1>1
  <2>2. m = Total(admitted'[c], 0 .. Window - 1)
    BY DEF Lately
  <2>3. m = Lately(c, Window - 1)
    BY <2>1, <2>2, HistoryAges
  <2> QED
    BY <2>1, <2>3, HistoryAges, AdmissionTypes
<1>3. Waiting(c)' = Waiting(c)
  BY DEF Waiting, Limits!Tick
<1>4. Live(c) => u \in 0 .. H /\ l <= H + u /\ Elapsed(c) \in 0 .. Window
  BY AdmissionTypes DEF QuotaOf
<1>5. ~Live(c) => l <= H
  BY DEF QuotaOf
<1>6. CASE store'[c] = store[c] /\ (store[c] = NoWindow \/ ~store[c].ends)
  <2>1. Live(c)' = Live(c) /\ Used(c)' = u /\ Elapsed(c)' = Elapsed(c)
    BY <1>1, <1>3, <1>6 DEF Live, Used, Elapsed
  <2>2. ASSUME Live(c) PROVE Lately(c, Elapsed(c))' = 0
    <3>1. store[c] # NoWindow /\ store[c].left = Window
      BY <1>1, <1>6, <2>2 DEF CalledInv, Live
    <3>2. Elapsed(c)' = 0
      BY <1>1, <2>1, <3>1 DEF Elapsed
    <3>3. Lately(c, Elapsed(c))' = Total(admitted'[c], 0 .. Elapsed(c)' - 1)
      BY DEF Lately
    <3>4. 0 .. Elapsed(c)' - 1 = {}
      BY <3>2
    <3> QED
      BY <3>3, <3>4, TotalEmpty
  <2>3. (~Live(c) => m <= H) /\ (Live(c) => m <= H + u /\ 0 <= u)
    <3> HIDE DEF H, l, m, u
    <3> QED
      BY <1>1, <1>2, <1>4, <1>5
  <2> QED
    BY <1>1, <2>1, <2>2, <2>3 DEF QuotaOf
<1>7. CASE \/ store[c] # NoWindow /\ store[c].left = 0 /\ ~Live(c)'
           \/ store[c] # NoWindow /\ store[c].left = -1 /\ ~Live(c)'
  <2>1. l <= H
    <3>1. CASE store[c].left = 0 /\ store[c] # NoWindow
      <4>1. Live(c) /\ Elapsed(c) = Window
        BY <1>1, <3>1 DEF Live, Elapsed
      <4>2. l <= u
        BY <4>1 DEF QuotaOf
      <4>3. u \in 0 .. H
        BY <1>4, <4>1
      <4> HIDE DEF H, l, u
      <4> QED
        BY <1>1, <1>2, <4>2, <4>3
    <3>2. CASE store[c].left = -1 /\ store[c] # NoWindow
      <4>1. ~Live(c)
        BY <3>2 DEF Live
      <4> QED
        BY <1>5, <4>1
    <3> QED
      BY <1>7, <3>1, <3>2
  <2>2. m <= H
    <3> HIDE DEF H, l, m
    <3> QED
      BY <1>1, <1>2, <2>1
  <2> QED
    BY <1>1, <1>7, <2>2 DEF QuotaOf
<1>8. CASE /\ store[c] # NoWindow /\ store'[c] # NoWindow /\ store[c].left \in 1 .. Window
           /\ store'[c].left = store[c].left - 1 /\ store'[c].count = store[c].count
  <2>1. Live(c) /\ Live(c)' /\ Elapsed(c)' = Elapsed(c) + 1 /\ Elapsed(c) \in 0 .. Window
    BY <1>1, <1>8 DEF Live, Elapsed
  <2>2. Used(c)' = u
    BY <1>1, <1>3, <1>8 DEF Used
  <2>3. Lately(c, Elapsed(c))' = Lately(c, Elapsed(c))
    <3>1. Lately(c, Elapsed(c))' = Total(admitted'[c], 0 .. Elapsed(c)' - 1)
      BY DEF Lately
    <3>2. Elapsed(c)' - 1 = Elapsed(c)
      BY <2>1
    <3> QED
      BY <2>1, <3>1, <3>2, HistoryAges
  <2>4. Lately(c, Elapsed(c)) <= u
    BY <2>1 DEF QuotaOf
  <2>5. m <= H + u
    <3>1. u \in 0 .. H /\ l <= H + u
      BY <1>4, <2>1
    <3> HIDE DEF H, l, m, u
    <3> QED
      BY <1>1, <1>2, <3>1
  <2> QED
    BY <1>1, <2>1, <2>2, <2>3, <2>4, <2>5 DEF QuotaOf
<1>9. \/ store'[c] = store[c] /\ (store[c] = NoWindow \/ ~store[c].ends)
      \/ store[c] # NoWindow /\ store[c].left = 0 /\ ~Live(c)'
      \/ store[c] # NoWindow /\ store[c].left = -1 /\ ~Live(c)'
      \/ /\ store[c] # NoWindow /\ store'[c] # NoWindow /\ store[c].left \in 1 .. Window
         /\ store'[c].left = store[c].left - 1 /\ store'[c].count = store[c].count
  <2>1. store[c] # NoWindow => store[c].left \in -1 .. Window
    BY <1>1 DEF LimitTyped, LimitRow
  <2>2. \A r \in LimitRow : r # NoWindow
    BY LimitFacts
  <2> QED
    BY <1>1, <2>1, <2>2, WindowAges DEF Live
<1> QED
  BY <1>6, <1>7, <1>8, <1>9

LEMMA EarnedCounted ==
    ASSUME LimitTyped, CalledInv, NEW c \in Address, EarnedOf(c),
           store'[c].count = IF Live(c) THEN store[c].count + 1 ELSE 1,
           store'[c].left = IF Live(c) THEN store[c].left ELSE Window,
           asked'[c] = [asked[c] EXCEPT ![0] = asked[c][0] + 1]
    PROVE  EarnedOf(c)' /\ store'[c].count <= Total(asked'[c], 0 .. Window)
<1> DEFINE n == store'[c].count
           e == Elapsed(c)'
           S(k) == Total(asked'[c], 0 .. k - 1)
<1>1. Window \in Nat \ {0} /\ asked[c] \in [Limits!Age -> Nat] /\ asked'[c] \in [Limits!Age -> Nat]
  <2>1. Window \in Nat \ {0} /\ 0 \in 0 .. Window + 1
    BY LimitFacts
  <2>2. asked[c] \in [Limits!Age -> Nat]
    BY DEF CalledInv
  <2> QED
    BY <2>1, <2>2, OneMore
<1>2. \A k \in 0 .. Window + 1 : S(k) = Sought(c, k) + (IF k = 0 THEN 0 ELSE 1) /\ S(k) \in Nat
  BY <1>1, OneMore, AgesTo DEF Sought
<1>3. e \in 0 .. Window /\ n \in Nat /\ n <= S(e + 1)
  <2>1. CASE Live(c)
    <3>1. e = Elapsed(c) /\ e \in 0 .. Window /\ n = store[c].count + 1 /\ store[c].count \in Nat
      BY <2>1, AdmissionTypes DEF Elapsed
    <3>2. store[c].count <= Sought(c, e + 1)
      BY <2>1, <3>1 DEF EarnedOf
    <3> HIDE DEF e, n, S
    <3>3. e + 1 \in 0 .. Window + 1 /\ e + 1 # 0
      BY <1>1, <3>1
    <3>4. S(e + 1) = Sought(c, e + 1) + 1 /\ Sought(c, e + 1) \in Nat
      BY <1>2, <3>3, AdmissionTypes
    <3> QED
      BY <3>1, <3>2, <3>4
  <2>2. CASE ~Live(c)
    <3>1. e = 0 /\ n = 1
      BY <1>1, <2>2 DEF Elapsed
    <3> HIDE DEF e, n, S
    <3>2. S(1) = Sought(c, 1) + 1 /\ Sought(c, 1) \in Nat
      BY <1>1, <1>2, AdmissionTypes
    <3> QED
      BY <1>1, <3>1, <3>2
  <2> QED
    BY <2>1, <2>2
<1>4. S(e + 1) <= S(Window + 1)
  <2> HIDE DEF e
  <2>1. Window + 1 \in 0 .. Window + 1 /\ e + 1 \in 0 .. Window + 1
    BY <1>1, <1>3
  <2> QED
    BY <1>1, <2>1, LongerTotal
<1>5. EarnedOf(c)'
  <2>1. Sought(c, Elapsed(c) + 1)' = S(e + 1)
    BY DEF Sought
  <2> QED
    BY <1>3, <2>1 DEF EarnedOf
<1>6. (Window + 1) - 1 = Window /\ S(Window + 1) \in Nat /\ S(e + 1) \in Nat
  <2> HIDE DEF e, S
  <2>1. e + 1 \in 0 .. Window + 1 /\ Window + 1 \in 0 .. Window + 1 /\ (Window + 1) - 1 = Window
    BY <1>1, <1>3
  <2> QED
    BY <1>2, <2>1
<1>7. S(Window + 1) = Total(asked'[c], 0 .. Window)
  <2>1. S(Window + 1) = Total(asked'[c], 0 .. (Window + 1) - 1)
    OBVIOUS
  <2> QED
    BY <1>6, <2>1
<1> HIDE DEF n, e, S
<1>8. n <= Total(asked'[c], 0 .. Window)
  BY <1>3, <1>4, <1>6, <1>7
<1> QED
  BY <1>5, <1>8 DEF n

LEMMA Pending ==
    ASSUME LimitInv, AdmissionInv, ~Limits!May("restart"), NEW c \in Address, Waiting(c)
    PROVE  Live(c) /\ ~store[c].ends
<1>1. PICK w \in Process : gate[w] = "expire" /\ call[w].key = c
  BY DEF Waiting
<1>2. store[c] # NoWindow /\ ~store[c].ends
  BY <1>1 DEF AdmissionInv, BegunInv
<1>3. store[c].left = Window
  BY <1>2 DEF AdmissionInv, CalledInv
<1> QED
  BY <1>2, <1>3, LimitFacts DEF Live

LEMMA CountedAtKey ==
    ASSUME LimitInv, AdmissionInv, LimitTyped', UNCHANGED limit_world,
           NEW w \in Process, NEW c \in Address, gate[w] = "incr", call[w].key = c,
           NEW r \in LimitRow, store' = [store EXCEPT ![c] = r],
           r.count = IF Live(c) THEN store[c].count + 1 ELSE 1,
           r.left = IF Live(c) THEN store[c].left ELSE Window,
           r.ends \/ r.left = Window,
           asked' = Limits!Once(asked, c),
           \A x \in Process \ {w} : gate'[x] = gate[x] /\ call'[x] = call[x],
           call'[w].key = c, call'[w].limit = call[w].limit,
           NEW b \in BOOLEAN,
           admitted' = IF b THEN Limits!Once(admitted, c) ELSE admitted,
           b => r.count <= call[w].limit,
           \/ /\ gate'[w] = "told"
              /\ b \/ call'[w].allowed \/ call[w].limit < r.count
              /\ ~call'[w].allowed => call[w].limit < r.count
              /\ ~Limits!May("restart") /\ Waiting(c) => ~r.ends
           \/ /\ gate'[w] = "expire" /\ call'[w].count = 1
              /\ store[c] = NoWindow /\ ~r.ends /\ ~b
    PROVE  AdmissionInv'
<1>1. /\ LimitTyped /\ CalledInv /\ BegunInv /\ QuotaInv /\ EarnedInv /\ c \in Address
      /\ call[w].limit \in Limit
  BY LimitFacts DEF LimitInv, AdmissionInv, CalledInv
<1>2. /\ store'[c] = r /\ r # NoWindow /\ \A x \in Address \ {c} : store'[x] = store[x]
  BY <1>1, LimitFacts DEF LimitTyped
<1>3. /\ asked' \in [Address -> [Limits!Age -> Nat]]
      /\ asked'[c] = [asked[c] EXCEPT ![0] = asked[c][0] + 1]
      /\ \A x \in Address \ {c} : asked'[x] = asked[x]
  <2>1. asked' = [asked EXCEPT ![c] = [asked[c] EXCEPT ![0] = asked[c][0] + 1]]
    BY <1>1 DEF Limits!Once, CalledInv
  <2>2. [asked[c] EXCEPT ![0] = asked[c][0] + 1] \in [Limits!Age -> Nat]
    <3>1. 0 \in 0 .. Window + 1
      BY LimitFacts
    <3> QED
      BY <1>1, <3>1, OneMore DEF CalledInv
  <2> QED
    BY <1>1, <2>1, <2>2 DEF CalledInv
<1>4. /\ admitted' \in [Address -> [Limits!Age -> Nat]]
      /\ admitted'[c] = IF b THEN [admitted[c] EXCEPT ![0] = admitted[c][0] + 1] ELSE admitted[c]
      /\ \A x \in Address \ {c} : admitted'[x] = admitted[x]
  <2>1. b => admitted' = [admitted EXCEPT ![c] = [admitted[c] EXCEPT ![0] = admitted[c][0] + 1]]
    BY <1>1 DEF Limits!Once, CalledInv
  <2>2. [admitted[c] EXCEPT ![0] = admitted[c][0] + 1] \in [Limits!Age -> Nat]
    <3>1. 0 \in 0 .. Window + 1
      BY LimitFacts
    <3> QED
      BY <1>1, <3>1, OneMore DEF CalledInv
  <2> QED
    BY <1>1, <2>1, <2>2 DEF CalledInv
<1>5. \A x \in Process : x = w \/ (gate'[x] = gate[x] /\ call'[x] = call[x])
  OBVIOUS
<1>6. CalledInv'
  <2>1. \A k \in Address : store'[k] # NoWindow /\ ~store'[k].ends => store'[k].left = Window
    BY <1>1, <1>2 DEF CalledInv
  <2>2. ASSUME NEW x \in Process
        PROVE  /\ gate'[x] # "idle" => call'[x].key \in Address /\ call'[x].limit \in Limit
               /\ gate'[x] = "expire" => call'[x].count = 1
    <3>1. CASE x = w
      BY <1>1, <3>1
    <3>2. CASE x # w
      BY <1>1, <1>5, <3>2 DEF CalledInv
    <3> QED
      BY <3>1, <3>2
  <2> QED
    BY <1>3, <1>4, <2>1, <2>2 DEF CalledInv
<1>7. ASSUME ~Limits!May("restart") PROVE Waiting(c) => Live(c) /\ ~store[c].ends
  BY <1>1, <1>7, Pending
<1>8. BegunInv'
  <2> SUFFICES ASSUME ~Limits!May("restart")
               PROVE  /\ \A x \in Process : gate'[x] = "expire" =>
                           store'[call'[x].key] # NoWindow /\ ~store'[call'[x].key].ends
                      /\ \A x, y \in Process :
                           gate'[x] = "expire" /\ gate'[y] = "expire"
                             /\ call'[x].key = call'[y].key => x = y
    BY DEF BegunInv, Limits!May
  <2>1. gate'[w] = "expire" => call'[w].key = c /\ ~r.ends /\ ~Waiting(c)
    BY <1>7 DEF Live
  <2>2. gate'[w] # "expire" => (Waiting(c) => ~r.ends)
    OBVIOUS
  <2>3. ASSUME NEW x \in Process, x # w, gate'[x] = "expire"
        PROVE  /\ gate[x] = "expire" /\ call'[x] = call[x] /\ call[x].key \in Address
               /\ store[call[x].key] # NoWindow /\ ~store[call[x].key].ends
               /\ call[x].key = c => Waiting(c)
    BY <1>1, <1>5, <2>3 DEF BegunInv, LimitTyped, Waiting
  <2>4. ASSUME NEW x \in Process, gate'[x] = "expire"
        PROVE  store'[call'[x].key] # NoWindow /\ ~store'[call'[x].key].ends
    <3>1. CASE x = w
      BY <1>2, <2>1, <2>4, <3>1
    <3>2. CASE x # w
      BY <1>2, <2>1, <2>2, <2>3, <2>4, <3>2
    <3> QED
      BY <3>1, <3>2
  <2>5. ASSUME NEW x \in Process, NEW y \in Process, gate'[x] = "expire", gate'[y] = "expire",
               call'[x].key = call'[y].key
        PROVE  x = y
    <3>1. CASE x # w /\ y # w
      BY <1>1, <2>3, <2>5, <3>1 DEF BegunInv
    <3>2. CASE x = w /\ y # w
      BY <2>1, <2>3, <2>5, <3>2
    <3>3. CASE x # w /\ y = w
      BY <2>1, <2>3, <2>5, <3>3
    <3> QED
      BY <3>1, <3>2, <3>3
  <2> QED
    BY <2>4, <2>5
<1>9. QuotaInv'
  <2> SUFFICES ASSUME ~Limits!May("restart"), NEW x \in Address PROVE QuotaOf(x)'
    BY DEF QuotaInv, Limits!May
  <2>1. QuotaOf(x)
    BY <1>1 DEF QuotaInv
  <2>2. CASE x # c
    <3>1. x \in Address /\ store'[x] = store[x] /\ admitted'[x] = admitted[x]
      BY <1>2, <1>4, <2>2, LimitFacts
    <3>2. \A y \in Process : /\ gate'[y] = "expire" /\ call'[y].key = x =>
                                  gate[y] = "expire" /\ call[y].key = x
                             /\ gate[y] = "expire" /\ call[y].key = x =>
                                  gate'[y] = "expire" /\ call'[y].key = x
      BY <1>5, <2>2
    <3>3. Waiting(x)' = Waiting(x)
      BY <3>2 DEF Waiting
    <3> QED
      BY <2>1, <3>1, <3>3, QuotaKept
  <2>3. CASE x = c
    <3>1. b => store'[c].count <= Limits!Highest
      <4>1. call[w].limit \in Nat /\ call[w].limit <= Limits!Highest /\ r.count \in Nat
            /\ Limits!Highest \in Nat
        BY <1>1, HighestLimit DEF LimitRow
      <4> QED
        BY <1>2, <4>1
    <3>2. CASE gate'[w] = "told"
      <4>1. \A y \in Process : /\ gate'[y] = "expire" /\ call'[y].key = c =>
                                    gate[y] = "expire" /\ call[y].key = c
                               /\ gate[y] = "expire" /\ call[y].key = c =>
                                    gate'[y] = "expire" /\ call'[y].key = c
        BY <1>5, <3>2
      <4>2. Waiting(c)' <=> Waiting(c)
        BY <4>1 DEF Waiting
      <4>3. Waiting(c)' <=> Live(c) /\ Waiting(c)
        BY <1>7, <4>2
      <4> QED
        BY <1>1, <1>2, <1>4, <2>1, <2>3, <3>1, <4>3, QuotaCounted
    <3>3. CASE gate'[w] # "told"
      <4>1. ~b /\ ~Live(c)
        BY <3>3 DEF Live
      <4> QED
        BY <1>1, <1>2, <1>4, <2>1, <2>3, <3>1, <4>1, QuotaCounted
    <3> QED
      BY <3>2, <3>3
  <2> QED
    BY <2>2, <2>3
<1>10. EarnedInv'
  <2> SUFFICES ASSUME Limits!Uninterrupted
               PROVE  (\A x \in Address : EarnedOf(x)') /\ \A x \in Process : ToldOf(x)'
    BY DEF EarnedInv, Limits!Uninterrupted, Limits!May
  <2>1. (\A x \in Address : EarnedOf(x)) /\ \A x \in Process : ToldOf(x)
    BY <1>1 DEF EarnedInv
  <2>2. EarnedOf(c)' /\ r.count <= Total(asked'[c], 0 .. Window)
    BY <1>1, <1>2, <1>3, <2>1, EarnedCounted
  <2>3. ASSUME NEW x \in Address PROVE EarnedOf(x)'
    <3>1. CASE x # c
      <4>1. x \in Address /\ store'[x] = store[x] /\ asked'[x] = asked[x]
        BY <1>2, <1>3, <3>1, LimitFacts
      <4> QED
        BY <2>1, <4>1, EarnedKept
    <3> QED
      BY <2>2, <3>1
  <2> DEFINE T(h) == Total(h, 0 .. Window)
  <2>4. \A x \in Address : /\ T(asked[x]) \in Nat /\ T(asked'[x]) \in Nat
                           /\ T(asked[x]) <= T(asked'[x])
    <3>1. Window + 1 \in 0 .. Window + 1 /\ (Window + 1) - 1 = Window /\ Window + 1 # 0
      BY LimitFacts
    <3>2. \A f \in [Limits!Age -> Nat] : T(f) \in Nat
      BY <3>1, AgesTo
    <3>3. T(asked'[c]) = T(asked[c]) + 1
      <4>1. asked[c] \in [Limits!Age -> Nat]
        BY <1>1 DEF CalledInv
      <4>2. Total([asked[c] EXCEPT ![0] = asked[c][0] + 1], 0 .. (Window + 1) - 1)
              = Total(asked[c], 0 .. (Window + 1) - 1) + 1
        BY <3>1, <4>1, OneMore
      <4> QED
        BY <1>3, <3>1, <4>2
    <3> HIDE DEF T
    <3>4. \A x \in Address : T(asked[x]) \in Nat /\ T(asked'[x]) \in Nat
      BY <1>1, <1>3, <3>2 DEF CalledInv
    <3> QED
      BY <1>3, <3>3, <3>4
  <2>5. (Window + 1) - 1 = Window
    BY LimitFacts
  <2>6. ASSUME NEW x \in Process PROVE ToldOf(x)'
    <3>1. CASE x = w
      <4>1. ASSUME gate'[w] = "told", ~call'[w].allowed
            PROVE  call'[w].limit < Total(asked'[c], 0 .. Window)
        <5>1. call[w].limit < r.count /\ call'[w].limit = call[w].limit
          BY <4>1
        <5>2. call[w].limit \in Nat /\ r.count \in Nat /\ T(asked'[c]) \in Nat
          BY <1>1, <2>4, HighestLimit DEF LimitRow
        <5> HIDE DEF T
        <5>3. r.count <= T(asked'[c])
          BY <2>2 DEF T
        <5>4. call'[w].limit < T(asked'[c])
          BY <5>1, <5>2, <5>3
        <5> QED
          BY <5>4 DEF T
      <4> QED
        BY <2>5, <3>1, <4>1 DEF ToldOf, Sought
    <3>2. CASE x # w
      <4>1. ASSUME gate[x] = "told", ~call[x].allowed
            PROVE  call[x].limit < Total(asked'[call[x].key], 0 .. Window)
        <5>1. call[x].limit < Sought(call[x].key, Window + 1)
          BY <2>1, <4>1 DEF ToldOf
        <5>2. PICK d \in Address : d = call[x].key
          BY <1>1, <4>1 DEF CalledInv
        <5>3. call[x].limit < T(asked[d])
          BY <2>5, <5>1, <5>2 DEF Sought
        <5>4. call[x].limit \in Nat
          BY <1>1, <4>1, HighestLimit DEF CalledInv
        <5> HIDE DEF T
        <5>5. call[x].limit < T(asked'[d])
          BY <2>4, <5>3, <5>4
        <5> QED
          BY <5>2, <5>5 DEF T
      <4> QED
        BY <1>5, <2>5, <3>2, <4>1 DEF ToldOf, Sought
    <3> QED
      BY <3>1, <3>2
  <2> QED
    BY <2>3, <2>6
<1> QED
  BY <1>6, <1>8, <1>9, <1>10 DEF AdmissionInv

LEMMA AdmissionInitially == Limits!Init => AdmissionInv
<1> SUFFICES ASSUME Limits!Init PROVE AdmissionInv
  OBVIOUS
<1>1. /\ store = [k \in Address |-> NoWindow] /\ gate = [w \in Process |-> "idle"]
      /\ asked = [c \in Address |-> [a \in Limits!Age |-> 0]] /\ admitted = asked
  BY DEF Limits!Init
<1>2. CalledInv /\ BegunInv
  BY <1>1, LimitFacts DEF CalledInv, BegunInv
<1>3. \A c \in Address : ~Live(c)
  BY <1>1, LimitFacts DEF Live
<1>4. ASSUME NEW c \in Address PROVE Lately(c, Window) <= Limits!Highest
  <2>1. \A a \in 0 .. Window - 1 : admitted[c][a] = 0
    BY <1>1, LimitFacts DEF Limits!Age
  <2>2. Lately(c, Window) = 0
    BY <2>1, TotalZero DEF Lately
  <2> QED
    BY <2>2, HighestLimit
<1> QED
  BY <1>1, <1>2, <1>3, <1>4 DEF AdmissionInv, QuotaInv, QuotaOf, EarnedInv, EarnedOf, ToldOf

LEMMA AdmissionWaits ==
    ASSUME LimitInv, AdmissionInv, LimitTyped', NEW w \in Process,
           \/ \E c \in Client, h \in Headers : Limits!Request(w, c, h)
           \/ Limits!Return(w) \/ Limits!FailClosed(w)
    PROVE  AdmissionInv'
<1>1. LimitTyped /\ UNCHANGED <<limit_world, store, asked, admitted>>
  BY DEF LimitInv, Limits!Request, Limits!Return, Limits!FailClosed
<1>2. CASE \E c \in Client, h \in Headers : Limits!Request(w, c, h)
  <2>1. PICK c \in Client, h \in Headers : Limits!Request(w, c, h)
    BY <1>2
  <2> DEFINE key == Limits!KeyFor(c, h)
             r == [Limits!Idle EXCEPT !.client = c, !.key = key, !.readable = h.readable,
                                      !.limit = limit]
  <2>2. gate[w] = "idle" /\ gate' = [gate EXCEPT ![w] = "incr"] /\ call' = [call EXCEPT ![w] = r]
    BY <2>1 DEF Limits!Request
  <2>3. key \in Address
    BY <1>1, OnesKey
  <2>4. r.key = key /\ r.limit = limit
    BY DEF Limits!Idle
  <2> HIDE DEF key, r
  <2>5. /\ gate'[w] = "incr" /\ call'[w] = r /\ limit \in Limit
        /\ \A x \in Process \ {w} : gate'[x] = gate[x] /\ call'[x] = call[x]
    BY <1>1, <2>2 DEF LimitTyped
  <2> QED
    BY <1>1, <2>2, <2>3, <2>4, <2>5, NotCounted
<1>3. CASE Limits!Return(w) \/ Limits!FailClosed(w)
  <2>1. gate' = [gate EXCEPT ![w] = "idle"] /\ call' = [call EXCEPT ![w] = Limits!Idle]
    BY <1>3 DEF Limits!Return, Limits!FailClosed
  <2>2. gate'[w] = "idle" /\ \A x \in Process \ {w} : gate'[x] = gate[x] /\ call'[x] = call[x]
    BY <1>1, <2>1 DEF LimitTyped
  <2>3. gate[w] = "expire" => ~Limits!Uninterrupted
    BY <1>3 DEF Limits!Return, Limits!FailClosed, Limits!Uninterrupted
  <2> QED
    BY <1>1, <2>2, <2>3, NotCounted
<1> QED
  BY <1>2, <1>3

LEMMA AdmissionChecks ==
    ASSUME LimitInv, AdmissionInv, LimitTyped', NEW w \in Process, Limits!Check(w)
    PROVE  AdmissionInv'
<1> DEFINE c == call[w].key
           e == IF store[c] = NoWindow \/ store[c].left < 0
                  THEN [count |-> 0, left |-> Window, ends |-> TRUE]
                ELSE store[c]
           r == [e EXCEPT !.count = e.count + 1]
           b == r.count <= call[w].limit
           d == [call[w] EXCEPT !.allowed = b]
<1>1. /\ LimitTyped /\ limit_world.backend = "memory" /\ gate[w] = "incr"
      /\ call[w].limit \in Limit /\ c \in Address /\ call[w] \in LimitCall
      /\ UNCHANGED limit_world /\ store[c] \in LimitRow \cup {NoWindow}
  BY LimitFacts DEF LimitInv, AdmissionInv, CalledInv, LimitTyped, Limits!Check
<1>2. /\ e \in [count: Nat, left: 0 .. Window, ends: BOOLEAN] /\ e.ends
      /\ e.count = (IF Live(c) THEN store[c].count ELSE 0)
      /\ e.left = (IF Live(c) THEN store[c].left ELSE Window)
  <2>1. store[c] # NoWindow => /\ store[c] \in LimitRow /\ store[c].ends
                               /\ store[c].left \in -1 .. Window /\ store[c].count \in Nat
    BY <1>1 DEF LimitInv, LimitRow
  <2>2. CASE Live(c)
    <3>1. e = store[c]
      BY <2>1, <2>2, LimitFacts DEF Live
    <3> HIDE DEF e
    <3> QED
      BY <2>1, <2>2, <3>1, LimitFacts DEF Live, LimitRow
  <2>3. CASE ~Live(c)
    <3>1. e = [count |-> 0, left |-> Window, ends |-> TRUE]
      BY <2>1, <2>3, LimitFacts DEF Live
    <3> HIDE DEF e
    <3> QED
      BY <2>3, <3>1, LimitFacts
  <2> QED
    BY <2>2, <2>3
<1>3. /\ store' = [store EXCEPT ![c] = r] /\ asked' = Limits!Once(asked, c)
      /\ gate' = [gate EXCEPT ![w] = "told"]
      /\ call' = [call EXCEPT ![w].allowed = e.count + 1 <= call[w].limit]
      /\ admitted' = IF e.count + 1 <= call[w].limit THEN Limits!Once(admitted, c) ELSE admitted
  BY <1>1 DEF Limits!Check, Limits!Tell
<1> HIDE DEF e
<1>4. r \in LimitRow /\ r.count = e.count + 1 /\ r.left = e.left /\ r.ends
  BY <1>2, LimitFacts DEF LimitRow
<1>5. /\ r.count = (IF Live(c) THEN store[c].count + 1 ELSE 1)
      /\ r.left = (IF Live(c) THEN store[c].left ELSE Window)
  <2> HIDE DEF r, c
  <2> QED
    BY <1>2, <1>4
<1>6. /\ gate'[w] = "told" /\ call'[w].key = c /\ call'[w].limit = call[w].limit
      /\ call'[w].allowed = b
      /\ \A x \in Process \ {w} : gate'[x] = gate[x] /\ call'[x] = call[x]
  BY <1>1, <1>3, <1>4 DEF LimitTyped, LimitCall
<1>7. b \in BOOLEAN /\ (~b => call[w].limit < r.count)
  <2>1. call[w].limit \in Nat /\ r.count \in Nat
    BY <1>1, <1>4 DEF LimitCall, LimitRow
  <2> HIDE DEF r
  <2> QED
    BY <2>1
<1>8. \A k \in Address : ~Waiting(k)
  BY <1>1 DEF LimitInv, Waiting
<1>9. admitted' = IF b THEN Limits!Once(admitted, c) ELSE admitted
  BY <1>3, <1>4
<1> HIDE DEF c, r, b
<1> QED
  BY <1>1, <1>3, <1>4, <1>5, <1>6, <1>7, <1>8, <1>9, CountedAtKey DEF c, b

LEMMA AdmissionIncrements ==
    ASSUME LimitInv, AdmissionInv, LimitTyped', NEW w \in Process, Limits!Incr(w)
    PROVE  AdmissionInv'
<1> DEFINE c == call[w].key
           r == IF store[c] = NoWindow THEN [count |-> 1, left |-> Window, ends |-> FALSE]
                ELSE [store[c] EXCEPT !.count = store[c].count + 1]
           b == r.count <= call[w].limit
<1>1. /\ LimitTyped /\ limit_world.backend = "redis" /\ gate[w] = "incr"
      /\ call[w].limit \in Limit /\ c \in Address /\ call[w] \in LimitCall
      /\ UNCHANGED limit_world /\ store[c] \in LimitRow \cup {NoWindow}
  BY LimitFacts DEF LimitInv, AdmissionInv, CalledInv, LimitTyped, Limits!Incr
<1>2. store[c] # NoWindow => /\ store[c] \in LimitRow /\ store[c].left >= 0
                             /\ store[c].count \in Nat \ {0}
                             /\ ~store[c].ends => store[c].left = Window
  BY <1>1 DEF LimitInv, LimitRow, AdmissionInv, CalledInv
<1>3. Live(c) <=> store[c] # NoWindow
  BY <1>2 DEF Live
<1>4. /\ store' = [store EXCEPT ![c] = r] /\ asked' = Limits!Once(asked, c)
  BY <1>1 DEF Limits!Incr, LimitTyped
<1>5. CASE store[c] = NoWindow
  <2>1. /\ gate' = [gate EXCEPT ![w] = "expire"] /\ call' = [call EXCEPT ![w].count = 1]
        /\ UNCHANGED admitted
    BY <1>1, <1>5 DEF Limits!Incr
  <2>2. /\ gate'[w] = "expire" /\ call'[w].key = c /\ call'[w].limit = call[w].limit
        /\ call'[w].count = 1
        /\ \A x \in Process \ {w} : gate'[x] = gate[x] /\ call'[x] = call[x]
    BY <1>1, <2>1 DEF LimitTyped, LimitCall
  <2>3. r \in LimitRow /\ r.count = 1 /\ r.left = Window /\ ~r.ends
    BY <1>5, LimitFacts DEF LimitRow
  <2>4. admitted' = IF FALSE THEN Limits!Once(admitted, c) ELSE admitted
    BY <2>1
  <2> HIDE DEF c, r
  <2> QED
    BY <1>1, <1>3, <1>4, <1>5, <2>2, <2>3, <2>4, CountedAtKey DEF c
<1>6. CASE store[c] # NoWindow
  <2>1. r = [store[c] EXCEPT !.count = store[c].count + 1]
    BY <1>6
  <2> HIDE DEF r
  <2>2. /\ r \in LimitRow /\ r.count = store[c].count + 1 /\ r.left = store[c].left
        /\ r.ends = store[c].ends
    BY <1>2, <1>6, <2>1 DEF LimitRow
  <2>3. Limits!Tell(w, r.count)
    <3>1. store[c].count + 1 # 1
      BY <1>2, <1>6
    <3> QED
      BY <1>1, <1>6, <2>2, <3>1 DEF Limits!Incr
  <2>4. /\ gate'[w] = "told" /\ call'[w].key = c /\ call'[w].limit = call[w].limit
        /\ call'[w].allowed = b
        /\ \A x \in Process \ {w} : gate'[x] = gate[x] /\ call'[x] = call[x]
        /\ admitted' = IF b THEN Limits!Once(admitted, c) ELSE admitted
    BY <1>1, <2>3 DEF LimitTyped, LimitCall, Limits!Tell
  <2>5. b \in BOOLEAN /\ (~b => call[w].limit < r.count)
    <3>1. call[w].limit \in Nat /\ r.count \in Nat
      BY <1>1, <2>2 DEF LimitCall, LimitRow
    <3> QED
      BY <3>1
  <2>6. ~Limits!May("restart") /\ Waiting(c) => ~r.ends
    BY <1>1, <2>2, Pending
  <2>7. /\ r.count = (IF Live(c) THEN store[c].count + 1 ELSE 1)
        /\ r.left = (IF Live(c) THEN store[c].left ELSE Window)
        /\ r.ends \/ r.left = Window
    BY <1>2, <1>3, <1>6, <2>2
  <2>8. store' = [store EXCEPT ![c] = r]
    BY <1>4 DEF r
  <2> HIDE DEF c, b
  <2> QED
    BY <1>1, <1>4, <2>2, <2>4, <2>5, <2>6, <2>7, <2>8, CountedAtKey DEF c, b
<1> QED
  BY <1>5, <1>6

LEMMA AdmissionExpires ==
    ASSUME LimitInv, AdmissionInv, LimitTyped', NEW w \in Process, Limits!Expire(w)
    PROVE  AdmissionInv'
<1> DEFINE b == 1 <= call[w].limit
<1>c. PICK c \in Address : c = call[w].key
  BY DEF AdmissionInv, CalledInv, Limits!Expire
<1>1. /\ LimitTyped /\ limit_world.backend = "redis" /\ gate[w] = "expire"
      /\ call[w].key = c /\ call[w].limit \in Limit /\ c \in Address /\ call[w] \in LimitCall
      /\ call[w].count = 1 /\ UNCHANGED <<limit_world, asked>>
      /\ store[c] \in LimitRow \cup {NoWindow}
      /\ CalledInv /\ BegunInv /\ QuotaInv /\ EarnedInv /\ Waiting(c)
  BY <1>c, LimitFacts DEF LimitInv, AdmissionInv, CalledInv, LimitTyped, Limits!Expire, Waiting
<1>2. /\ \A k \in Address \ {c} : store'[k] = store[k]
      /\ store'[c] = IF store[c] = NoWindow THEN NoWindow
                     ELSE [store[c] EXCEPT !.left = Window, !.ends = TRUE]
  BY <1>1 DEF Limits!Expire, LimitTyped
<1>3. store[c] # NoWindow => /\ store'[c] # NoWindow /\ store'[c].count = store[c].count
                             /\ store'[c].left = Window /\ store'[c].ends
  <2> SUFFICES ASSUME store[c] # NoWindow
               PROVE  /\ store'[c] # NoWindow /\ store'[c].count = store[c].count
                      /\ store'[c].left = Window /\ store'[c].ends
    OBVIOUS
  <2>1. store[c] \in LimitRow /\ store'[c] = [store[c] EXCEPT !.left = Window, !.ends = TRUE]
    BY <1>1, <1>2
  <2>2. Window \in -1 .. Window
    BY LimitFacts
  <2>3. store'[c] \in LimitRow
    BY <2>1, <2>2 DEF LimitRow
  <2> QED
    BY <2>1, <2>3, LimitFacts DEF LimitRow
<1>4. /\ gate'[w] = "told" /\ call'[w].key = c /\ call'[w].limit = call[w].limit
      /\ call'[w].allowed = b
      /\ \A x \in Process : x = w \/ (gate'[x] = gate[x] /\ call'[x] = call[x])
      /\ admitted' = IF b THEN Limits!Once(admitted, c) ELSE admitted
  BY <1>c, <1>1 DEF LimitTyped, LimitCall, Limits!Expire, Limits!Tell
<1>5. /\ admitted' \in [Address -> [Limits!Age -> Nat]]
      /\ admitted'[c] = IF b THEN [admitted[c] EXCEPT ![0] = admitted[c][0] + 1] ELSE admitted[c]
      /\ \A x \in Address \ {c} : admitted'[x] = admitted[x]
  <2>1. b => admitted' = [admitted EXCEPT ![c] = [admitted[c] EXCEPT ![0] = admitted[c][0] + 1]]
    BY <1>1, <1>4 DEF Limits!Once, CalledInv
  <2>2. [admitted[c] EXCEPT ![0] = admitted[c][0] + 1] \in [Limits!Age -> Nat]
    <3>1. 0 \in 0 .. Window + 1
      BY LimitFacts
    <3> QED
      BY <1>1, <3>1, OneMore DEF CalledInv
  <2> HIDE DEF b
  <2>3. admitted \in [Address -> [Limits!Age -> Nat]] /\ b \in BOOLEAN
    BY <1>1 DEF CalledInv, b
  <2>4. CASE b
    BY <2>1, <2>2, <2>3, <2>4
  <2>5. CASE ~b
    BY <1>4, <2>3, <2>5
  <2> QED
    BY <2>3, <2>4, <2>5
<1>6. ASSUME NEW x \in Process, x # w, gate'[x] = "expire"
      PROVE  /\ gate[x] = "expire" /\ call'[x] = call[x] /\ call[x].key \in Address
             /\ ~Limits!May("restart") =>
                  /\ call[x].key # c
                  /\ store[call[x].key] # NoWindow /\ ~store[call[x].key].ends
  BY <1>1, <1>4, <1>6 DEF BegunInv, LimitTyped
<1> HIDE DEF b
<1>7. CalledInv'
  <2>1. \A k \in Address : store'[k] # NoWindow /\ ~store'[k].ends => store'[k].left = Window
    BY <1>1, <1>2, <1>3 DEF CalledInv
  <2>2. ASSUME NEW x \in Process
        PROVE  /\ gate'[x] # "idle" => call'[x].key \in Address /\ call'[x].limit \in Limit
               /\ gate'[x] = "expire" => call'[x].count = 1
    <3>1. CASE x = w
      BY <1>1, <1>4, <3>1
    <3>2. CASE x # w
      BY <1>1, <1>4, <3>2 DEF CalledInv
    <3> QED
      BY <3>1, <3>2
  <2> QED
    BY <1>1, <1>5, <2>1, <2>2 DEF CalledInv
<1>8. BegunInv'
  <2> SUFFICES ASSUME ~Limits!May("restart")
               PROVE  /\ \A x \in Process : gate'[x] = "expire" =>
                           store'[call'[x].key] # NoWindow /\ ~store'[call'[x].key].ends
                      /\ \A x, y \in Process :
                           gate'[x] = "expire" /\ gate'[y] = "expire"
                             /\ call'[x].key = call'[y].key => x = y
    BY <1>1 DEF BegunInv, Limits!May
  <2>1. \A x \in Process : gate'[x] = "expire" => x # w
    BY <1>4
  <2> QED
    BY <1>1, <1>2, <1>6, <2>1 DEF BegunInv
<1>9. QuotaInv'
  <2> SUFFICES ASSUME ~Limits!May("restart"), NEW x \in Address PROVE QuotaOf(x)'
    BY <1>1 DEF QuotaInv, Limits!May
  <2>1. QuotaOf(x)
    BY <1>1 DEF QuotaInv
  <2>2. CASE x # c
    <3>1. x \in Address /\ store'[x] = store[x] /\ admitted'[x] = admitted[x]
      BY <1>2, <1>5, <2>2, LimitFacts
    <3>2. \A y \in Process : /\ gate'[y] = "expire" /\ call'[y].key = x =>
                                  gate[y] = "expire" /\ call[y].key = x
                             /\ gate[y] = "expire" /\ call[y].key = x =>
                                  gate'[y] = "expire" /\ call'[y].key = x
      BY <1>1, <1>4, <2>2
    <3>3. Waiting(x)' = Waiting(x)
      BY <3>2 DEF Waiting
    <3> QED
      BY <2>1, <3>1, <3>3, QuotaKept
  <2>3. CASE x = c
    <3>1. Live(c) /\ ~store[c].ends
      BY <1>1, Pending
    <3>2. store[c] # NoWindow /\ store[c].left = Window
      BY <1>1, <3>1 DEF Live, CalledInv
    <3>3. ~Waiting(c)'
      <4>1. \A y \in Process : ~(gate'[y] = "expire" /\ call'[y].key = c)
        BY <1>4, <1>6
      <4> QED
        BY <4>1 DEF Waiting
    <3>4. b \in BOOLEAN /\ (b => 1 <= Limits!Highest)
      <4>1. call[w].limit \in Nat /\ call[w].limit <= Limits!Highest /\ Limits!Highest \in Nat
        BY <1>1, HighestLimit
      <4> QED
        BY <4>1 DEF b
    <3> QED
      BY <1>1, <1>3, <1>5, <2>1, <2>3, <3>1, <3>2, <3>3, <3>4, QuotaEnds
  <2> QED
    BY <2>2, <2>3
<1>10. EarnedInv'
  <2> SUFFICES ASSUME Limits!Uninterrupted
               PROVE  (\A x \in Address : EarnedOf(x)') /\ \A x \in Process : ToldOf(x)'
    BY <1>1 DEF EarnedInv, Limits!Uninterrupted, Limits!May
  <2>1. (\A x \in Address : EarnedOf(x)) /\ \A x \in Process : ToldOf(x)
    BY <1>1 DEF EarnedInv
  <2>2. store[c] # NoWindow /\ store[c].left = Window /\ Live(c) /\ Live(c)' /\ Elapsed(c) = 0
    <3>1. store[c] # NoWindow /\ store[c].left = Window
      BY <1>1 DEF LimitInv
    <3> QED
      BY <1>3, <3>1, LimitFacts DEF Live, Elapsed
  <2>3. ASSUME NEW x \in Address PROVE EarnedOf(x)'
    <3>1. CASE x # c
      <4>1. x \in Address /\ store'[x] = store[x] /\ asked'[x] = asked[x]
        BY <1>1, <1>2, <3>1, LimitFacts
      <4> QED
        BY <2>1, <4>1, EarnedKept
    <3>2. CASE x = c
      <4>1. store'[c].count = store[c].count /\ Elapsed(c)' = Elapsed(c)
        BY <1>3, <2>2 DEF Elapsed
      <4>2. Sought(c, Elapsed(c) + 1)' = Sought(c, Elapsed(c) + 1)
        BY <1>1, <4>1 DEF Sought
      <4> QED
        BY <2>1, <2>2, <3>2, <4>1, <4>2 DEF EarnedOf
    <3> QED
      BY <3>1, <3>2
  <2>4. ASSUME NEW x \in Process PROVE ToldOf(x)'
    <3>1. CASE x # w
      BY <1>1, <1>4, <2>1, <3>1 DEF ToldOf, Sought
    <3>2. CASE x = w
      <4>1. store[c].count <= Sought(c, 1) /\ store[c].count \in Nat \ {0}
        BY <1>1, <2>1, <2>2, AdmissionTypes DEF EarnedOf
      <4>2. 1 \in 0 .. Window + 1 /\ Window + 1 \in 0 .. Window + 1
        BY LimitFacts
      <4>3. Sought(c, 1) \in Nat /\ Sought(c, Window + 1) \in Nat
        BY <1>1, <4>2, AdmissionTypes
      <4>4. Sought(c, 1) <= Sought(c, Window + 1)
        BY <1>1, <4>2, LongerTotal DEF Sought, CalledInv
      <4>5. ~b => call[w].limit < Sought(c, Window + 1)
        <5>1. call[w].limit \in Nat
          BY <1>1, HighestLimit
        <5> QED
          BY <4>1, <4>3, <4>4, <5>1 DEF b
      <4>6. Sought(call[w].key, Window + 1)' = Sought(c, Window + 1)
        BY <1>1, <1>4 DEF Sought
      <4> QED
        BY <1>4, <3>2, <4>5, <4>6 DEF ToldOf
    <3> QED
      BY <3>1, <3>2
  <2> QED
    BY <2>3, <2>4
<1> QED
  BY <1>7, <1>8, <1>9, <1>10 DEF AdmissionInv

LEMMA AdmissionForgets ==
    ASSUME LimitInv, AdmissionInv, LimitTyped', Limits!Sweep \/ Limits!Restart
    PROVE  AdmissionInv'
<1>1. LimitTyped /\ UNCHANGED <<limit_world, asked, admitted>> /\ CalledInv
  BY DEF LimitInv, AdmissionInv, Limits!Sweep, Limits!Restart
<1>2. CASE Limits!Sweep
  <2>1. /\ limit_world.backend = "memory" /\ UNCHANGED <<gate, call>>
        /\ \A k \in Address : store'[k] = IF store[k] # NoWindow /\ store[k].left <= 0
                                           THEN NoWindow ELSE store[k]
    BY <1>2 DEF Limits!Sweep
  <2>2. \A w \in Process : gate[w] # "expire"
    BY <2>1 DEF LimitInv
  <2>3. CalledInv' /\ BegunInv'
    BY <1>1, <2>1, <2>2 DEF CalledInv, BegunInv
  <2>4. QuotaInv'
    <3> SUFFICES ASSUME ~Limits!May("restart"), NEW c \in Address PROVE QuotaOf(c)'
      BY <1>1 DEF QuotaInv, Limits!May
    <3>1. QuotaOf(c) /\ c \in Address
      BY LimitFacts DEF AdmissionInv, QuotaInv
    <3>2. CASE store'[c] = store[c]
      <4>1. Waiting(c)' = Waiting(c)
        BY <2>1 DEF Waiting
      <4> QED
        BY <1>1, <3>1, <3>2, <4>1, QuotaKept
    <3>3. CASE store'[c] # store[c]
      <4>1. store[c] # NoWindow /\ store[c].left <= 0 /\ store'[c] = NoWindow
        BY <2>1, <3>1, <3>3
      <4>2. store[c].left \in -1 .. Window
        BY <1>1, <3>1, <4>1 DEF LimitTyped, LimitRow
      <4>3. Lately(c, Window) <= Limits!Highest
        <5>1. CASE Live(c)
          <6>1. Elapsed(c) = Window
            BY <4>1, <4>2, <5>1, LimitFacts DEF Live, Elapsed
          <6>2. Lately(c, Window) <= Used(c) /\ Used(c) \in 0 .. Limits!Highest
            BY <1>1, <3>1, <5>1, <6>1, AdmissionTypes DEF QuotaOf
          <6>3. Lately(c, Window) \in Nat
            <7>1. Window \in 0 .. Window + 1
              BY LimitFacts
            <7> QED
              BY <1>1, <7>1, AdmissionTypes
          <6> QED
            BY <6>2, <6>3, HighestLimit
        <5>2. CASE ~Live(c)
          BY <3>1, <5>2 DEF QuotaOf
        <5> QED
          BY <5>1, <5>2
      <4>4. ~Live(c)' /\ Lately(c, Window)' = Lately(c, Window)
        BY <1>1, <4>1 DEF Live, Lately
      <4> QED
        BY <4>3, <4>4 DEF QuotaOf, Limits!Highest
    <3> QED
      BY <3>2, <3>3
  <2>5. EarnedInv'
    <3> SUFFICES ASSUME Limits!Uninterrupted
                 PROVE  (\A c \in Address : EarnedOf(c)') /\ \A x \in Process : ToldOf(x)'
      BY <1>1 DEF EarnedInv, Limits!Uninterrupted, Limits!May
    <3>1. (\A c \in Address : EarnedOf(c)) /\ \A x \in Process : ToldOf(x)
      BY DEF AdmissionInv, EarnedInv
    <3>2. ASSUME NEW c \in Address PROVE EarnedOf(c)'
      <4>1. c \in Address /\ (store'[c] = store[c] \/ store'[c] = NoWindow)
        BY <2>1, LimitFacts
      <4>2. CASE store'[c] = store[c]
        BY <1>1, <3>1, <4>2, EarnedKept
      <4>3. CASE store'[c] = NoWindow
        BY <4>3 DEF EarnedOf, Live
      <4> QED
        BY <4>1, <4>2, <4>3
    <3>3. \A x \in Process : ToldOf(x)'
      BY <1>1, <2>1, <3>1 DEF ToldOf, Sought
    <3> QED
      BY <3>2, <3>3
  <2> QED
    BY <2>3, <2>4, <2>5 DEF AdmissionInv
<1>3. CASE Limits!Restart
  <2>1. /\ Limits!May("restart") /\ \A w \in Process : gate'[w] = "idle"
        /\ store' = IF limit_world.backend = "memory" THEN [k \in Address |-> NoWindow] ELSE store
    BY <1>3 DEF Limits!Restart
  <2>2. CalledInv'
    BY <1>1, <2>1 DEF CalledInv
  <2>3. BegunInv' /\ QuotaInv'
    BY <1>1, <2>1 DEF BegunInv, QuotaInv, Limits!May
  <2>4. Limits!Uninterrupted => \A c \in Address : store'[c] = NoWindow
    <3>1. Limits!Uninterrupted => limit_world.backend = "memory"
      BY <1>1, <2>1, LimitFacts DEF Limits!Uninterrupted, LimitTyped
    <3> QED
      BY <2>1, <3>1, LimitFacts
  <2>5. EarnedInv'
    BY <1>1, <2>1, <2>4 DEF EarnedInv, EarnedOf, ToldOf, Live, Limits!Uninterrupted, Limits!May
  <2> QED
    BY <2>2, <2>3, <2>5 DEF AdmissionInv
<1> QED
  BY <1>2, <1>3

LEMMA AdmissionAges ==
    ASSUME LimitInv, AdmissionInv, LimitTyped', Limits!Tick
    PROVE  AdmissionInv'
<1>1. LimitTyped /\ CalledInv /\ UNCHANGED <<limit_world, gate, call>>
  BY DEF LimitInv, AdmissionInv, Limits!Tick
<1>2. CalledInv'
  <2>1. \A k \in Address : store'[k] # NoWindow /\ ~store'[k].ends => store'[k].left = Window
    BY <1>1, WindowAges DEF CalledInv
  <2>2. ASSUME NEW history \in [Address -> [Limits!Age -> Nat]]
        PROVE  Limits!Older(history) \in [Address -> [Limits!Age -> Nat]]
    <3>1. 0 \in 0 .. Window
      BY LimitFacts
    <3>2. \A c \in Address : [a \in Limits!Age |-> IF a = 0 THEN 0 ELSE history[c][a - 1]]
                                \in [Limits!Age -> Nat]
      BY <3>1, OneOlder
    <3> QED
      BY <3>2 DEF Limits!Older
  <2>3. asked' = Limits!Older(asked) /\ admitted' = Limits!Older(admitted)
    BY DEF Limits!Tick
  <2>4. /\ asked' \in [Address -> [Limits!Age -> Nat]]
        /\ admitted' \in [Address -> [Limits!Age -> Nat]]
    BY <1>1, <2>2, <2>3 DEF CalledInv
  <2> QED
    BY <1>1, <2>1, <2>4 DEF CalledInv
<1>3. BegunInv'
  <2> SUFFICES ASSUME ~Limits!May("restart") PROVE BegunInv'
    BY <1>1 DEF BegunInv, Limits!May
  <2>1. ASSUME NEW w \in Process, gate'[w] = "expire"
        PROVE  store'[call'[w].key] # NoWindow /\ ~store'[call'[w].key].ends
    <3>1. PICK k \in Address : k = call[w].key
      BY <1>1, <2>1 DEF LimitTyped
    <3>2. store[k] # NoWindow /\ ~store[k].ends
      BY <1>1, <2>1, <3>1 DEF AdmissionInv, BegunInv
    <3>3. store[k].left = Window /\ Window # 0
      BY <1>1, <3>2, LimitFacts DEF CalledInv
    <3>4. store'[k] = store[k]
      BY <1>1, <3>2, <3>3, WindowAges
    <3> QED
      BY <1>1, <3>1, <3>2, <3>4
  <2> QED
    BY <1>1, <2>1 DEF AdmissionInv, BegunInv
<1>4. QuotaInv'
  BY <1>1, QuotaAged DEF AdmissionInv, QuotaInv, Limits!May
<1>5. EarnedInv'
  <2> SUFFICES ASSUME Limits!Uninterrupted
               PROVE  (\A c \in Address : EarnedOf(c)') /\ \A x \in Process : ToldOf(x)'
    BY <1>1 DEF EarnedInv, Limits!Uninterrupted, Limits!May
  <2>1. \A w \in Process : gate[w] = "idle"
    BY DEF Limits!Tick, Limits!Uninterrupted
  <2>2. \A k \in Address : store[k] # NoWindow => store[k].ends
    BY <1>1, <2>1, LimitFacts DEF LimitInv, LimitTyped
  <2>3. ASSUME NEW c \in Address, Live(c)' PROVE EarnedOf(c)'
    <3>1. c \in Address /\ Window \in Nat
      BY LimitFacts
    <3>2. store'[c] # NoWindow /\ store'[c].left >= 0
      BY <2>3 DEF Live
    <3>3. /\ store[c] # NoWindow /\ store'[c].count = store[c].count
          /\ store[c].left \in 1 .. Window /\ store'[c].left = store[c].left - 1
      <4>1. store[c] # NoWindow => store[c].left \in -1 .. Window
        BY <1>1, <3>1 DEF LimitTyped, LimitRow
      <4> QED
        BY <1>1, <2>2, <3>1, <3>2, <4>1, WindowAges
    <3>4. Live(c) /\ Elapsed(c)' = Elapsed(c) + 1 /\ Elapsed(c) + 1 \in 0 .. Window
          /\ Elapsed(c) \in Int
      BY <3>1, <3>3 DEF Live, Elapsed
    <3>5. store[c].count <= Sought(c, Elapsed(c) + 1)
      BY <3>4 DEF AdmissionInv, EarnedInv, EarnedOf
    <3>6. Sought(c, Elapsed(c) + 1)' = Total(asked'[c], 0 .. Elapsed(c) + 1)
      <4>1. Sought(c, Elapsed(c) + 1)' = Total(asked'[c], 0 .. (Elapsed(c)' + 1) - 1)
        BY DEF Sought
      <4>2. (Elapsed(c)' + 1) - 1 = Elapsed(c) + 1
        BY <3>4
      <4> QED
        BY <4>1, <4>2
    <3>7. Sought(c, Elapsed(c) + 1)' = Sought(c, Elapsed(c) + 1)
      BY <1>1, <3>4, <3>6, HistoryAges
    <3> QED
      BY <3>3, <3>5, <3>7 DEF EarnedOf
  <2>4. \A c \in Address : ~Live(c)' => EarnedOf(c)'
    BY DEF EarnedOf
  <2>5. \A x \in Process : ToldOf(x)'
    BY <1>1, <2>1 DEF ToldOf
  <2> QED
    BY <2>3, <2>4, <2>5
<1> QED
  BY <1>2, <1>3, <1>4, <1>5 DEF AdmissionInv

LEMMA AdmissionStays ==
    ASSUME AdmissionInv, UNCHANGED <<limit_world, store, gate, call, asked, admitted>>
    PROVE  AdmissionInv'
<1>1. CalledInv' /\ BegunInv'
  BY DEF AdmissionInv, CalledInv, BegunInv, Limits!May
<1>2. \A k : Live(k)' = Live(k) /\ Elapsed(k)' = Elapsed(k) /\ Used(k)' = Used(k)
  BY DEF Live, Elapsed, Used, Waiting, Limits!Highest
<1>3. QuotaInv'
  BY <1>2 DEF AdmissionInv, QuotaInv, QuotaOf, Lately, Limits!Highest, Limits!May
<1>4. EarnedInv'
  BY <1>2 DEF AdmissionInv, EarnedInv, EarnedOf, ToldOf, Sought, Limits!Uninterrupted, Limits!May
<1> QED
  BY <1>1, <1>3, <1>4 DEF AdmissionInv

LEMMA AdmissionNext ==
    LimitInv /\ AdmissionInv /\ [Limits!Next]_limitVars => AdmissionInv'
<1> SUFFICES ASSUME LimitInv, AdmissionInv, [Limits!Next]_limitVars PROVE AdmissionInv'
  OBVIOUS
<1>1. LimitTyped'
  BY NextLimits DEF LimitInv
<1>2. CASE UNCHANGED limitVars
  BY <1>2, AdmissionStays DEF limitVars
<1>3. CASE \E n \in Limit : Limits!Configure(n)
  BY <1>3, AdmissionStays DEF Limits!Configure
<1>4. CASE \E w \in Process : Limits!Check(w) \/ Limits!Incr(w) \/ Limits!Expire(w)
  BY <1>1, <1>4, AdmissionChecks, AdmissionIncrements, AdmissionExpires
<1>5. CASE \E w \in Process : \/ \E c \in Client, h \in Headers : Limits!Request(w, c, h)
                              \/ Limits!Return(w) \/ Limits!FailClosed(w)
  BY <1>1, <1>5, AdmissionWaits
<1>6. CASE Limits!Sweep \/ Limits!Restart
  BY <1>1, <1>6, AdmissionForgets
<1>7. CASE Limits!Tick
  BY <1>1, <1>7, AdmissionAges
<1> QED
  BY <1>2, <1>3, <1>4, <1>5, <1>6, <1>7 DEF Limits!Next

LEMMA AdmissionHolds ==
    ASSUME LimitInv, AdmissionInv
    PROVE  Limits!TypeOK /\ Limits!AdmittedBounded /\ Limits!DeniedIsEarned
<1>1. LimitTyped /\ CalledInv /\ Window \in Nat \ {0} /\ Limits!Highest \in Nat
  BY LimitFacts, HighestLimit DEF LimitInv, AdmissionInv
<1>2. Limits!TypeOK
  BY <1>1 DEF LimitTyped, CalledInv, Limits!TypeOK, LimitRow
<1>3. Limits!AdmittedBounded
  <2> SUFFICES ASSUME ~Limits!May("restart"), NEW c \in Address
               PROVE  Limits!AdmittedLately(c) <= 2 * Limits!Highest
    BY DEF Limits!AdmittedBounded
  <2>1. QuotaOf(c)
    BY DEF AdmissionInv, QuotaInv
  <2>2. Limits!AdmittedLately(c) = Lately(c, Window)
    BY <1>1, LatelySum DEF CalledInv
  <2>3. Lately(c, Window) \in Nat
    <3>1. Window \in 0 .. Window + 1
      BY <1>1
    <3> QED
      BY <1>1, <3>1, AdmissionTypes
  <2> DEFINE l == Lately(c, Window)
             h == Limits!Highest
  <2>4. l <= h + h
    <3>1. CASE Live(c)
      <4>1. l <= h + Used(c) /\ Used(c) \in 0 .. h
        BY <1>1, <2>1, <3>1, AdmissionTypes DEF QuotaOf
      <4>2. PICK u \in 0 .. h : u = Used(c)
        BY <4>1
      <4>3. l <= h + u
        BY <4>1, <4>2
      <4> HIDE DEF l, h
      <4>4. l \in Nat /\ h \in Nat
        BY <1>1, <2>3 DEF l, h
      <4> QED
        BY <4>2, <4>3, <4>4
    <3>2. CASE ~Live(c)
      <4>1. l <= h
        BY <2>1, <3>2 DEF QuotaOf
      <4> QED
        BY <1>1, <2>3, <4>1
    <3> QED
      BY <3>1, <3>2
  <2> HIDE DEF l, h
  <2>5. h \in Nat /\ l \in Nat /\ Limits!AdmittedLately(c) = l
    BY <1>1, <2>2, <2>3 DEF l, h
  <2>6. l <= 2 * h
    BY <2>4, <2>5
  <2> QED
    BY <2>5, <2>6 DEF h
<1>4. Limits!DeniedIsEarned
  <2> SUFFICES ASSUME Limits!Uninterrupted, NEW w \in Process, gate[w] = "told", ~call[w].allowed
               PROVE  Limits!Within(asked, call[w].key) > call[w].limit
    BY DEF Limits!DeniedIsEarned
  <2>1. PICK c \in Address : c = call[w].key
    BY <1>1 DEF CalledInv
  <2>2. call[w].limit \in Nat
    BY <1>1, HighestLimit DEF CalledInv
  <2>3. call[w].limit < Sought(c, Window + 1)
    BY <2>1 DEF AdmissionInv, EarnedInv, ToldOf
  <2>4. (Window + 1) - 1 = Window /\ Window + 1 \in 0 .. Window + 1
    BY <1>1
  <2>5. Limits!Within(asked, c) = Sought(c, Window + 1) /\ Sought(c, Window + 1) \in Nat
    BY <1>1, <2>4, WithinSum, AdmissionTypes DEF CalledInv, Sought
  <2> QED
    BY <2>1, <2>2, <2>3, <2>5
<1> QED
  BY <1>2, <1>3, <1>4

(* Whose key it is, is said when a request comes, and stays so.            *)
LEMMA KeysStay ==
    ASSUME LimitTyped, Limits!KeyOfClient, [Limits!Next]_limitVars
    PROVE  Limits!KeyOfClient'
<1> DEFINE Own(d, x) ==
             /\ \/ d.readable \/ x.proxies = 0
                \/ x.proxies = 1 /\ x.real = "set"
                => d.key = d.client
             /\ x.real # "passed" => d.key \in {d.client, Proxy}
<1>1. /\ \A w \in Process : gate[w] # "idle" => Own(call[w], limit_world)
      /\ limit_world' = limit_world
  <2>1. \A w \in Process : gate[w] # "idle" => Own(call[w], limit_world)
    BY DEF Limits!KeyOfClient
  <2>2. limit_world' = limit_world
    BY DEF Limits!Next, limitVars, Limits!Request, Limits!Check, Limits!Incr, Limits!Expire,
           Limits!FailClosed, Limits!Return, Limits!Configure, Limits!Sweep, Limits!Restart,
           Limits!Tick
  <2> QED
    BY <2>1, <2>2
<1>2. SUFFICES ASSUME NEW w \in Process, gate'[w] # "idle" PROVE Own(call'[w], limit_world)
  BY <1>1, <1>2 DEF Limits!KeyOfClient
<1>3. CASE gate[w] # "idle" /\ call'[w].key = call[w].key /\ call'[w].client = call[w].client
           /\ call'[w].readable = call[w].readable
  BY <1>1, <1>3
<1>4. CASE \E c \in Client, h \in Headers : Limits!Request(w, c, h)
  <2>1. PICK c \in Client, h \in Headers : Limits!Request(w, c, h)
    BY <1>4
  <2>2. call'[w] = [Limits!Idle EXCEPT !.client = c, !.key = Limits!KeyFor(c, h),
                                       !.readable = h.readable, !.limit = limit]
    BY <2>1 DEF Limits!Request, LimitTyped
  <2>3. /\ call'[w].client = c /\ call'[w].key = Limits!KeyFor(c, h)
        /\ call'[w].readable = h.readable
    BY <2>2 DEF Limits!Idle
  <2> QED
    BY <2>3, OnesKey
<1>5. ASSUME NEW x \in Process,
             \/ \E c \in Client, h \in Headers : Limits!Request(x, c, h)
             \/ Limits!Check(x) \/ Limits!Incr(x) \/ Limits!Expire(x)
             \/ Limits!FailClosed(x) \/ Limits!Return(x)
      PROVE  Own(call'[w], limit_world)
  <2>1. CASE w # x
    <3>1. gate'[w] = gate[w] /\ call'[w] = call[w]
      BY <1>5, <2>1 DEF LimitTyped, Limits!Request, Limits!Check, Limits!Incr, Limits!Expire,
           Limits!FailClosed, Limits!Return, Limits!Tell
    <3> QED
      BY <1>2, <1>3, <3>1
  <2>2. CASE w = x /\ (Limits!Check(w) \/ Limits!Incr(w) \/ Limits!Expire(w))
    <3>1. gate[w] # "idle" /\ call[w] \in LimitCall
      BY <2>2 DEF Limits!Check, Limits!Incr, Limits!Expire, LimitTyped
    <3>2. \/ \E n : call' = [call EXCEPT ![w].allowed = n <= call[w].limit]
          \/ \E n : call' = [call EXCEPT ![w].count = n]
      BY <2>2 DEF Limits!Check, Limits!Incr, Limits!Expire, Limits!Tell
    <3>3. /\ call'[w].key = call[w].key /\ call'[w].client = call[w].client
          /\ call'[w].readable = call[w].readable
      BY <3>1, <3>2 DEF LimitTyped, LimitCall
    <3> QED
      BY <1>3, <3>1, <3>3
  <2>3. CASE w = x /\ (Limits!FailClosed(w) \/ Limits!Return(w))
    BY <1>2, <2>3 DEF Limits!FailClosed, Limits!Return, LimitTyped
  <2> QED
    BY <1>4, <1>5, <2>1, <2>2, <2>3
<1>6. CASE Limits!Restart
  BY <1>2, <1>6 DEF Limits!Restart
<1>7. CASE UNCHANGED <<gate, call>>
  BY <1>2, <1>3, <1>7
<1> QED
  BY <1>5, <1>6, <1>7 DEF Limits!Next, limitVars, Limits!Configure, Limits!Sweep, Limits!Tick

AdmissionSide == side = "limits" => LimitInv /\ AdmissionInv /\ Limits!KeyOfClient

LEMMA LimitsSideHolds ==
    PlatformSpec => [](side = "limits" => /\ Limits!TypeOK
                                          /\ Limits!AdmittedBounded /\ Limits!DeniedIsEarned
                                          /\ Limits!KeyOfClient)
<1>1. PlatformInit => AdmissionSide
  <2>1. Limits!Init => Limits!KeyOfClient
    BY DEF Limits!Init, Limits!KeyOfClient
  <2> QED
    BY <2>1, InitLimits, AdmissionInitially DEF PlatformInit, AdmissionSide
<1>2. AdmissionSide /\ [PlatformNext]_platformVars => AdmissionSide'
  <2>1. LimitInv => LimitTyped
    BY DEF LimitInv
  <2> QED
    BY <2>1, NextLimits, AdmissionNext, KeysStay DEF AdmissionSide, PlatformNext, platformVars
<1>3. AdmissionSide => (side = "limits" => /\ Limits!TypeOK
                                           /\ Limits!AdmittedBounded /\ Limits!DeniedIsEarned
                                           /\ Limits!KeyOfClient)
  BY AdmissionHolds DEF AdmissionSide
<1> QED
  BY <1>1, <1>2, <1>3, PTL DEF PlatformSpec

-----------------------------------------------------------------------------
(* The cache: claims and sweeps.                                           *)

LEMMA CacheFacts ==
    /\ Swept \subseteq Key /\ Claim \subseteq Key \ Swept
    /\ Ttl \in Nat \ {0} /\ Empty \notin Int /\ Empty \notin -1 .. Ttl
  BY PlatformConstants DEF Caches!CacheConstants

(* Nobody but the claims writes their keys: an entry is there as long as   *)
(* the claim lives, and within its life there is one grant.                *)
Claimed ==
    \A k \in Claim :
      /\ fresh[k] >= 0 => cells[k] = fresh[k]
      /\ claims[k] \in 0 .. 1

(* What a sweep has been through holds no key that was there before.       *)
Sweeping(w) ==
    /\ found[w] \cap Claim = {} /\ due[w] \subseteq Swept
    /\ cache_pc[w] \in {"scan", "unlink", "swept"} =>
         \A k \in due[w] : \/ cells[k] = Empty \/ k \in ahead[w]
                           \/ cache_pc[w] = "unlink" /\ k \in found[w]
    /\ cache_pc[w] = "swept" => ahead[w] = {}

CachesInv ==
    /\ Caches!TypeOK /\ claims \in [Claim -> Nat] /\ due \in [Process -> SUBSET Key]
    /\ Claimed /\ \A w \in Process : Sweeping(w)

LEMMA CachesInitially ==
    ASSUME Caches!Init
    PROVE  CachesInv
<1>1. Caches!TypeOK
  BY CacheFacts DEF Caches!Init, Caches!TypeOK
<1> QED
  BY <1>1, CacheFacts DEF Caches!Init, CachesInv, Claimed, Sweeping

(* Keys are set that no sweep is due to remove any more, or only removed:  *)
(* sweeps that take no step go by what they had.                           *)
LEMMA SweepsKept ==
    ASSUME CachesInv, NEW w \in Process,
           cache_pc'[w] = cache_pc[w], found'[w] = found[w], ahead'[w] = ahead[w],
           due'[w] \subseteq due[w],
           \A k \in due'[w] : cells[k] = Empty => cells'[k] = Empty
    PROVE  Sweeping(w)'
<1>1. Sweeping(w)
  BY DEF CachesInv
<1> QED
  BY <1>1 DEF Sweeping

LEMMA Erased ==
    ASSUME CachesInv, NEW keys \in SUBSET (Key \ Claim), Caches!Erase(keys)
    PROVE  /\ cells' \in [Key -> -1 .. Ttl \cup {Empty}] /\ fresh' \in [Key -> -1 .. Ttl]
           /\ UNCHANGED claims => Claimed'
           /\ \A k \in Key : cells[k] = Empty \/ k \in keys => cells'[k] = Empty
<1>1. /\ cells' = [k \in Key |-> IF k \in keys THEN Empty ELSE cells[k]]
      /\ fresh' = [k \in Key |-> IF k \in keys THEN -1 ELSE fresh[k]]
      /\ cells \in [Key -> -1 .. Ttl \cup {Empty}] /\ fresh \in [Key -> -1 .. Ttl]
  BY DEF Caches!Erase, CachesInv, Caches!TypeOK
<1>2. cells' \in [Key -> -1 .. Ttl \cup {Empty}] /\ fresh' \in [Key -> -1 .. Ttl]
  BY <1>1, CacheFacts
<1>3. UNCHANGED claims => Claimed'
  BY <1>1, CacheFacts DEF CachesInv, Claimed
<1> QED
  BY <1>1, <1>2, <1>3

LEMMA EntryFound ==
    ASSUME CachesInv, NEW w \in Process, NEW k \in Key, Caches!Get(w, k)
    PROVE  CachesInv'
<1>1. /\ k \notin Claim /\ cache_pc[w] = "idle"
      /\ cache_pc' = [cache_pc EXCEPT ![w] = "remove"] /\ found' = [found EXCEPT ![w] = {k}]
      /\ UNCHANGED <<cache_world, cells, ahead, fresh, claims, due>>
  BY DEF Caches!Get, Caches!Goto, Caches!Does
<1>2. Caches!TypeOK' /\ Claimed'
  BY <1>1 DEF CachesInv, Caches!TypeOK, Claimed
<1>3. ASSUME NEW v \in Process
      PROVE  Sweeping(v)'
  <2>1. CASE v = w
    BY <1>1, <2>1 DEF CachesInv, Caches!TypeOK, Sweeping
  <2>2. CASE v # w
    BY <1>1, <2>2, SweepsKept DEF CachesInv, Caches!TypeOK
  <2> QED
    BY <2>1, <2>2
<1> QED
  BY <1>1, <1>2, <1>3 DEF CachesInv

LEMMA EntryLetGo ==
    ASSUME CachesInv, NEW w \in Process, Caches!Remove(w)
    PROVE  CachesInv'
<1>1. /\ cache_pc[w] = "remove"
      /\ cells' = [k \in Key |-> IF k \in found[w] THEN Empty ELSE cells[k]]
      /\ cache_pc' = [cache_pc EXCEPT ![w] = "idle"] /\ found' = [found EXCEPT ![w] = {}]
      /\ UNCHANGED <<cache_world, ahead, fresh, claims, due>>
  BY DEF Caches!Remove, Caches!Goto
<1>2. Caches!TypeOK'
  BY <1>1, CacheFacts DEF CachesInv, Caches!TypeOK
<1>3. Claimed'
  BY <1>1, CacheFacts DEF CachesInv, Claimed, Sweeping
<1>4. ASSUME NEW v \in Process
      PROVE  Sweeping(v)'
  <2>1. CASE v = w
    BY <1>1, <2>1 DEF CachesInv, Caches!TypeOK, Sweeping
  <2>2. CASE v # w
    <3>1. due[v] \subseteq Key
      BY DEF CachesInv
    <3> QED
      BY <1>1, <2>2, <3>1, SweepsKept DEF CachesInv, Caches!TypeOK
  <2> QED
    BY <2>1, <2>2
<1> QED
  BY <1>1, <1>2, <1>3, <1>4 DEF CachesInv

LEMMA EntrySet ==
    ASSUME CachesInv, NEW w \in Process, NEW k \in Key,
           Caches!Set(w, k) \/ Caches!SetNx(w, k) \/ Caches!Del(w, k)
    PROVE  CachesInv'
<1>u. UNCHANGED <<cache_world, cache_pc, found, ahead>>
  BY DEF Caches!Set, Caches!SetNx, Caches!Del
<1>t. /\ cells \in [Key -> -1 .. Ttl \cup {Empty}] /\ fresh \in [Key -> -1 .. Ttl]
      /\ claims \in [Claim -> Nat] /\ due \in [Process -> SUBSET Key]
      /\ \A v \in Process : due[v] \subseteq Swept
  BY DEF CachesInv, Caches!TypeOK, Sweeping
<1>1. CASE Caches!Set(w, k)
  <2>1. /\ k \notin Claim /\ cells' = [cells EXCEPT ![k] = Ttl]
        /\ fresh' = [fresh EXCEPT ![k] = Ttl] /\ claims' = claims
        /\ due' = [v \in Process |-> due[v] \ {k}]
    BY <1>1 DEF Caches!Set, Caches!Put
  <2>2. Caches!TypeOK'
    BY <1>u, <1>t, <2>1, CacheFacts DEF CachesInv, Caches!TypeOK
  <2>3. Claimed'
    BY <1>t, <2>1, CacheFacts DEF CachesInv, Claimed
  <2>4. \A v \in Process : Sweeping(v)'
    BY <1>u, <1>t, <2>1, SweepsKept
  <2> QED
    BY <1>t, <2>1, <2>2, <2>3, <2>4 DEF CachesInv
<1>2. CASE Caches!SetNx(w, k)
  <2>1. /\ k \in Claim /\ (cells[k] = Empty \/ cells[k] < 0)
        /\ cells' = [cells EXCEPT ![k] = Ttl] /\ fresh' = [fresh EXCEPT ![k] = Ttl]
        /\ claims' = [claims EXCEPT ![k] = IF fresh[k] < 0 THEN 1 ELSE claims[k] + 1]
        /\ due' = due
    BY <1>2 DEF Caches!SetNx, Caches!Put, Caches!is_expired
  <2>2. Caches!TypeOK'
    BY <1>u, <1>t, <2>1, CacheFacts DEF CachesInv, Caches!TypeOK
  <2>3. fresh[k] < 0
    <3>1. fresh[k] >= 0 => cells[k] = fresh[k]
      BY <2>1 DEF CachesInv, Claimed
    <3> QED
      BY <1>t, <2>1, <3>1, CacheFacts
  <2>4. Claimed'
    BY <1>t, <2>1, <2>3, CacheFacts DEF CachesInv, Claimed
  <2>5. ASSUME NEW v \in Process
        PROVE  Sweeping(v)'
    <3>1. k \notin due[v]
      BY <1>t, <2>1, CacheFacts
    <3>2. \A x \in due[v] : cells'[x] = cells[x]
      BY <1>t, <2>1, <3>1
    <3> QED
      BY <1>u, <2>1, <3>2, SweepsKept
  <2> QED
    BY <1>t, <2>1, <2>2, <2>3, <2>4, <2>5 DEF CachesInv
<1>3. CASE Caches!Del(w, k)
  <2>1. k \notin Claim /\ Caches!Erase({k}) /\ UNCHANGED <<claims, due>>
    BY <1>3 DEF Caches!Del
  <2>2. /\ cells' \in [Key -> -1 .. Ttl \cup {Empty}] /\ fresh' \in [Key -> -1 .. Ttl]
        /\ Claimed'
        /\ \A x \in Key : cells[x] = Empty \/ x \in {k} => cells'[x] = Empty
    BY <2>1, Erased
  <2>3. \A v \in Process : Sweeping(v)'
    BY <1>u, <1>t, <2>1, <2>2, SweepsKept
  <2> QED
    BY <1>u, <1>t, <2>1, <2>2, <2>3 DEF CachesInv, Caches!TypeOK
<1> QED
  BY <1>1, <1>2, <1>3

LEMMA SweepStarts ==
    ASSUME CachesInv, NEW w \in Process, Caches!BeginSweep(w) \/ Caches!EndSweep(w)
    PROVE  CachesInv'
<1>1. CASE Caches!BeginSweep(w)
  <2>1. /\ cache_pc' = [cache_pc EXCEPT ![w] = "scan"] /\ found' = [found EXCEPT ![w] = {}]
        /\ ahead' = [ahead EXCEPT ![w] = Key]
        /\ due' = [due EXCEPT ![w] = {k \in Swept : cells[k] # Empty}]
        /\ UNCHANGED <<cache_world, cells, fresh, claims>>
    BY <1>1 DEF Caches!BeginSweep, Caches!Goto
  <2>2. Caches!TypeOK' /\ Claimed' /\ due' \in [Process -> SUBSET Key]
    BY <2>1, CacheFacts DEF CachesInv, Caches!TypeOK, Claimed
  <2>3. Sweeping(w)'
    BY <2>1, CacheFacts DEF CachesInv, Caches!TypeOK, Sweeping
  <2>4. \A v \in Process \ {w} : Sweeping(v)'
    BY <2>1, SweepsKept DEF CachesInv, Caches!TypeOK
  <2> QED
    BY <2>1, <2>2, <2>3, <2>4 DEF CachesInv
<1>2. CASE Caches!EndSweep(w)
  <2>1. /\ cache_pc' = [cache_pc EXCEPT ![w] = "idle"] /\ found' = [found EXCEPT ![w] = {}]
        /\ due' = [due EXCEPT ![w] = {}]
        /\ UNCHANGED <<cache_world, cells, ahead, fresh, claims>>
    BY <1>2 DEF Caches!EndSweep, Caches!Goto
  <2>2. Caches!TypeOK' /\ Claimed' /\ due' \in [Process -> SUBSET Key]
    BY <2>1 DEF CachesInv, Caches!TypeOK, Claimed
  <2>3. Sweeping(w)'
    BY <2>1 DEF CachesInv, Caches!TypeOK, Sweeping
  <2>4. \A v \in Process \ {w} : Sweeping(v)'
    BY <2>1, SweepsKept DEF CachesInv, Caches!TypeOK
  <2> QED
    BY <2>1, <2>2, <2>3, <2>4 DEF CachesInv
<1> QED
  BY <1>1, <1>2

(* A part of the keys is removed at once, or read to be removed next.      *)
LEMMA PartSwept ==
    ASSUME CachesInv, NEW w \in Process, Caches!Scan(w) \/ Caches!Unlink(w)
    PROVE  CachesInv'
<1>t. /\ cells \in [Key -> -1 .. Ttl \cup {Empty}] /\ fresh \in [Key -> -1 .. Ttl]
      /\ cache_pc \in [Process -> {"idle", "remove", "scan", "unlink", "swept"}]
      /\ found \in [Process -> SUBSET Key] /\ ahead \in [Process -> SUBSET Key]
      /\ claims \in [Claim -> Nat] /\ due \in [Process -> SUBSET Key] /\ Sweeping(w)
  BY DEF CachesInv, Caches!TypeOK
<1>1. ASSUME NEW part \in SUBSET ahead[w], NEW last \in BOOLEAN, Caches!Part(w, part, last),
             cache_pc[w] = "scan", last <=> part = ahead[w]
      PROVE  CachesInv'
  <2>1. /\ ahead' = [ahead EXCEPT ![w] = ahead[w] \ part]
        /\ UNCHANGED <<cache_world, claims, due>>
    BY <1>t, <1>1 DEF Caches!Part
  <2>2. CASE Caches!Memory
    <3>1. PICK label \in {"swept", "scan"} : label = (IF last THEN "swept" ELSE "scan")
      OBVIOUS
    <3>2. /\ Caches!Erase(part \cap Swept)
          /\ cache_pc' = [cache_pc EXCEPT ![w] = label] /\ found' = [found EXCEPT ![w] = {}]
      BY <1>1, <2>2, <3>1 DEF Caches!Part, Caches!Goto
    <3>3. part \cap Swept \in SUBSET (Key \ Claim)
      BY CacheFacts
    <3>4. /\ cells' \in [Key -> -1 .. Ttl \cup {Empty}] /\ fresh' \in [Key -> -1 .. Ttl]
          /\ Claimed'
          /\ \A k \in Key : cells[k] = Empty \/ k \in part \cap Swept => cells'[k] = Empty
      BY <2>1, <3>2, <3>3, Erased
    <3>5. \A v \in Process \ {w} : Sweeping(v)'
      BY <1>t, <2>1, <3>2, <3>4, SweepsKept
    <3>6. Sweeping(w)'
      BY <1>t, <1>1, <2>1, <3>1, <3>2, <3>4, CacheFacts DEF Sweeping
    <3> QED
      BY <1>t, <2>1, <3>1, <3>2, <3>4, <3>5, <3>6 DEF CachesInv, Caches!TypeOK
  <2>3. CASE ~Caches!Memory
    <3> DEFINE keys == {k \in part \cap Swept : cells[k] # Empty}
    <3>1. /\ cache_pc' = [cache_pc EXCEPT ![w] = "unlink"]
          /\ found' = [found EXCEPT ![w] = keys] /\ UNCHANGED <<cells, fresh>>
      BY <1>1, <2>3 DEF Caches!Part, Caches!Goto
    <3>2. keys \subseteq Key \ Claim
      BY CacheFacts
    <3>3. \A v \in Process \ {w} : Sweeping(v)'
      BY <1>t, <2>1, <3>1, SweepsKept
    <3>4. \A k \in due[w] : cells[k] = Empty \/ k \in ahead[w] \ part \/ k \in keys
      BY <1>t, <1>1 DEF Sweeping
    <3> HIDE DEF keys
    <3>5. Sweeping(w)'
      BY <1>t, <2>1, <3>1, <3>2, <3>4 DEF Sweeping
    <3>6. Claimed'
      BY <2>1, <3>1 DEF CachesInv, Claimed
    <3> QED
      BY <1>t, <2>1, <3>1, <3>2, <3>3, <3>5, <3>6 DEF CachesInv, Caches!TypeOK
  <2> QED
    BY <2>2, <2>3
<1>2. CASE Caches!Unlink(w)
  <2>1. PICK label \in {"swept", "scan"} : label = (IF ahead[w] = {} THEN "swept" ELSE "scan")
    OBVIOUS
  <2>2. /\ cache_pc[w] = "unlink" /\ Caches!Erase(found[w])
        /\ cache_pc' = [cache_pc EXCEPT ![w] = label] /\ found' = [found EXCEPT ![w] = {}]
        /\ UNCHANGED <<cache_world, ahead, claims, due>>
    BY <1>2, <2>1 DEF Caches!Unlink, Caches!Goto
  <2>3. found[w] \in SUBSET (Key \ Claim)
    BY <1>t DEF Sweeping
  <2>4. /\ cells' \in [Key -> -1 .. Ttl \cup {Empty}] /\ fresh' \in [Key -> -1 .. Ttl]
        /\ Claimed'
        /\ \A k \in Key : cells[k] = Empty \/ k \in found[w] => cells'[k] = Empty
    BY <2>2, <2>3, Erased
  <2>5. \A v \in Process \ {w} : Sweeping(v)'
    BY <1>t, <2>2, <2>4, SweepsKept
  <2>6. Sweeping(w)'
    BY <1>t, <2>1, <2>2, <2>4 DEF Sweeping
  <2> QED
    BY <1>t, <2>1, <2>2, <2>4, <2>5, <2>6 DEF CachesInv, Caches!TypeOK
<1> QED
  BY <1>1, <1>2 DEF Caches!Scan

LEMMA CachesAge ==
    ASSUME CachesInv, Caches!Tick
    PROVE  CachesInv'
<1>1. UNCHANGED <<cache_world, cache_pc, found, ahead, claims, due>>
  BY DEF Caches!Tick
<1>2. /\ cells \in [Key -> -1 .. Ttl \cup {Empty}] /\ fresh \in [Key -> -1 .. Ttl]
      /\ \A v \in Process : due[v] \subseteq Key
  BY DEF CachesInv, Caches!TypeOK
<1>3. ASSUME NEW k \in Key
      PROVE  /\ cells'[k] \in -1 .. Ttl \cup {Empty}
             /\ cells[k] = Empty => cells'[k] = Empty
             /\ cells[k] # Empty /\ cells[k] > 0 => cells'[k] = cells[k] - 1
             /\ fresh'[k] = IF fresh[k] < 0 THEN -1 ELSE fresh[k] - 1
  <2>0. /\ cells'[k] = CASE cells[k] = Empty -> Empty
                          [] ~Caches!Memory /\ cells[k] = 0 -> Empty
                          [] OTHER -> IF cells[k] < 0 THEN -1 ELSE cells[k] - 1
        /\ fresh'[k] = IF fresh[k] < 0 THEN -1 ELSE fresh[k] - 1
    BY DEF Caches!Tick, Caches!Older
  <2>1. CASE cells[k] = Empty
    BY <2>0, <2>1, CacheFacts
  <2>2. CASE cells[k] # Empty
    <3>1. cells[k] \in -1 .. Ttl
      BY <1>2, <2>2
    <3> QED
      BY <2>0, <2>2, <3>1, CacheFacts
  <2> QED
    BY <2>1, <2>2
<1>4. /\ cells' \in [Key -> -1 .. Ttl \cup {Empty}] /\ fresh' \in [Key -> -1 .. Ttl]
  <2>1. /\ cells' = [k \in Key |-> cells'[k]] /\ fresh' = [k \in Key |-> fresh'[k]]
    BY DEF Caches!Tick
  <2>2. \A k \in Key : fresh'[k] \in -1 .. Ttl
    BY <1>2, <1>3, CacheFacts
  <2> QED
    BY <1>3, <2>1, <2>2
<1>5. ASSUME NEW k \in Claim
      PROVE  fresh'[k] >= 0 => cells'[k] = fresh'[k]
  <2> SUFFICES ASSUME fresh'[k] >= 0
               PROVE  cells'[k] = fresh'[k]
    OBVIOUS
  <2>1. k \in Key /\ fresh[k] \in -1 .. Ttl
    BY <1>2, CacheFacts
  <2>2. fresh[k] > 0 /\ fresh'[k] = fresh[k] - 1
    BY <1>3, <2>1, CacheFacts
  <2>3. cells[k] = fresh[k] /\ cells[k] # Empty
    BY <2>1, <2>2, CacheFacts DEF CachesInv, Claimed
  <2> QED
    BY <1>3, <2>1, <2>2, <2>3
<1>6. Claimed'
  BY <1>1, <1>5 DEF CachesInv, Claimed
<1>7. \A v \in Process : Sweeping(v)'
  BY <1>1, <1>2, <1>3, SweepsKept
<1> QED
  BY <1>1, <1>4, <1>6, <1>7 DEF CachesInv, Caches!TypeOK

LEMMA CachesNext ==
    ASSUME CachesInv, Caches!Next
    PROVE  CachesInv'
  BY EntryFound, EntryLetGo, EntrySet, SweepStarts, PartSwept, CachesAge DEF Caches!Next

CachesSide == side = "caches" => CachesInv

LEMMA CachesSideHolds ==
    PlatformSpec => [](side = "caches" => /\ Caches!TypeOK
                                          /\ Caches!ClaimedOnce /\ Caches!SweptGone)
<1>1. PlatformInit => CachesSide
  BY CachesInitially DEF PlatformInit, CachesSide
<1>2. CachesSide /\ [PlatformNext]_platformVars => CachesSide'
  <2>1. ASSUME CachesInv, UNCHANGED cacheVars
        PROVE  CachesInv'
    BY <2>1 DEF cacheVars, CachesInv, Caches!TypeOK, Claimed, Sweeping
  <2> QED
    BY <2>1, CachesNext DEF PlatformNext, platformVars, CachesSide
<1>3. CachesSide => (side = "caches" => /\ Caches!TypeOK
                                        /\ Caches!ClaimedOnce /\ Caches!SweptGone)
  <2> SUFFICES ASSUME CachesInv
               PROVE  Caches!TypeOK /\ Caches!ClaimedOnce /\ Caches!SweptGone
    BY DEF CachesSide
  <2>1. Caches!ClaimedOnce
    BY DEF CachesInv, Claimed, Caches!ClaimedOnce
  <2>2. Caches!SweptGone
    BY DEF CachesInv, Sweeping, Caches!SweptGone
  <2> QED
    BY <2>1, <2>2 DEF CachesInv
<1> QED
  BY <1>1, <1>2, <1>3, PTL DEF PlatformSpec

(* At most twice the highest limit is let through under one key in less    *)
(* than a window unless the server restarts; while no request is stopped   *)
(* or held up between INCR and EXPIRE, one is refused only when its key    *)
(* was asked for more often than the limit (rate_limit.rs, in_memory.rs,   *)
(* redis.rs).  The key is the client's own, whatever it writes in its      *)
(* headers, without a proxy, behind one that sets X-Real-IP, and wherever  *)
(* its X-Forwarded-For is text; else it is the proxy's, which such clients *)
(* share, or, from proxies that pass X-Real-IP on, what the client wrote   *)
(* there: that client is bounded by nothing here.                          *)
(*                                                                         *)
(* Within the life of a claim one caller is granted it, which is what      *)
(* makes a reset token good for once; and when del_prefix returns no key   *)
(* is left that was there when it began and was not set since, which is    *)
(* what ends the sessions of a banned user.                                *)
THEOREM StoresAlwaysHold == PlatformSpec => []StoresHold
<1>1. StoresHold <=>
        /\ side = "limits" => /\ Limits!TypeOK
                              /\ Limits!AdmittedBounded /\ Limits!DeniedIsEarned
                              /\ Limits!KeyOfClient
        /\ side = "caches" => /\ Caches!TypeOK
                              /\ Caches!ClaimedOnce /\ Caches!SweptGone
  BY DEF StoresHold
<1> QED
  BY <1>1, LimitsSideHolds, CachesSideHolds, PTL

-----------------------------------------------------------------------------
(* Views and daily statistics.                                             *)

Task == Thread \X Viewer \X Statistics!Steps
Count == <<"count">>

ViewTyped ==
    /\ Statistics!TypeOK
    /\ \A t \in DOMAIN buffer : buffer[t] \in Nat
    /\ \A t \in DOMAIN draining : draining[t] \in Nat

(* A thread that is not there has no views, nor any on their way.          *)
UnbornInv ==
    \A t \in Thread : born[t] = Never =>
      /\ view_count[t] = 0 /\ t \notin DOMAIN buffer \cup DOMAIN draining
      /\ \A v \in Viewer, s \in Statistics!Steps : visits[<<t, v, s>>] = 0

(* The days of a viewer are different, and none is to come.                *)
DedupInv ==
    \A t \in Thread, v \in Viewer :
      IF dedup[<<t, v>>].last = Never THEN dedup[<<t, v>>].total = 0
      ELSE dedup[<<t, v>>].last \in 0 .. today /\ dedup[<<t, v>>].total <= dedup[<<t, v>>].last + 1

(* What a task knows when it is at a step.                                 *)
TaskInv ==
    \A t \in Thread, v \in Viewer, d \in Statistics!Day :
      /\ visits[<<t, v, <<"insert", d>>>>] > 0 => d <= today
      /\ visits[<<t, v, <<"update", d>>>>] > 0 => d <= today /\ dedup[<<t, v>>].last # Never

LEMMA StatFacts ==
    /\ IsFiniteSet(Thread) /\ IsFiniteSet(Viewer) /\ Never \notin Nat
    /\ LastDay \in Nat /\ Statistics!Day = 0 .. LastDay
    /\ IsFiniteSet(Statistics!Day) /\ Statistics!Day \subseteq Nat
<1>1. /\ Statistics!IsFiniteSet(Thread) /\ Statistics!IsFiniteSet(Viewer) /\ Never \notin Nat
      /\ LastDay \in Nat
  BY PlatformConstants DEF Statistics!StatConstants
<1>2. IsFiniteSet(Thread) /\ IsFiniteSet(Viewer)
  BY <1>1 DEF Statistics!IsFiniteSet, IsFiniteSet
<1>3. Statistics!Day = 0 .. LastDay /\ IsFiniteSet(0 .. LastDay)
  BY <1>1, FS_Interval DEF Statistics!Day
<1> QED
  BY <1>1, <1>2, <1>3

LEMMA StatSteps ==
    /\ Count \in Statistics!Steps
    /\ \A d \in Statistics!Day :
         /\ <<"insert", d>> \in Statistics!Steps /\ <<"update", d>> \in Statistics!Steps
         /\ <<"insert", d>> # Count /\ <<"update", d>> # Count
         /\ \A e \in Statistics!Day :
              /\ <<"insert", d>> # <<"update", e>>
              /\ <<"insert", d>> = <<"insert", e>> => d = e
              /\ <<"update", d>> = <<"update", e>> => d = e
    /\ \A s \in Statistics!Steps :
         s = Count \/ \E d \in Statistics!Day : s = <<"insert", d>> \/ s = <<"update", d>>
  BY DEF Statistics!Steps, Count

(* A task goes on to another step, ends, or is spawned.                    *)
LEMMA OneMoved ==
    ASSUME NEW S, NEW f \in [S -> Nat], NEW g, NEW x \in S, NEW y \in S, x # y, f[x] > 0,
           g = [f EXCEPT ![x] = @ - 1, ![y] = @ + 1]
    PROVE  /\ g \in [S -> Nat] /\ g[x] = f[x] - 1 /\ g[y] = f[y] + 1
           /\ \A z \in S \ {x, y} : g[z] = f[z]
  OBVIOUS

LEMMA OneLess ==
    ASSUME NEW S, NEW f \in [S -> Nat], NEW g, NEW x \in S, f[x] > 0,
           g = [f EXCEPT ![x] = @ - 1]
    PROVE  /\ g \in [S -> Nat] /\ g[x] = f[x] - 1
           /\ \A z \in S \ {x} : g[z] = f[z]
  OBVIOUS

LEMMA OneAdded ==
    ASSUME NEW S, NEW f \in [S -> Nat], NEW g, NEW x \in S, g = [f EXCEPT ![x] = @ + 1]
    PROVE  /\ g \in [S -> Nat] /\ g[x] = f[x] + 1
           /\ \A z \in S \ {x} : g[z] = f[z]
  OBVIOUS

LEMMA TaskMoves ==
    ASSUME ViewTyped, NEW t \in Thread, NEW v \in Viewer,
           NEW from \in Statistics!Steps, NEW to \in Statistics!Steps, from # to,
           visits[<<t, v, from>>] > 0, Statistics!Move(t, v, from, to)
    PROVE  /\ visits' \in [Task -> Nat]
           /\ visits'[<<t, v, to>>] = visits[<<t, v, to>>] + 1
           /\ visits'[<<t, v, from>>] = visits[<<t, v, from>>] - 1
           /\ \A u \in Thread, w \in Viewer, s \in Statistics!Steps :
                <<u, w, s>> # <<t, v, from>> /\ <<u, w, s>> # <<t, v, to>> =>
                  visits'[<<u, w, s>>] = visits[<<u, w, s>>]
<1>1. visits \in [Task -> Nat] /\ visits[<<t, v, from>>] \in Nat /\ visits[<<t, v, to>>] \in Nat
  BY DEF ViewTyped, Statistics!TypeOK, Task
<1>2. <<t, v, from>> \in Task /\ <<t, v, to>> \in Task /\ <<t, v, from>> # <<t, v, to>>
  BY DEF Task
<1>3. visits' = [visits EXCEPT ![<<t, v, from>>] = @ - 1, ![<<t, v, to>>] = @ + 1]
  BY DEF Statistics!Move
<1>4. \A u \in Thread, w \in Viewer, s \in Statistics!Steps : <<u, w, s>> \in Task
  BY DEF Task
<1> DEFINE x == <<t, v, from>>
           y == <<t, v, to>>
<1>5. x \in Task /\ y \in Task /\ x # y /\ visits[x] > 0
      /\ visits' = [visits EXCEPT ![x] = @ - 1, ![y] = @ + 1]
  BY <1>2, <1>3
<1> HIDE DEF x, y
<1>6. /\ visits' \in [Task -> Nat] /\ visits'[x] = visits[x] - 1 /\ visits'[y] = visits[y] + 1
      /\ \A z \in Task \ {x, y} : visits'[z] = visits[z]
  BY <1>1, <1>5, OneMoved
<1> QED
  BY <1>4, <1>6 DEF x, y

LEMMA TaskEnds ==
    ASSUME ViewTyped, NEW t \in Thread, NEW v \in Viewer, NEW from \in Statistics!Steps,
           visits[<<t, v, from>>] > 0, Statistics!Done(t, v, from)
    PROVE  /\ visits' \in [Task -> Nat]
           /\ visits'[<<t, v, from>>] = visits[<<t, v, from>>] - 1
           /\ \A u \in Thread, w \in Viewer, s \in Statistics!Steps :
                <<u, w, s>> # <<t, v, from>> => visits'[<<u, w, s>>] = visits[<<u, w, s>>]
<1>1. visits \in [Task -> Nat] /\ visits[<<t, v, from>>] \in Nat
  BY DEF ViewTyped, Statistics!TypeOK, Task
<1>2. <<t, v, from>> \in Task
  BY DEF Task
<1>3. visits' = [visits EXCEPT ![<<t, v, from>>] = @ - 1]
  BY DEF Statistics!Done
<1>4. \A u \in Thread, w \in Viewer, s \in Statistics!Steps : <<u, w, s>> \in Task
  BY DEF Task
<1> DEFINE x == <<t, v, from>>
<1>5. x \in Task /\ visits[x] > 0 /\ visits' = [visits EXCEPT ![x] = @ - 1]
  BY <1>2, <1>3
<1> HIDE DEF x
<1>6. /\ visits' \in [Task -> Nat] /\ visits'[x] = visits[x] - 1
      /\ \A z \in Task \ {x} : visits'[z] = visits[z]
  BY <1>1, <1>5, OneLess
<1> QED
  BY <1>4, <1>6 DEF x

LEMMA TaskSpawned ==
    ASSUME ViewTyped, NEW t \in Thread, NEW v \in Viewer, Statistics!GetBySlug(t, v)
    PROVE  \E s \in Statistics!Steps :
             /\ s = IF "raw" \in stat_world THEN Count ELSE <<"insert", today>>
             /\ visits' \in [Task -> Nat]
             /\ visits'[<<t, v, s>>] = visits[<<t, v, s>>] + 1
             /\ \A u \in Thread, w \in Viewer, q \in Statistics!Steps :
                  <<u, w, q>> # <<t, v, s>> => visits'[<<u, w, q>>] = visits[<<u, w, q>>]
<1> DEFINE s == IF "raw" \in stat_world THEN Count ELSE <<"insert", today>>
<1>1. today \in Statistics!Day /\ visits \in [Task -> Nat]
  BY DEF ViewTyped, Statistics!TypeOK, Task
<1>2. s \in Statistics!Steps
  BY <1>1, StatSteps
<1>3. <<t, v, s>> \in Task
  BY <1>2 DEF Task
<1>4. visits' = [visits EXCEPT ![<<t, v, s>>] = @ + 1]
  BY DEF Statistics!GetBySlug, Statistics!Since, Count
<1>5. \A u \in Thread, w \in Viewer, q \in Statistics!Steps : <<u, w, q>> \in Task
  BY DEF Task
<1> DEFINE x == <<t, v, s>>
<1>6. x \in Task /\ visits' = [visits EXCEPT ![x] = @ + 1]
  BY <1>3, <1>4
<1> HIDE DEF x
<1>7. /\ visits' \in [Task -> Nat] /\ visits'[x] = visits[x] + 1
      /\ \A z \in Task \ {x} : visits'[z] = visits[z]
  BY <1>1, <1>6, OneAdded
<1> HIDE DEF s
<1>8. /\ visits'[<<t, v, s>>] = visits[<<t, v, s>>] + 1
      /\ \A u \in Thread, w \in Viewer, q \in Statistics!Steps :
           <<u, w, q>> # <<t, v, s>> => visits'[<<u, w, q>>] = visits[<<u, w, q>>]
  BY <1>5, <1>7 DEF x
<1> QED
  BY <1>2, <1>7, <1>8 DEF s

ViewInv == ViewTyped /\ UnbornInv /\ DedupInv /\ TaskInv

(* The types one by one, as the steps below need them.                     *)
LEMMA ViewTypes ==
    ASSUME ViewTyped
    PROVE  /\ stat_world \in StatWorlds /\ today \in Statistics!Day
           /\ view_count \in [Thread -> Nat]
           /\ born \in [Thread -> Statistics!Day \cup {Never}]
           /\ alive \subseteq Thread /\ \A t \in alive : born[t] # Never
           /\ dedup \in [Thread \X Viewer -> [last : Statistics!Day \cup {Never},
                                              total : 0 .. LastDay + 1]]
           /\ visits \in [Task -> Nat]
           /\ DOMAIN buffer \subseteq Thread /\ DOMAIN draining \subseteq Thread
           /\ daily \in [-1 .. LastDay -> [Statistics!Metric -> Nat \cup {Never}]]
           /\ flushing \in BOOLEAN
           /\ \A t \in DOMAIN buffer : buffer[t] \in Nat
           /\ \A t \in DOMAIN draining : draining[t] \in Nat
  BY DEF ViewTyped, Statistics!TypeOK, Task

LEMMA ViewsTyped ==
    ASSUME /\ stat_world \in StatWorlds /\ today \in Statistics!Day
           /\ view_count \in [Thread -> Nat]
           /\ born \in [Thread -> Statistics!Day \cup {Never}]
           /\ alive \subseteq Thread /\ \A t \in alive : born[t] # Never
           /\ dedup \in [Thread \X Viewer -> [last : Statistics!Day \cup {Never},
                                              total : 0 .. LastDay + 1]]
           /\ visits \in [Task -> Nat]
           /\ DOMAIN buffer \subseteq Thread /\ DOMAIN draining \subseteq Thread
           /\ daily \in [-1 .. LastDay -> [Statistics!Metric -> Nat \cup {Never}]]
           /\ flushing \in BOOLEAN
           /\ \A t \in DOMAIN buffer : buffer[t] \in Nat
           /\ \A t \in DOMAIN draining : draining[t] \in Nat
    PROVE  ViewTyped
  BY DEF ViewTyped, Statistics!TypeOK, Task

LEMMA ViewsInitially == Statistics!Init => ViewInv
<1> SUFFICES ASSUME Statistics!Init PROVE ViewInv
  OBVIOUS
<1> USE DEF Statistics!Init
<1>1. today = 0 /\ today \in Statistics!Day
  BY StatFacts
<1>2. DOMAIN buffer = {} /\ DOMAIN draining = {}
  OBVIOUS
<1>3. daily \in [-1 .. LastDay -> [Statistics!Metric -> Nat \cup {Never}]]
  BY DEF Statistics!Nothing
<1>4. visits \in [Task -> Nat]
  BY DEF Task
<1>5. dedup \in [Thread \X Viewer -> [last : Statistics!Day \cup {Never},
                                      total : 0 .. LastDay + 1]]
  BY StatFacts
<1>6. ViewTyped
  BY <1>1, <1>2, <1>3, <1>4, <1>5 DEF ViewTyped, Statistics!TypeOK, Task
<1>7. \A t \in Thread, v \in Viewer, s \in Statistics!Steps : visits[<<t, v, s>>] = 0
  OBVIOUS
<1>8. UnbornInv
  BY <1>2, <1>7 DEF UnbornInv
<1>9. DedupInv
  BY DEF DedupInv
<1>10. TaskInv
  BY <1>7, StatSteps DEF TaskInv
<1> QED
  BY <1>6, <1>8, <1>9, <1>10 DEF ViewInv

LEMMA ThreadCreated ==
    ASSUME ViewInv, NEW t \in Thread, Statistics!CreateThread(t) PROVE ViewInv'
<1> USE DEF Statistics!CreateThread, Statistics!inMemory
<1>1. ViewTyped
  BY DEF ViewInv
<1>2. born' = [born EXCEPT ![t] = today] /\ today # Never /\ today \in Statistics!Day
  BY <1>1, ViewTypes, StatFacts
<1>3. /\ born' \in [Thread -> Statistics!Day \cup {Never}]
      /\ \A u \in Thread : born'[u] = Never => u # t /\ born[u] = Never
      /\ \A u \in alive' : born'[u] # Never
  BY <1>1, <1>2, ViewTypes
<1>4. ViewTyped'
  <2>1. alive' \subseteq Thread
    BY <1>1, ViewTypes
  <2> QED
    BY <1>1, <1>3, <2>1, ViewTypes DEF ViewTyped, Statistics!TypeOK, Task
<1>5. UnbornInv'
  BY <1>3 DEF ViewInv, UnbornInv
<1> QED
  BY <1>4, <1>5 DEF ViewInv, DedupInv, TaskInv

LEMMA ThreadDeleted ==
    ASSUME ViewInv, NEW t \in Thread, Statistics!DeleteThread(t) PROVE ViewInv'
<1> USE DEF Statistics!DeleteThread, Statistics!inMemory
<1>1. ViewTyped'
  BY DEF ViewInv, ViewTyped, Statistics!TypeOK
<1> QED
  BY <1>1 DEF ViewInv, UnbornInv, DedupInv, TaskInv

(* A task that is counted further, or one less.                            *)
LEMMA ThreadRead ==
    ASSUME ViewInv, NEW t \in Thread, NEW v \in Viewer, Statistics!GetBySlug(t, v) PROVE ViewInv'
<1>0. /\ t \in alive
      /\ UNCHANGED <<stat_world, today, view_count, born, alive, dedup, daily, buffer,
                     draining, flushing>>
  BY DEF Statistics!GetBySlug, Statistics!stored
<1>1. ViewTyped /\ born[t] # Never
  BY <1>0, ViewTypes DEF ViewInv
<1>2. PICK s \in Statistics!Steps :
        /\ s = IF "raw" \in stat_world THEN Count ELSE <<"insert", today>>
        /\ visits' \in [Task -> Nat]
        /\ visits'[<<t, v, s>>] = visits[<<t, v, s>>] + 1
        /\ \A u \in Thread, w \in Viewer, q \in Statistics!Steps :
             <<u, w, q>> # <<t, v, s>> => visits'[<<u, w, q>>] = visits[<<u, w, q>>]
  BY <1>1, TaskSpawned
<1>3. ViewTyped'
  BY <1>0, <1>1, <1>2 DEF ViewTyped, Statistics!TypeOK, Task
<1>4. UnbornInv'
  BY <1>0, <1>1, <1>2 DEF ViewInv, UnbornInv
<1>5. DedupInv'
  BY <1>0 DEF ViewInv, DedupInv
<1>6. TaskInv'
  <2> SUFFICES ASSUME NEW u \in Thread, NEW w \in Viewer, NEW d \in Statistics!Day
               PROVE  /\ visits'[<<u, w, <<"insert", d>>>>] > 0 => d <= today
                      /\ visits'[<<u, w, <<"update", d>>>>] > 0 =>
                           d <= today /\ dedup[<<u, w>>].last # Never
    BY <1>0 DEF TaskInv
  <2>1. today \in Nat /\ d \in Nat
    BY <1>1, ViewTypes, StatFacts
  <2>2. <<"update", d>> # s /\ (<<"insert", d>> = s => d = today)
    BY <1>2, StatSteps
  <2>3. visits'[<<u, w, <<"update", d>>>>] = visits[<<u, w, <<"update", d>>>>]
    BY <1>2, <2>2, StatSteps
  <2>4. <<"insert", d>> # s =>
          visits'[<<u, w, <<"insert", d>>>>] = visits[<<u, w, <<"insert", d>>>>]
    BY <1>2, StatSteps
  <2> QED
    BY <2>1, <2>2, <2>3, <2>4 DEF ViewInv, TaskInv
<1> QED
  BY <1>3, <1>4, <1>5, <1>6 DEF ViewInv

(* A thread with a task is there.                                          *)
LEMMA TaskOfBorn ==
    ASSUME ViewInv, NEW t \in Thread, NEW v \in Viewer, NEW s \in Statistics!Steps,
           visits[<<t, v, s>>] > 0
    PROVE  born[t] # Never
  BY DEF ViewInv, UnbornInv

(* The tasks of one thread change, those of no other.                      *)
LEMMA UnbornKept ==
    ASSUME ViewInv, NEW t \in Thread, born[t] # Never,
           UNCHANGED <<view_count, born, DOMAIN buffer, DOMAIN draining>>,
           \A u \in Thread \ {t}, w \in Viewer, s \in Statistics!Steps :
             visits'[<<u, w, s>>] = visits[<<u, w, s>>]
    PROVE  UnbornInv'
  BY DEF ViewInv, UnbornInv

LEMMA TasksFewer ==
    ASSUME ViewInv, UNCHANGED <<today, dedup>>, visits' \in [Task -> Nat],
           \A u \in Thread, w \in Viewer, s \in Statistics!Steps :
             visits'[<<u, w, s>>] <= visits[<<u, w, s>>]
    PROVE  DedupInv' /\ TaskInv'
<1>1. DedupInv'
  BY DEF ViewInv, DedupInv
<1>2. \A u \in Thread, w \in Viewer, s \in Statistics!Steps :
        visits[<<u, w, s>>] \in Nat /\ visits'[<<u, w, s>>] \in Nat
  BY ViewTypes DEF ViewInv, Task
<1>3. TaskInv'
  <2> SUFFICES ASSUME NEW u \in Thread, NEW w \in Viewer, NEW d \in Statistics!Day
               PROVE  /\ visits'[<<u, w, <<"insert", d>>>>] > 0 => d <= today
                      /\ visits'[<<u, w, <<"update", d>>>>] > 0 =>
                           d <= today /\ dedup[<<u, w>>].last # Never
    BY DEF TaskInv
  <2>1. /\ visits'[<<u, w, <<"insert", d>>>>] > 0 => visits[<<u, w, <<"insert", d>>>>] > 0
        /\ visits'[<<u, w, <<"update", d>>>>] > 0 => visits[<<u, w, <<"update", d>>>>] > 0
    BY <1>2, StatSteps
  <2> QED
    BY <2>1 DEF ViewInv, TaskInv
<1> QED
  BY <1>1, <1>3

LEMMA EndedFewer ==
    ASSUME ViewInv, NEW t \in Thread, NEW v \in Viewer, NEW from \in Statistics!Steps,
           visits[<<t, v, from>>] > 0, Statistics!Done(t, v, from),
           UNCHANGED <<today, born, view_count, dedup>>
    PROVE  /\ visits' \in [Task -> Nat] /\ DedupInv' /\ TaskInv' /\ born[t] # Never
           /\ \A u \in Thread \ {t}, w \in Viewer, s \in Statistics!Steps :
                visits'[<<u, w, s>>] = visits[<<u, w, s>>]
<1>1. ViewTyped
  BY DEF ViewInv
<1>2. /\ visits' \in [Task -> Nat]
      /\ visits'[<<t, v, from>>] = visits[<<t, v, from>>] - 1
      /\ \A u \in Thread, w \in Viewer, s \in Statistics!Steps :
           <<u, w, s>> # <<t, v, from>> => visits'[<<u, w, s>>] = visits[<<u, w, s>>]
  BY <1>1, TaskEnds
<1>3. \A u \in Thread, w \in Viewer, s \in Statistics!Steps :
        visits[<<u, w, s>>] \in Nat /\ visits'[<<u, w, s>>] \in Nat
  BY <1>1, <1>2, ViewTypes DEF Task
<1>4. \A u \in Thread, w \in Viewer, s \in Statistics!Steps :
        visits'[<<u, w, s>>] <= visits[<<u, w, s>>]
  <2> SUFFICES ASSUME NEW u \in Thread, NEW w \in Viewer, NEW s \in Statistics!Steps
               PROVE  visits'[<<u, w, s>>] <= visits[<<u, w, s>>]
    OBVIOUS
  <2>1. CASE <<u, w, s>> = <<t, v, from>>
    <3>1. visits'[<<u, w, s>>] = visits[<<u, w, s>>] - 1
      BY <1>2, <2>1
    <3> QED
      BY <1>3, <3>1
  <2>2. CASE <<u, w, s>> # <<t, v, from>>
    <3>1. visits'[<<u, w, s>>] = visits[<<u, w, s>>]
      BY <1>2, <2>2
    <3> QED
      BY <1>3, <3>1
  <2> QED
    BY <2>1, <2>2
<1> QED
  BY <1>2, <1>4, TasksFewer, TaskOfBorn

LEMMA RecordFailed ==
    ASSUME ViewInv, NEW t \in Thread, NEW v \in Viewer, NEW s \in Statistics!Steps,
           Statistics!RecordFails(t, v, s)
    PROVE  ViewInv'
<1>0. /\ visits[<<t, v, s>>] > 0 /\ Statistics!Done(t, v, s)
      /\ UNCHANGED <<stat_world, today, view_count, born, alive, dedup, daily, buffer,
                     draining, flushing>>
  BY DEF Statistics!RecordFails, Statistics!stored
<1>1. /\ visits' \in [Task -> Nat] /\ DedupInv' /\ TaskInv' /\ born[t] # Never
      /\ \A u \in Thread \ {t}, w \in Viewer, q \in Statistics!Steps :
           visits'[<<u, w, q>>] = visits[<<u, w, q>>]
  BY <1>0, EndedFewer
<1>2. ViewTyped'
  BY <1>0, <1>1 DEF ViewInv, ViewTyped, Statistics!TypeOK, Task
<1>3. UnbornInv'
  BY <1>0, <1>1, UnbornKept
<1> QED
  BY <1>1, <1>2, <1>3 DEF ViewInv

(* The buffer with one more view of t.                                     *)
LEMMA BufferGrown ==
    ASSUME ViewTyped, NEW t \in Thread, NEW v \in Viewer, Statistics!CountView(t, v)
    PROVE  /\ DOMAIN buffer' = DOMAIN buffer \cup {t}
           /\ \A u \in DOMAIN buffer' : buffer'[u] \in Nat
           /\ Statistics!Entry(buffer, t)' = Statistics!Entry(buffer, t) + 1
           /\ \A u \in Thread \ {t} :
                Statistics!Entry(buffer, u)' = Statistics!Entry(buffer, u)
<1>1. buffer' = [u \in DOMAIN buffer \cup {t} |->
                   Statistics!Entry(buffer, u) + IF u = t THEN 1 ELSE 0]
  BY DEF Statistics!CountView
<1>2. \A u \in Thread : Statistics!Entry(buffer, u) \in Nat
  BY DEF ViewTyped, Statistics!Entry
<1>3. DOMAIN buffer \subseteq Thread
  BY ViewTypes
<1>4. \A u \in Thread : u \notin DOMAIN buffer => Statistics!Entry(buffer, u) = 0
  BY DEF Statistics!Entry
<1>5. \A u \in DOMAIN buffer \cup {t} :
        buffer'[u] = Statistics!Entry(buffer, u) + IF u = t THEN 1 ELSE 0
  BY <1>1
<1>6. DOMAIN buffer' = DOMAIN buffer \cup {t}
  BY <1>1
<1>7. \A u \in Thread :
        Statistics!Entry(buffer, u)' = IF u \in DOMAIN buffer' THEN buffer'[u] ELSE 0
  BY DEF Statistics!Entry
<1> QED
  BY <1>2, <1>3, <1>4, <1>5, <1>6, <1>7

LEMMA ViewCounted ==
    ASSUME ViewInv, NEW t \in Thread, NEW v \in Viewer, Statistics!CountView(t, v)
    PROVE  ViewInv'
<1>0. /\ visits[<<t, v, Count>>] > 0 /\ Statistics!Done(t, v, Count)
      /\ UNCHANGED <<stat_world, today, view_count, born, alive, dedup, daily, draining,
                     flushing>>
  BY DEF Statistics!CountView, Statistics!stored, Count
<1>1. /\ visits' \in [Task -> Nat] /\ DedupInv' /\ TaskInv' /\ born[t] # Never
      /\ \A u \in Thread \ {t}, w \in Viewer, q \in Statistics!Steps :
           visits'[<<u, w, q>>] = visits[<<u, w, q>>]
  BY <1>0, EndedFewer, StatSteps
<1>2. /\ DOMAIN buffer' = DOMAIN buffer \cup {t}
      /\ \A u \in DOMAIN buffer' : buffer'[u] \in Nat
  BY BufferGrown DEF ViewInv
<1>3. ViewTyped'
  BY <1>0, <1>1, <1>2 DEF ViewInv, ViewTyped, Statistics!TypeOK, Task
<1>4. UnbornInv'
  BY <1>0, <1>1, <1>2 DEF ViewInv, UnbornInv
<1> QED
  BY <1>1, <1>3, <1>4 DEF ViewInv

(* The row of a viewer is new, or moved on to the task's day.              *)
LEMMA ViewInserted ==
    ASSUME ViewInv, NEW t \in Thread, NEW v \in Viewer, NEW d \in Statistics!Day,
           Statistics!InsertView(t, v, d)
    PROVE  ViewInv'
<1> DEFINE from == <<"insert", d>>
           again == <<"update", d>>
<1>0. /\ visits[<<t, v, from>>] > 0
      /\ UNCHANGED <<stat_world, today, view_count, born, alive, daily, buffer, draining,
                     flushing>>
  BY DEF Statistics!InsertView, Statistics!Since
<1>1. /\ ViewTyped /\ from \in Statistics!Steps /\ again \in Statistics!Steps
      /\ Count \in Statistics!Steps /\ from # again /\ from # Count /\ again # Count
  BY StatSteps DEF ViewInv
<1>2. /\ born[t] # Never /\ d <= today /\ today \in Nat /\ d \in Nat
      /\ d \in 0 .. LastDay /\ Never \notin Nat /\ LastDay \in Nat
  BY <1>0, <1>1, TaskOfBorn, ViewTypes, StatFacts DEF ViewInv, TaskInv
<1>3. \A u \in Thread, w \in Viewer, s \in Statistics!Steps :
        visits[<<u, w, s>>] \in Nat
  BY <1>1, ViewTypes DEF Task
<1>4. CASE dedup[<<t, v>>].last = Never
  <2>1. /\ dedup' = [dedup EXCEPT ![<<t, v>>] = [last |-> d, total |-> 1]]
        /\ Statistics!Move(t, v, from, Count)
    BY <1>4 DEF Statistics!InsertView, Statistics!Since, Count
  <2>2. /\ visits' \in [Task -> Nat]
        /\ visits'[<<t, v, Count>>] = visits[<<t, v, Count>>] + 1
        /\ visits'[<<t, v, from>>] = visits[<<t, v, from>>] - 1
        /\ \A u \in Thread, w \in Viewer, s \in Statistics!Steps :
             <<u, w, s>> # <<t, v, from>> /\ <<u, w, s>> # <<t, v, Count>> =>
               visits'[<<u, w, s>>] = visits[<<u, w, s>>]
    <3> HIDE DEF from, again
    <3> QED
      BY <1>0, <1>1, <2>1, TaskMoves
  <2>3. dedup' \in [Thread \X Viewer -> [last : Statistics!Day \cup {Never},
                                         total : 0 .. LastDay + 1]]
    <3>1. dedup \in [Thread \X Viewer -> [last : Statistics!Day \cup {Never},
                                          total : 0 .. LastDay + 1]]
      BY <1>1, ViewTypes
    <3>2. [last |-> d, total |-> 1] \in [last : Statistics!Day \cup {Never},
                                         total : 0 .. LastDay + 1]
      BY <1>2
    <3> QED
      BY <2>1, <3>1, <3>2
  <2>4. \A u \in Thread, w \in Viewer :
          dedup'[<<u, w>>] = IF <<u, w>> = <<t, v>> THEN [last |-> d, total |-> 1]
                                                    ELSE dedup[<<u, w>>]
    BY <1>1, <2>1, ViewTypes
  <2>5. ViewTyped'
    BY <1>0, <1>1, <2>2, <2>3 DEF ViewTyped, Statistics!TypeOK, Task
  <2>6. UnbornInv'
    BY <1>0, <1>2, <2>2, UnbornKept
  <2>7. DedupInv'
    <3> SUFFICES ASSUME NEW u \in Thread, NEW w \in Viewer
                 PROVE  IF dedup'[<<u, w>>].last = Never THEN dedup'[<<u, w>>].total = 0
                        ELSE /\ dedup'[<<u, w>>].last \in 0 .. today
                             /\ dedup'[<<u, w>>].total <= dedup'[<<u, w>>].last + 1
      BY <1>0 DEF DedupInv
    <3>1. CASE <<u, w>> = <<t, v>>
      BY <1>2, <2>4, <3>1
    <3>2. CASE <<u, w>> # <<t, v>>
      <4>1. dedup'[<<u, w>>] = dedup[<<u, w>>]
        BY <2>4, <3>2
      <4> QED
        BY <4>1 DEF ViewInv, DedupInv
    <3> QED
      BY <3>1, <3>2
  <2>8. TaskInv'
    <3> SUFFICES ASSUME NEW u \in Thread, NEW w \in Viewer, NEW e \in Statistics!Day
                 PROVE  /\ visits'[<<u, w, <<"insert", e>>>>] > 0 => e <= today
                        /\ visits'[<<u, w, <<"update", e>>>>] > 0 =>
                             e <= today /\ dedup'[<<u, w>>].last # Never
      BY <1>0 DEF TaskInv
    <3>1. <<"insert", e>> = from => e = d
      BY StatSteps
    <3>2. <<"insert", e>> # from =>
            visits'[<<u, w, <<"insert", e>>>>] = visits[<<u, w, <<"insert", e>>>>]
      BY <2>2, StatSteps
    <3>3. visits'[<<u, w, <<"update", e>>>>] = visits[<<u, w, <<"update", e>>>>]
      BY <2>2, StatSteps
    <3>4. dedup[<<u, w>>].last # Never => dedup'[<<u, w>>].last # Never
      BY <1>2, <2>4
    <3> QED
      BY <1>2, <3>1, <3>2, <3>3, <3>4 DEF ViewInv, TaskInv
  <2> QED
    BY <2>5, <2>6, <2>7, <2>8 DEF ViewInv
<1>5. CASE dedup[<<t, v>>].last # Never
  <2>1. dedup' = dedup /\ Statistics!Move(t, v, from, again)
    BY <1>5 DEF Statistics!InsertView, Statistics!Since
  <2>2. /\ visits' \in [Task -> Nat]
        /\ visits'[<<t, v, again>>] = visits[<<t, v, again>>] + 1
        /\ visits'[<<t, v, from>>] = visits[<<t, v, from>>] - 1
        /\ \A u \in Thread, w \in Viewer, s \in Statistics!Steps :
             <<u, w, s>> # <<t, v, from>> /\ <<u, w, s>> # <<t, v, again>> =>
               visits'[<<u, w, s>>] = visits[<<u, w, s>>]
    <3> HIDE DEF from, again
    <3> QED
      BY <1>0, <1>1, <2>1, TaskMoves
  <2>5. ViewTyped'
    BY <1>0, <1>1, <2>1, <2>2 DEF ViewTyped, Statistics!TypeOK, Task
  <2>6. UnbornInv'
    BY <1>0, <1>2, <2>2, UnbornKept
  <2>7. DedupInv'
    BY <1>0, <2>1 DEF ViewInv, DedupInv
  <2>8. TaskInv'
    <3> SUFFICES ASSUME NEW u \in Thread, NEW w \in Viewer, NEW e \in Statistics!Day
                 PROVE  /\ visits'[<<u, w, <<"insert", e>>>>] > 0 => e <= today
                        /\ visits'[<<u, w, <<"update", e>>>>] > 0 =>
                             e <= today /\ dedup[<<u, w>>].last # Never
      BY <1>0, <2>1 DEF TaskInv
    <3>1. <<"insert", e>> = from => e = d
      BY StatSteps
    <3>2. <<"insert", e>> # from =>
            visits'[<<u, w, <<"insert", e>>>>] = visits[<<u, w, <<"insert", e>>>>]
      BY <2>2, StatSteps
    <3>3. CASE <<u, w, <<"update", e>>>> = <<t, v, again>>
      <4>1. u = t /\ w = v /\ e = d
        BY <3>3, StatSteps
      <4> QED
        BY <1>2, <1>5, <3>1, <3>2, <4>1 DEF ViewInv, TaskInv
    <3>4. CASE <<u, w, <<"update", e>>>> # <<t, v, again>>
      <4>1. visits'[<<u, w, <<"update", e>>>>] = visits[<<u, w, <<"update", e>>>>]
        BY <2>2, <3>4, StatSteps
      <4> QED
        BY <1>2, <3>1, <3>2, <4>1 DEF ViewInv, TaskInv
    <3> QED
      BY <3>3, <3>4
  <2> QED
    BY <2>5, <2>6, <2>7, <2>8 DEF ViewInv
<1> QED
  BY <1>4, <1>5

LEMMA ViewUpdated ==
    ASSUME ViewInv, NEW t \in Thread, NEW v \in Viewer, NEW d \in Statistics!Day,
           Statistics!UpdateView(t, v, d)
    PROVE  ViewInv'
<1> DEFINE from == <<"update", d>>
           last == dedup[<<t, v>>].last
           total == dedup[<<t, v>>].total
<1>0. /\ visits[<<t, v, from>>] > 0
      /\ UNCHANGED <<stat_world, today, view_count, born, alive, daily, buffer, draining,
                     flushing>>
  BY DEF Statistics!UpdateView
<1>1. /\ ViewTyped /\ from \in Statistics!Steps /\ Count \in Statistics!Steps /\ from # Count
  BY StatSteps DEF ViewInv
<1>2. /\ born[t] # Never /\ d <= today /\ today \in Nat /\ d \in Nat /\ last # Never
      /\ d \in 0 .. LastDay /\ Never \notin Nat /\ LastDay \in Nat
      /\ last \in 0 .. LastDay /\ total \in Nat /\ total <= last + 1
  <2>1. /\ born[t] # Never /\ d <= today /\ today \in Nat /\ d \in Nat /\ last # Never
        /\ d \in 0 .. LastDay /\ Never \notin Nat /\ LastDay \in Nat
    BY <1>0, <1>1, TaskOfBorn, ViewTypes, StatFacts DEF ViewInv, TaskInv
  <2>2. dedup[<<t, v>>] \in [last : 0 .. LastDay \cup {Never}, total : 0 .. LastDay + 1]
    BY <1>1, ViewTypes, StatFacts
  <2> QED
    BY <2>1, <2>2 DEF ViewInv, DedupInv
<1>4. CASE last < d
  <2> DEFINE seen == [last |-> d, total |-> total + 1]
  <2>1. /\ dedup' = [dedup EXCEPT ![<<t, v>>] = seen]
        /\ Statistics!Move(t, v, from, Count)
    BY <1>4 DEF Statistics!UpdateView, Count
  <2>2. /\ visits' \in [Task -> Nat]
        /\ visits'[<<t, v, Count>>] = visits[<<t, v, Count>>] + 1
        /\ visits'[<<t, v, from>>] = visits[<<t, v, from>>] - 1
        /\ \A u \in Thread, w \in Viewer, s \in Statistics!Steps :
             <<u, w, s>> # <<t, v, from>> /\ <<u, w, s>> # <<t, v, Count>> =>
               visits'[<<u, w, s>>] = visits[<<u, w, s>>]
    <3> HIDE DEF from
    <3> QED
      BY <1>0, <1>1, <2>1, TaskMoves
  <2>3. /\ seen \in [last : Statistics!Day \cup {Never}, total : 0 .. LastDay + 1]
        /\ seen.last = d /\ seen.total <= d + 1
    <3>1. total + 1 \in 0 .. LastDay + 1 /\ total + 1 <= d + 1
      BY <1>2, <1>4
    <3> HIDE DEF total
    <3> QED
      BY <1>2, <3>1
  <2> HIDE DEF seen
  <2>4. /\ dedup' \in [Thread \X Viewer -> [last : Statistics!Day \cup {Never},
                                            total : 0 .. LastDay + 1]]
        /\ \A u \in Thread, w \in Viewer :
             dedup'[<<u, w>>] = IF <<u, w>> = <<t, v>> THEN seen ELSE dedup[<<u, w>>]
    BY <1>1, <2>1, <2>3, ViewTypes
  <2>5. ViewTyped'
    BY <1>0, <1>1, <2>2, <2>4 DEF ViewTyped, Statistics!TypeOK, Task
  <2>6. UnbornInv'
    BY <1>0, <1>2, <2>2, UnbornKept
  <2>7. DedupInv'
    <3> SUFFICES ASSUME NEW u \in Thread, NEW w \in Viewer
                 PROVE  IF dedup'[<<u, w>>].last = Never THEN dedup'[<<u, w>>].total = 0
                        ELSE /\ dedup'[<<u, w>>].last \in 0 .. today
                             /\ dedup'[<<u, w>>].total <= dedup'[<<u, w>>].last + 1
      BY <1>0 DEF DedupInv
    <3>1. CASE <<u, w>> = <<t, v>>
      <4>1. dedup'[<<u, w>>] = seen
        BY <2>4, <3>1
      <4> QED
        BY <1>2, <2>3, <4>1
    <3>2. CASE <<u, w>> # <<t, v>>
      <4>1. dedup'[<<u, w>>] = dedup[<<u, w>>]
        BY <2>4, <3>2
      <4> QED
        BY <4>1 DEF ViewInv, DedupInv
    <3> QED
      BY <3>1, <3>2
  <2>8. TaskInv'
    <3> SUFFICES ASSUME NEW u \in Thread, NEW w \in Viewer, NEW e \in Statistics!Day
                 PROVE  /\ visits'[<<u, w, <<"insert", e>>>>] > 0 => e <= today
                        /\ visits'[<<u, w, <<"update", e>>>>] > 0 =>
                             e <= today /\ dedup'[<<u, w>>].last # Never
      BY <1>0 DEF TaskInv
    <3>1. <<"update", e>> = from => e = d
      BY StatSteps
    <3>2. <<u, w, <<"update", e>>>> # <<t, v, from>> =>
            visits'[<<u, w, <<"update", e>>>>] = visits[<<u, w, <<"update", e>>>>]
      BY <2>2, StatSteps
    <3>3. visits'[<<u, w, <<"insert", e>>>>] = visits[<<u, w, <<"insert", e>>>>]
      BY <2>2, StatSteps
    <3>4. dedup[<<u, w>>].last # Never => dedup'[<<u, w>>].last # Never
      BY <1>2, <2>3, <2>4
    <3>5. <<u, w, <<"update", e>>>> = <<t, v, from>> => u = t /\ w = v
      OBVIOUS
    <3> QED
      BY <1>2, <3>1, <3>2, <3>3, <3>4, <3>5 DEF ViewInv, TaskInv
  <2> QED
    BY <2>5, <2>6, <2>7, <2>8 DEF ViewInv
<1>5. CASE ~(last < d)
  <2>1. dedup' = dedup /\ Statistics!Done(t, v, from)
    BY <1>5 DEF Statistics!UpdateView
  <2>2. /\ visits' \in [Task -> Nat] /\ DedupInv' /\ TaskInv' /\ born[t] # Never
        /\ \A u \in Thread \ {t}, w \in Viewer, q \in Statistics!Steps :
             visits'[<<u, w, q>>] = visits[<<u, w, q>>]
    <3> HIDE DEF from
    <3> QED
      BY <1>0, <1>1, <2>1, EndedFewer
  <2>3. ViewTyped'
    BY <1>0, <1>1, <2>1, <2>2 DEF ViewTyped, Statistics!TypeOK, Task
  <2>4. UnbornInv'
    BY <1>0, <2>2, UnbornKept
  <2> QED
    BY <2>2, <2>3, <2>4 DEF ViewInv
<1> QED
  BY <1>4, <1>5

LEMMA BufferDrained == ASSUME ViewInv, Statistics!DrainBuffer PROVE ViewInv'
<1>1. /\ DOMAIN draining' = DOMAIN buffer /\ DOMAIN buffer' = {} /\ draining' = buffer
      /\ UNCHANGED <<stat_world, today, view_count, born, alive, dedup, daily, visits, flushing>>
  BY DEF Statistics!DrainBuffer, Statistics!stored
<1>2. ViewTyped'
  BY <1>1 DEF ViewInv, ViewTyped, Statistics!TypeOK, Task
<1> QED
  BY <1>1, <1>2 DEF ViewInv, UnbornInv, DedupInv, TaskInv

LEMMA ViewsAdded ==
    ASSUME ViewInv, NEW t \in Thread, Statistics!AddViewCount(t) PROVE ViewInv'
<1>1. /\ t \in DOMAIN draining /\ draining[t] \in Nat /\ born[t] # Never
      /\ view_count[t] \in Nat
      /\ UNCHANGED <<stat_world, today, born, alive, dedup, daily, visits, buffer, flushing>>
  BY ViewTypes DEF Statistics!AddViewCount, ViewInv, UnbornInv
<1>2. draining' = [u \in DOMAIN draining \ {t} |-> draining[u]]
  BY DEF Statistics!AddViewCount, Statistics!Restrict
<1>3. /\ DOMAIN draining' = DOMAIN draining \ {t}
      /\ \A u \in DOMAIN draining' : draining'[u] = draining[u]
  BY <1>2
<1>4. /\ view_count' \in [Thread -> Nat]
      /\ \A u \in Thread \ {t} : view_count'[u] = view_count[u]
  <2>1. view_count \in [Thread -> Nat]
    BY ViewTypes DEF ViewInv
  <2>2. CASE view_count' = [view_count EXCEPT ![t] = @ + draining[t]]
    BY <1>1, <2>1, <2>2
  <2>3. CASE UNCHANGED view_count
    BY <2>1, <2>3
  <2> QED
    BY <2>2, <2>3 DEF Statistics!AddViewCount
<1>5. ViewTyped'
  BY <1>1, <1>3, <1>4 DEF ViewInv, ViewTyped, Statistics!TypeOK, Task
<1>6. UnbornInv'
  BY <1>1, <1>3, <1>4 DEF ViewInv, UnbornInv
<1> QED
  BY <1>1, <1>5, <1>6 DEF ViewInv, DedupInv, TaskInv

(* The sums of Statistics.                                                 *)
AllViews == Total(view_count, Thread)
ViewsOf(threads) == Total(view_count, threads)
NewViews == Statistics!stats_history("new_views")
Snapshot(d) == daily[d]["view_count_snapshot"]
Above(n, from) == IF n > from THEN n - from ELSE 0

LEMMA StandingSum ==
    ASSUME ViewTyped
    PROVE  /\ Statistics!view_total = ViewsOf(alive)
           /\ IsFiniteSet(alive) /\ ViewsOf(alive) \in Nat
           /\ AllViews \in Nat /\ ViewsOf(alive) <= AllViews
<1> DEFINE S == alive
           f == view_count
           Q(g) == g = [s \in SUBSET S |-> IF s = {} THEN 0
                                           ELSE LET x == CHOOSE x \in s : TRUE
                                                IN  view_count[x] + g[s \ {x}]]
<1>1. \A g : Q(g) <=> SumsUp(g, f, S)
  BY DEF SumsUp
<1>2. Statistics!view_total = (CHOOSE g : Q(g))[S]
  BY DEF Statistics!view_total, Statistics!MapThenSumSet, Statistics!MapThenFoldSet
<1>3. (CHOOSE g : Q(g)) = (CHOOSE g : SumsUp(g, f, S))
  BY <1>1
<1>4. /\ S \subseteq Thread /\ IsFiniteSet(Thread) /\ IsFiniteSet(S)
      /\ \A t \in Thread : f[t] \in Nat
  BY ViewTypes, StatFacts, FS_Subset
<1> HIDE DEF Q
<1>5. (CHOOSE g : SumsUp(g, f, S))[S] = Total(f, S)
  BY <1>4, TheSum
<1>6. Total(f, S) \in Nat /\ Total(f, Thread) \in Nat /\ Total(f, S) <= Total(f, Thread)
  BY <1>4, TotalNat, TotalMore
<1> QED
  BY <1>2, <1>3, <1>4, <1>5, <1>6 DEF ViewsOf, AllViews

LEMMA AllViewsSum ==
    ASSUME ViewTyped
    PROVE  Statistics!NoViewOnTwoDays <=> Total(NewViews, Statistics!Day) <= AllViews
<1>0. /\ \A t \in Thread : view_count[t] \in Nat
      /\ \A d \in Statistics!Day : NewViews[d] \in Nat
  BY ViewTypes, StatFacts DEF NewViews, Statistics!stats_history, Statistics!Metric
<1> DEFINE Q(g) == g = [s \in SUBSET Thread |-> IF s = {} THEN 0
                                                ELSE LET x == CHOOSE x \in s : TRUE
                                                     IN  view_count[x] + g[s \ {x}]]
           R(g) == g = [s \in SUBSET Statistics!Day |->
                          IF s = {} THEN 0
                          ELSE LET x == CHOOSE x \in s : TRUE
                               IN  Statistics!stats_history("new_views")[x] + g[s \ {x}]]
<1>1. \A g : Q(g) <=> SumsUp(g, view_count, Thread)
  BY DEF SumsUp
<1>2. \A g : R(g) <=> SumsUp(g, NewViews, Statistics!Day)
  BY DEF SumsUp, NewViews
<1>3. Statistics!NoViewOnTwoDays <=>
        (CHOOSE g : R(g))[Statistics!Day] <= (CHOOSE g : Q(g))[Thread]
  BY DEF Statistics!NoViewOnTwoDays, Statistics!MapThenSumSet, Statistics!MapThenFoldSet
<1>4. (CHOOSE g : Q(g)) = (CHOOSE g : SumsUp(g, view_count, Thread))
  BY <1>1
<1>5. (CHOOSE g : R(g)) = (CHOOSE g : SumsUp(g, NewViews, Statistics!Day))
  BY <1>2
<1> HIDE DEF Q, R
<1>6. (CHOOSE g : SumsUp(g, view_count, Thread))[Thread] = Total(view_count, Thread)
  BY <1>0, StatFacts, TheSum
<1>7. (CHOOSE g : SumsUp(g, NewViews, Statistics!Day))[Statistics!Day]
        = Total(NewViews, Statistics!Day)
  BY <1>0, StatFacts, TheSum
<1> QED
  BY <1>3, <1>4, <1>5, <1>6, <1>7 DEF AllViews

(* What today's row says of views.                                         *)
LEMMA TodaysViews ==
    ASSUME ViewTyped, NEW from \in Nat \cup {Never}
    PROVE  Statistics!new_views(from) = IF from = Never THEN 0 ELSE Above(ViewsOf(alive), from)
<1> DEFINE n == ViewsOf(alive) - IF from = Never THEN ViewsOf(alive) ELSE from
<1>1. n \in Int /\ ViewsOf(alive) \in Nat
  BY StandingSum
<1>2. Statistics!new_views(from) = Statistics!Max({0, n})
  BY StandingSum DEF Statistics!new_views
<1>3. /\ \A x \in {0, n} : (\A y \in {0, n} : x >= y) => x = IF n > 0 THEN n ELSE 0
      /\ \E x \in {0, n} : \A y \in {0, n} : x >= y
  <2> HIDE DEF n
  <2>1. \A x \in {0, n} : (\A y \in {0, n} : x >= y) => x = IF n > 0 THEN n ELSE 0
    BY <1>1
  <2>2. \E x \in {0, n} : \A y \in {0, n} : x >= y
    <3>1. CASE n > 0
      BY <1>1, <3>1
    <3>2. CASE ~(n > 0)
      BY <1>1, <3>2
    <3> QED
      BY <3>1, <3>2
  <2> QED
    BY <2>1, <2>2
<1>4. Statistics!Max({0, n}) = IF n > 0 THEN n ELSE 0
  <2> HIDE DEF n
  <2> QED
    BY <1>3 DEF Statistics!Max
<1>5. CASE from = Never
  BY <1>1, <1>2, <1>4, <1>5
<1>6. CASE from # Never
  BY <1>1, <1>2, <1>4, <1>6 DEF Above
<1> QED
  BY <1>5, <1>6

(* The rows of daily_stats, from the day before the first.                 *)
Row == [Statistics!Metric -> Nat \cup {Never}]

LEMMA RowsTyped ==
    ASSUME ViewTyped
    PROVE  /\ today \in 0 .. LastDay /\ LastDay \in Nat /\ today - 1 \in -1 .. LastDay
           /\ today \in -1 .. LastDay /\ Never \notin Nat
           /\ daily \in [-1 .. LastDay -> Row]
           /\ \A d \in -1 .. LastDay : Snapshot(d) \in Nat \cup {Never}
           /\ \A d \in 0 .. LastDay :
                /\ NewViews[d] = IF daily[d]["new_views"] = Never THEN 0 ELSE daily[d]["new_views"]
                /\ NewViews[d] \in Nat
<1>1. /\ today \in 0 .. LastDay /\ LastDay \in Nat /\ today - 1 \in -1 .. LastDay
      /\ today \in -1 .. LastDay /\ Never \notin Nat
  BY ViewTypes, StatFacts
<1>2. daily \in [-1 .. LastDay -> Row]
  BY ViewTypes DEF Row
<1>3. \A d \in -1 .. LastDay : \A m \in Statistics!Metric : daily[d][m] \in Nat \cup {Never}
  BY <1>2 DEF Row
<1>4. \A d \in -1 .. LastDay : Snapshot(d) \in Nat \cup {Never}
  BY <1>3 DEF Snapshot, Statistics!Metric
<1>5. ASSUME NEW d \in 0 .. LastDay
      PROVE  /\ NewViews[d] = IF daily[d]["new_views"] = Never THEN 0 ELSE daily[d]["new_views"]
             /\ NewViews[d] \in Nat
  <2>1. NewViews[d] = IF daily[d]["new_views"] = Never THEN 0 ELSE daily[d]["new_views"]
    BY StatFacts DEF NewViews, Statistics!stats_history
  <2>2. d \in -1 .. LastDay
    BY <1>1
  <2>3. daily[d]["new_views"] \in Nat \cup {Never}
    BY <1>3, <2>2 DEF Statistics!Metric
  <2> QED
    BY <2>1, <2>3
<1> QED
  BY <1>1, <1>2, <1>4, <1>5

(* A step of the statistics loop leaves the views alone.                   *)
LEMMA ViewsKept ==
    ASSUME ViewInv,
           UNCHANGED <<stat_world, view_count, born, alive, dedup, visits, buffer, draining>>,
           today' \in today .. LastDay, daily' \in [-1 .. LastDay -> Row], flushing' \in BOOLEAN
    PROVE  ViewInv'
<1>1. today \in 0 .. LastDay /\ LastDay \in Nat
  BY RowsTyped DEF ViewInv
<1>2. today' \in Statistics!Day /\ today <= today' /\ today \in Nat /\ today' \in Nat
  BY <1>1, StatFacts
<1>3. ViewTyped'
  BY <1>2 DEF ViewInv, ViewTyped, Statistics!TypeOK, Task, Row
<1>4. UnbornInv'
  BY DEF ViewInv, UnbornInv
<1>5. DedupInv'
  <2> SUFFICES ASSUME NEW u \in Thread, NEW w \in Viewer
               PROVE  IF dedup[<<u, w>>].last = Never THEN dedup[<<u, w>>].total = 0
                      ELSE /\ dedup[<<u, w>>].last \in 0 .. today'
                           /\ dedup[<<u, w>>].total <= dedup[<<u, w>>].last + 1
    BY DEF DedupInv
  <2>1. IF dedup[<<u, w>>].last = Never THEN dedup[<<u, w>>].total = 0
        ELSE /\ dedup[<<u, w>>].last \in 0 .. today
             /\ dedup[<<u, w>>].total <= dedup[<<u, w>>].last + 1
    BY DEF ViewInv, DedupInv
  <2>2. 0 .. today \subseteq 0 .. today'
    BY <1>2
  <2> QED
    BY <2>1, <2>2
<1>6. TaskInv'
  <2> SUFFICES ASSUME NEW u \in Thread, NEW w \in Viewer, NEW e \in Statistics!Day
               PROVE  /\ visits[<<u, w, <<"insert", e>>>>] > 0 => e <= today'
                      /\ visits[<<u, w, <<"update", e>>>>] > 0 =>
                           e <= today' /\ dedup[<<u, w>>].last # Never
    BY DEF TaskInv
  <2>1. e \in Nat
    BY StatFacts
  <2> QED
    BY <1>2, <2>1 DEF ViewInv, TaskInv
<1> QED
  BY <1>3, <1>4, <1>5, <1>6 DEF ViewInv

(* What each writes to daily_stats.                                        *)
LEMMA YesterdaySeeded ==
    ASSUME ViewTyped, Statistics!SeedYesterday
    PROVE  /\ daily' \in [-1 .. LastDay -> Row]
           /\ \A d \in -1 .. LastDay : daily'[d]["new_views"] = daily[d]["new_views"]
           /\ \A d \in -1 .. LastDay :
                Snapshot(d)' = IF d = today - 1 /\ Snapshot(d) = Never THEN ViewsOf(alive)
                                                                       ELSE Snapshot(d)
<1>1. /\ daily \in [-1 .. LastDay -> Row] /\ today - 1 \in -1 .. LastDay
      /\ ViewsOf(alive) \in Nat /\ Statistics!view_total = ViewsOf(alive)
  BY RowsTyped, StandingSum
<1>2. CASE Snapshot(today - 1) = Never
  <2>1. daily' = [daily EXCEPT ![today - 1] =
                    [daily[today - 1] EXCEPT !["view_count_snapshot"] = ViewsOf(alive)]]
    BY <1>1, <1>2 DEF Statistics!SeedYesterday, Snapshot
  <2>2. PICK y \in -1 .. LastDay : y = today - 1
    BY <1>1
  <2> DEFINE r == [daily[y] EXCEPT !["view_count_snapshot"] = ViewsOf(alive)]
  <2>3. /\ r \in Row /\ r["view_count_snapshot"] = ViewsOf(alive)
        /\ r["new_views"] = daily[y]["new_views"]
    BY <1>1 DEF Row, Statistics!Metric
  <2>4. daily' = [daily EXCEPT ![y] = r]
    BY <2>1, <2>2
  <2> HIDE DEF r
  <2>5. /\ daily' \in [-1 .. LastDay -> Row]
        /\ \A d \in -1 .. LastDay : daily'[d] = IF d = y THEN r ELSE daily[d]
    BY <1>1, <2>3, <2>4
  <2> QED
    BY <1>2, <2>2, <2>3, <2>5 DEF Snapshot
<1>3. CASE Snapshot(today - 1) # Never
  <2>1. daily' = daily
    BY <1>3 DEF Statistics!SeedYesterday, Snapshot
  <2> QED
    BY <1>1, <1>3, <2>1 DEF Snapshot
<1> QED
  BY <1>2, <1>3

LEMMA TodayUpserted ==
    ASSUME ViewTyped, Statistics!UpsertToday
    PROVE  /\ daily' \in [-1 .. LastDay -> Row]
           /\ \A d \in -1 .. LastDay : d # today => daily'[d] = daily[d]
           /\ Snapshot(today)' = ViewsOf(alive)
           /\ daily'[today]["new_views"] =
                IF Snapshot(today - 1) = Never THEN 0
                ELSE Above(ViewsOf(alive), Snapshot(today - 1))
<1>1. /\ daily \in [-1 .. LastDay -> Row] /\ today - 1 \in -1 .. LastDay
      /\ today \in -1 .. LastDay /\ today' = today
      /\ Snapshot(today - 1) \in Nat \cup {Never} /\ Never \notin Nat
      /\ ViewsOf(alive) \in Nat /\ Statistics!view_total = ViewsOf(alive)
  BY RowsTyped, StandingSum DEF Statistics!UpsertToday
<1>2. PICK n \in Nat : n = Statistics!new_views(Snapshot(today - 1))
  <2>1. Statistics!new_views(Snapshot(today - 1)) =
          IF Snapshot(today - 1) = Never THEN 0
          ELSE Above(ViewsOf(alive), Snapshot(today - 1))
    BY <1>1, TodaysViews
  <2>2. Snapshot(today - 1) \in Nat => Above(ViewsOf(alive), Snapshot(today - 1)) \in Nat
    BY <1>1 DEF Above
  <2> QED
    BY <1>1, <2>1, <2>2
<1>3. PICK m \in Nat : m = Statistics!new_threads
  <2> DEFINE S == {t \in alive : born[t] = today}
  <2>1. IsFiniteSet(S)
    BY StandingSum, FS_Subset
  <2>2. Cardinality(S) \in Nat
    BY <2>1, FS_CardinalityType
  <2>3. Statistics!new_threads = Cardinality(S)
    BY DEF Statistics!new_threads, Statistics!Cardinality, Cardinality
  <2> QED
    BY <2>2, <2>3
<1> DEFINE r == [view_count_snapshot |-> ViewsOf(alive), new_views |-> n, new_threads |-> m]
<1>4. daily' = [daily EXCEPT ![today] = r]
  BY <1>1, <1>2, <1>3 DEF Statistics!UpsertToday, Statistics!dashboard_counts, Snapshot
<1>5. /\ r \in Row /\ r["view_count_snapshot"] = ViewsOf(alive) /\ r["new_views"] = n
  BY <1>1 DEF Row, Statistics!Metric
<1> HIDE DEF r
<1>6. /\ daily' \in [-1 .. LastDay -> Row]
      /\ \A d \in -1 .. LastDay : daily'[d] = IF d = today THEN r ELSE daily[d]
  BY <1>1, <1>4, <1>5
<1>7. n = IF Snapshot(today - 1) = Never THEN 0 ELSE Above(ViewsOf(alive), Snapshot(today - 1))
  BY <1>1, <1>2, TodaysViews
<1> QED
  BY <1>1, <1>5, <1>6, <1>7 DEF Snapshot

LEMMA HistoryFilled ==
    ASSUME ViewTyped
    PROVE  /\ Statistics!backfill_history \in [-1 .. LastDay -> Row]
           /\ \A d \in -1 .. LastDay : \A m \in {"view_count_snapshot", "new_views"} :
                Statistics!backfill_history[d][m] = daily[d][m]
<1>1. daily \in [-1 .. LastDay -> Row]
  BY RowsTyped
<1> DEFINE b == Statistics!backfill_history
<1>2. b = [d \in -1 .. LastDay |-> b[d]]
  BY <1>1 DEF Statistics!backfill_history
<1>3. ASSUME NEW d \in -1 .. LastDay
      PROVE  b[d] \in Row /\ \A m \in {"view_count_snapshot", "new_views"} : b[d][m] = daily[d][m]
  <2> DEFINE S == {t \in alive : born[t] = d}
  <2>1. Cardinality(S) \in Nat
    <3>1. IsFiniteSet(S)
      BY StandingSum, FS_Subset
    <3> QED
      BY <3>1, FS_CardinalityType
  <2>2. PICK n \in Nat : n = Cardinality(S)
    BY <2>1
  <2> DEFINE r == [daily[d] EXCEPT !["new_threads"] = n]
  <2>3. b[d] = r \/ b[d] = daily[d]
    BY <1>1, <2>2 DEF Statistics!backfill_history, Statistics!Cardinality, Cardinality
  <2>4. r \in Row /\ \A m \in {"view_count_snapshot", "new_views"} : r[m] = daily[d][m]
    BY <1>1, <2>2 DEF Row, Statistics!Metric
  <2> HIDE DEF r, b
  <2> QED
    BY <1>1, <2>3, <2>4
<1> HIDE DEF b
<1> QED
  BY <1>2, <1>3 DEF b

(* No view is reported twice. Days to come have no row. What all the rows  *)
(* report was counted, and what the next row will report, the views above  *)
(* yesterday's snapshot, is not among it; nor are those above today's      *)
(* among what the rows report when today is over.                          *)
DayInv ==
    /\ \A d \in today + 1 .. LastDay : Snapshot(d) = Never /\ daily[d]["new_views"] = Never
    /\ Total(NewViews, Statistics!Day) <= AllViews
    /\ Snapshot(today - 1) # Never =>
         Total(NewViews, 0 .. today - 1) + Above(ViewsOf(alive), Snapshot(today - 1)) <= AllViews
    /\ Snapshot(today) # Never =>
         Total(NewViews, Statistics!Day) + Above(ViewsOf(alive), Snapshot(today)) <= AllViews

(* Days that have a row.                                                   *)
LEMMA DaysTotal ==
    ASSUME NEW f, NEW n \in 0 .. LastDay, \A d \in 0 .. LastDay : f[d] \in Nat,
           \A d \in n + 1 .. LastDay : f[d] = 0
    PROVE  /\ Total(f, Statistics!Day) = Total(f, 0 .. n - 1) + f[n]
           /\ Total(f, 0 .. n) = Total(f, 0 .. n - 1) + f[n]
           /\ Total(f, 0 .. n - 1) \in Nat /\ f[n] \in Nat
<1>1. LastDay \in Nat /\ n \in Nat /\ Statistics!Day = 0 .. LastDay /\ n - 1 \in Int
  BY StatFacts
<1>2. /\ IsFiniteSet(0 .. n - 1) /\ IsFiniteSet({n}) /\ IsFiniteSet(n + 1 .. LastDay)
      /\ IsFiniteSet(0 .. n)
  <2>1. n - 1 \in Int /\ n + 1 \in Int /\ 0 \in Int /\ n \in Int /\ LastDay \in Int
    BY <1>1
  <2>2. \A i, j \in Int : IsFiniteSet(i .. j)
    BY FS_Interval
  <2> QED
    BY <2>1, <2>2, FS_Singleton
<1>3. /\ (0 .. n - 1) \cup {n} = 0 .. n /\ (0 .. n - 1) \cap {n} = {}
      /\ (0 .. n) \cup (n + 1 .. LastDay) = 0 .. LastDay
      /\ (0 .. n) \cap (n + 1 .. LastDay) = {}
  BY <1>1
<1>4. \A d \in (0 .. n - 1) \cup {n} : f[d] \in Nat
  BY <1>1, <1>3
<1>5. Total(f, (0 .. n - 1) \cup {n}) = Total(f, 0 .. n - 1) + Total(f, {n})
  BY <1>2, <1>3, <1>4, TotalSplit
<1>6. Total(f, {n}) = f[n] /\ f[n] \in Nat
  BY <1>1, TotalOne
<1>7. Total(f, 0 .. n) = Total(f, 0 .. n - 1) + f[n]
  BY <1>3, <1>5, <1>6
<1>8. Total(f, n + 1 .. LastDay) = 0
  BY TotalZero
<1>9. Total(f, (0 .. n) \cup (n + 1 .. LastDay)) = Total(f, 0 .. n) + Total(f, n + 1 .. LastDay)
  <2>1. \A d \in (0 .. n) \cup (n + 1 .. LastDay) : f[d] \in Nat
    BY <1>3
  <2> QED
    BY <1>2, <1>3, <2>1, TotalSplit
<1>10. Total(f, 0 .. n - 1) \in Nat /\ Total(f, 0 .. n) \in Nat
  <2>1. \A d \in 0 .. n : f[d] \in Nat
    BY <1>1
  <2>2. \A d \in 0 .. n - 1 : f[d] \in Nat
    BY <1>4
  <2> QED
    BY <1>2, <2>1, <2>2, TotalNat
<1> DEFINE all == Total(f, 0 .. LastDay)
           upto == Total(f, 0 .. n)
<1>11. upto \in Nat /\ all = upto + 0
  BY <1>3, <1>8, <1>9, <1>10
<1> HIDE DEF all, upto
<1>12. all = upto
  BY <1>11
<1> QED
  BY <1>1, <1>6, <1>7, <1>10, <1>12 DEF all, upto

LEMMA AboveNat ==
    \A n, m \in Nat : /\ Above(n, m) \in Nat /\ Above(n, n) = 0
                      /\ \A k, i \in Nat : k <= n + i => Above(k, m) <= Above(n, m) + i
  BY DEF Above

(* A step that leaves the days alone, and adds to the threads that are     *)
(* there no more than to all.                                              *)
LEMMA DaysKept ==
    ASSUME ViewInv, DayInv, ViewTyped', today' = today,
           \A d \in -1 .. LastDay : \A m \in {"view_count_snapshot", "new_views"} :
             daily'[d][m] = daily[d][m],
           NEW i \in Nat, AllViews' = AllViews + i, ViewsOf(alive)' <= ViewsOf(alive) + i
    PROVE  DayInv'
<1>0. ViewTyped
  BY DEF ViewInv
<1>1. /\ \A d \in -1 .. LastDay : Snapshot(d)' = Snapshot(d)
      /\ today \in 0 .. LastDay /\ LastDay \in Nat /\ Statistics!Day = 0 .. LastDay
      /\ today - 1 \in -1 .. LastDay /\ today \in -1 .. LastDay
      /\ Snapshot(today - 1) \in Nat \cup {Never} /\ Snapshot(today) \in Nat \cup {Never}
  BY <1>0, RowsTyped, StatFacts DEF Snapshot
<1>2. \A d \in Statistics!Day : NewViews'[d] = NewViews[d]
  <2>1. \A d \in 0 .. LastDay : NewViews'[d] =
          IF daily'[d]["new_views"] = Never THEN 0 ELSE daily'[d]["new_views"]
    BY StatFacts DEF NewViews, Statistics!stats_history
  <2>2. \A d \in 0 .. LastDay : daily'[d]["new_views"] = daily[d]["new_views"]
    BY <1>1
  <2>3. \A d \in 0 .. LastDay : NewViews[d] =
          IF daily[d]["new_views"] = Never THEN 0 ELSE daily[d]["new_views"]
    BY <1>0, RowsTyped
  <2> QED
    BY <1>1, <2>1, <2>2, <2>3
<1>3. Total(NewViews, Statistics!Day)' = Total(NewViews, Statistics!Day)
  BY <1>2, TotalSame
<1>4. Total(NewViews, 0 .. today - 1)' = Total(NewViews, 0 .. today - 1)
  <2>1. \A d \in 0 .. today - 1 : NewViews'[d] = NewViews[d]
    BY <1>1, <1>2
  <2> QED
    BY <2>1, TotalSame
<1>5. ViewsOf(alive) \in Nat /\ AllViews \in Nat
  BY <1>0, StandingSum
<1>6. ViewsOf(alive)' \in Nat
  <2>1. (ViewTyped => ViewsOf(alive) \in Nat)'
    BY StandingSum, PTL
  <2> QED
    BY <2>1
<1>7. Total(NewViews, Statistics!Day) \in Nat /\ Total(NewViews, 0 .. today - 1) \in Nat
  <2>1. IsFiniteSet(0 .. today - 1) /\ 0 .. today - 1 \subseteq Statistics!Day
    <3>1. 0 \in Int /\ today - 1 \in Int
      BY <1>1
    <3>2. IsFiniteSet(0 .. today - 1)
      BY <3>1, FS_Interval
    <3> QED
      BY <1>1, <3>2
  <2> QED
    BY <1>0, <1>1, <2>1, RowsTyped, StatFacts, TotalNat
<1> DEFINE v == ViewsOf(alive)
           w == ViewsOf(alive)'
           g == AllViews
           all == Total(NewViews, Statistics!Day)
           past == Total(NewViews, 0 .. today - 1)
<1> HIDE DEF v, w, g, all, past
<1>8. /\ v \in Nat /\ w \in Nat /\ g \in Nat /\ all \in Nat /\ past \in Nat
      /\ w <= v + i
  BY <1>5, <1>6, <1>7 DEF v, w, g, all, past
<1>9. /\ all <= g
      /\ Snapshot(today - 1) # Never => past + Above(v, Snapshot(today - 1)) <= g
      /\ Snapshot(today) # Never => all + Above(v, Snapshot(today)) <= g
  BY DEF DayInv, v, g, all, past
<1>10. /\ all <= g + i
       /\ Snapshot(today - 1) # Never => past + Above(w, Snapshot(today - 1)) <= g + i
       /\ Snapshot(today) # Never => all + Above(w, Snapshot(today)) <= g + i
  <2>1. ASSUME NEW n \in Nat, NEW b \in Nat \cup {Never}, b # Never, n + Above(v, b) <= g
        PROVE  n + Above(w, b) <= g + i
    <3>1. Above(w, b) <= Above(v, b) + i /\ Above(w, b) \in Nat /\ Above(v, b) \in Nat
      BY <1>8, <2>1, AboveNat
    <3> QED
      BY <1>8, <2>1, <3>1
  <2>2. all <= g + i
    BY <1>8, <1>9
  <2> QED
    BY <1>1, <1>8, <1>9, <2>1, <2>2
<1>11. \A d \in today + 1 .. LastDay : Snapshot(d)' = Never /\ daily'[d]["new_views"] = Never
  BY <1>1 DEF DayInv
<1> QED
  BY <1>1, <1>3, <1>4, <1>10, <1>11 DEF DayInv, w, g, all, past

LEMMA DaysInitially == Statistics!Init => DayInv
<1> SUFFICES ASSUME Statistics!Init PROVE DayInv
  OBVIOUS
<1>1. ViewTyped
  BY ViewsInitially DEF ViewInv
<1>2. /\ today = 0 /\ LastDay \in Nat /\ Statistics!Day = 0 .. LastDay
      /\ \A d \in -1 .. LastDay : daily[d] = Statistics!Nothing
  BY StatFacts DEF Statistics!Init
<1>3. \A d \in -1 .. LastDay : Snapshot(d) = Never /\ daily[d]["new_views"] = Never
  BY <1>2 DEF Snapshot, Statistics!Nothing, Statistics!Metric
<1>4. Total(NewViews, Statistics!Day) = 0
  <2>1. \A d \in Statistics!Day : d \in -1 .. LastDay /\ d \in 0 .. LastDay
    BY <1>2
  <2>2. \A d \in Statistics!Day : NewViews[d] = 0
    BY <1>1, <1>3, <2>1, RowsTyped
  <2> QED
    BY <2>2, TotalZero
<1>5. AllViews \in Nat
  BY <1>1, StandingSum
<1>6. 0 - 1 \in -1 .. LastDay /\ 0 \in -1 .. LastDay /\ 0 + 1 .. LastDay \subseteq -1 .. LastDay
  BY <1>2
<1>7. Snapshot(today - 1) = Never /\ Snapshot(today) = Never
  BY <1>2, <1>3, <1>6
<1>8. \A d \in today + 1 .. LastDay : Snapshot(d) = Never /\ daily[d]["new_views"] = Never
  BY <1>2, <1>3, <1>6
<1> QED
  BY <1>4, <1>5, <1>7, <1>8 DEF DayInv

(* What all the rows report, and what those before today's do.             *)
LEMMA DaySums ==
    ASSUME ViewTyped
    PROVE  /\ Total(NewViews, Statistics!Day) \in Nat
           /\ Total(NewViews, 0 .. today - 1) \in Nat
           /\ Total(NewViews, 0 .. today - 1) <= Total(NewViews, Statistics!Day)
<1>1. /\ IsFiniteSet(Statistics!Day) /\ 0 .. today - 1 \subseteq Statistics!Day
      /\ \A d \in Statistics!Day : NewViews[d] \in Nat
  BY RowsTyped, StatFacts
<1>2. IsFiniteSet(0 .. today - 1)
  BY <1>1, FS_Subset
<1> QED
  BY <1>1, <1>2, TotalNat, TotalMore

LEMMA NewViewsSame ==
    ASSUME NEW S, S \subseteq 0 .. LastDay,
           \A d \in S : daily'[d]["new_views"] = daily[d]["new_views"]
    PROVE  Total(NewViews, S)' = Total(NewViews, S)
<1>1. \A d \in S : NewViews'[d] = NewViews[d]
  BY StatFacts DEF NewViews, Statistics!stats_history
<1> QED
  BY <1>1, TotalSame

LEMMA DaysSeeded == ASSUME ViewInv, DayInv, Statistics!SeedYesterday PROVE DayInv'
<1>0. ViewTyped /\ UNCHANGED <<today, view_count, alive>>
  BY DEF ViewInv, Statistics!SeedYesterday
<1>1. /\ today \in 0 .. LastDay /\ LastDay \in Nat /\ Statistics!Day = 0 .. LastDay
      /\ today - 1 \in -1 .. LastDay /\ today \in -1 .. LastDay
      /\ 0 .. LastDay \subseteq -1 .. LastDay
      /\ 0 .. today - 1 \subseteq 0 .. LastDay
      /\ Snapshot(today - 1) \in Nat \cup {Never} /\ Snapshot(today) \in Nat \cup {Never}
  BY <1>0, RowsTyped, StatFacts
<1>2. /\ \A d \in -1 .. LastDay : daily'[d]["new_views"] = daily[d]["new_views"]
      /\ \A d \in -1 .. LastDay :
           Snapshot(d)' = IF d = today - 1 /\ Snapshot(d) = Never THEN ViewsOf(alive)
                                                                  ELSE Snapshot(d)
  BY <1>0, YesterdaySeeded
<1>3. /\ Total(NewViews, Statistics!Day)' = Total(NewViews, Statistics!Day)
      /\ Total(NewViews, 0 .. today - 1)' = Total(NewViews, 0 .. today - 1)
  <2>1. PICK n \in 0 .. LastDay : n = today
    BY <1>1
  <2>2. Total(NewViews, 0 .. LastDay)' = Total(NewViews, 0 .. LastDay)
    BY <1>1, <1>2, NewViewsSame
  <2>3. 0 .. n - 1 \subseteq 0 .. LastDay
    BY <1>1, <2>1
  <2>4. Total(NewViews, 0 .. n - 1)' = Total(NewViews, 0 .. n - 1)
    BY <1>1, <1>2, <2>3, NewViewsSame
  <2> QED
    BY <1>0, <1>1, <2>1, <2>2, <2>4
<1>4. ViewsOf(alive)' = ViewsOf(alive) /\ AllViews' = AllViews
  BY <1>0 DEF ViewsOf, AllViews
<1>5. \A d \in today + 1 .. LastDay : Snapshot(d)' = Never /\ daily'[d]["new_views"] = Never
  <2>1. \A d \in today + 1 .. LastDay : d \in -1 .. LastDay /\ d # today - 1
    BY <1>1
  <2> QED
    BY <1>2, <2>1 DEF DayInv
<1> DEFINE v == ViewsOf(alive)
           g == AllViews
           all == Total(NewViews, Statistics!Day)
           past == Total(NewViews, 0 .. today - 1)
<1>6. /\ v \in Nat /\ g \in Nat /\ all \in Nat /\ past \in Nat /\ past <= all /\ all <= g
      /\ Snapshot(today - 1) # Never => past + Above(v, Snapshot(today - 1)) <= g
      /\ Snapshot(today) # Never => all + Above(v, Snapshot(today)) <= g
  BY <1>0, DaySums, StandingSum DEF DayInv
<1> HIDE DEF v, g, all, past
<1>7. Snapshot(today - 1)' # Never => past + Above(v, Snapshot(today - 1)') <= g
  <2>1. Snapshot(today - 1)' = IF Snapshot(today - 1) = Never THEN v ELSE Snapshot(today - 1)
    <3>1. PICK n \in -1 .. LastDay : n = today - 1
      BY <1>1
    <3>2. Snapshot(n)' = IF Snapshot(n) = Never THEN v ELSE Snapshot(n)
      BY <1>2, <3>1 DEF v
    <3> QED
      BY <1>0, <3>1, <3>2
  <2>2. Above(v, v) = 0
    BY <1>6, AboveNat
  <2> QED
    BY <1>1, <1>6, <2>1, <2>2
<1>8. Snapshot(today)' # Never => all + Above(v, Snapshot(today)') <= g
  <2>1. PICK n \in -1 .. LastDay : n = today /\ n # today - 1
    BY <1>1
  <2>2. Snapshot(n)' = Snapshot(n)
    BY <1>2, <2>1
  <2> QED
    BY <1>0, <1>6, <2>1, <2>2
<1>9. all <= g
  BY <1>6
<1> QED
  BY <1>0, <1>3, <1>4, <1>5, <1>7, <1>8, <1>9 DEF DayInv, v, g, all, past

LEMMA DaysUpserted == ASSUME ViewInv, DayInv, Statistics!UpsertToday PROVE DayInv'
<1>0. ViewTyped /\ UNCHANGED <<today, view_count, alive>>
  BY DEF ViewInv, Statistics!UpsertToday
<1>1. /\ today \in 0 .. LastDay /\ LastDay \in Nat /\ Statistics!Day = 0 .. LastDay
      /\ today - 1 \in -1 .. LastDay /\ today \in -1 .. LastDay
      /\ 0 .. LastDay \subseteq -1 .. LastDay
      /\ 0 .. today - 1 \subseteq 0 .. LastDay /\ Never \notin Nat
      /\ Snapshot(today - 1) \in Nat \cup {Never} /\ Snapshot(today) \in Nat \cup {Never}
      /\ \A d \in 0 .. LastDay :
           /\ NewViews[d] = IF daily[d]["new_views"] = Never THEN 0 ELSE daily[d]["new_views"]
           /\ NewViews[d] \in Nat
  BY <1>0, RowsTyped, StatFacts
<1>2. /\ \A d \in -1 .. LastDay : d # today => daily'[d] = daily[d]
      /\ Snapshot(today)' = ViewsOf(alive)
      /\ daily'[today]["new_views"] =
           IF Snapshot(today - 1) = Never THEN 0
           ELSE Above(ViewsOf(alive), Snapshot(today - 1))
  BY <1>0, TodayUpserted
<1>3. ViewsOf(alive)' = ViewsOf(alive) /\ AllViews' = AllViews
  BY <1>0 DEF ViewsOf, AllViews
<1>4. PICK n \in 0 .. LastDay : n = today
  BY <1>1
<1> DEFINE v == ViewsOf(alive)
           g == AllViews
           all == Total(NewViews, Statistics!Day)
           past == Total(NewViews, 0 .. n - 1)
           more == IF Snapshot(n - 1) = Never THEN 0 ELSE Above(v, Snapshot(n - 1))
<1>5. /\ v \in Nat /\ g \in Nat /\ all \in Nat /\ past \in Nat /\ past <= all /\ all <= g
      /\ Snapshot(n - 1) # Never => past + Above(v, Snapshot(n - 1)) <= g
      /\ Snapshot(n - 1) \in Nat \cup {Never}
  BY <1>0, <1>1, <1>4, DaySums, StandingSum DEF DayInv
<1>6. more \in Nat /\ past + more <= g
  <2> HIDE DEF v, g, all, past
  <2>1. CASE Snapshot(n - 1) = Never
    BY <1>5, <2>1
  <2>2. CASE Snapshot(n - 1) # Never
    BY <1>5, <2>2, AboveNat
  <2> QED
    BY <2>1, <2>2
<1>7. \A d \in n + 1 .. LastDay : Snapshot(d)' = Never /\ daily'[d]["new_views"] = Never
  <2>1. \A d \in n + 1 .. LastDay : d \in -1 .. LastDay /\ d # today
    BY <1>1, <1>4
  <2> QED
    BY <1>2, <1>4, <2>1 DEF DayInv, Snapshot
<1>8. /\ NewViews'[n] = more
      /\ \A d \in n + 1 .. LastDay : NewViews'[d] = 0
      /\ \A d \in 0 .. LastDay : NewViews'[d] \in Nat
  <2>1. \A d \in 0 .. LastDay : NewViews'[d] =
          IF daily'[d]["new_views"] = Never THEN 0 ELSE daily'[d]["new_views"]
    BY StatFacts DEF NewViews, Statistics!stats_history
  <2>2. daily'[n]["new_views"] = more
    BY <1>2, <1>4
  <2>3. NewViews'[n] = more
    <3> HIDE DEF more
    <3> QED
      BY <1>1, <1>4, <1>6, <2>1, <2>2
  <2>4. \A d \in n + 1 .. LastDay : NewViews'[d] = 0
    <3>1. n + 1 .. LastDay \subseteq 0 .. LastDay
      BY <1>1
    <3> QED
      BY <1>7, <2>1, <3>1
  <2>5. ASSUME NEW d \in 0 .. LastDay PROVE NewViews'[d] \in Nat
    <3>1. CASE d = n
      BY <1>6, <2>3, <3>1
    <3>2. CASE d # n
      <4>1. d \in -1 .. LastDay /\ d # today
        BY <1>1, <1>4, <3>2
      <4>2. NewViews'[d] = NewViews[d]
        BY <1>1, <1>2, <2>1, <4>1
      <4> QED
        BY <1>1, <4>2
    <3> QED
      BY <3>1, <3>2
  <2> QED
    BY <2>3, <2>4, <2>5
<1>9. Total(NewViews, 0 .. n - 1)' = past
  <2>1. 0 .. n - 1 \subseteq 0 .. LastDay /\ \A d \in 0 .. n - 1 : d \in -1 .. LastDay /\ d # today
    BY <1>1, <1>4
  <2> QED
    BY <1>2, <2>1, NewViewsSame
<1>10. Total(NewViews, Statistics!Day)' = past + more
  <2>1. \A f : /\ \A d \in 0 .. LastDay : f[d] \in Nat
               /\ \A d \in n + 1 .. LastDay : f[d] = 0
          => Total(f, Statistics!Day) = Total(f, 0 .. n - 1) + f[n]
    BY DaysTotal
  <2>2. Total(NewViews', Statistics!Day) = Total(NewViews', 0 .. n - 1) + NewViews'[n]
    BY <1>8, <2>1
  <2>3. Total(NewViews', 0 .. n - 1) = past
    BY <1>9
  <2> HIDE DEF past, more
  <2> QED
    BY <1>8, <2>2, <2>3
<1>11. Snapshot(n - 1)' = Snapshot(n - 1)
  <2>1. n - 1 \in -1 .. LastDay /\ n - 1 # today
    BY <1>1, <1>4
  <2> QED
    BY <1>2, <2>1 DEF Snapshot
<1>12. Snapshot(n)' = v
  BY <1>0, <1>2, <1>4 DEF Snapshot
<1>13. Above(v, v) = 0
  BY <1>5, AboveNat
<1> HIDE DEF v, g, all, past, more
<1>14. /\ past + more <= g /\ (past + more) + Above(v, v) <= g
       /\ Snapshot(n - 1) # Never => past + Above(v, Snapshot(n - 1)) <= g
  BY <1>5, <1>6, <1>13
<1> QED
  BY <1>0, <1>3, <1>4, <1>7, <1>9, <1>10, <1>11, <1>12, <1>14 DEF DayInv, v, g

LEMMA DaysTurned == ASSUME ViewInv, DayInv, Statistics!NextDay PROVE DayInv'
<1>0. /\ ViewTyped /\ UNCHANGED <<view_count, alive, daily>>
      /\ today' = today + 1 /\ today < LastDay
  BY DEF ViewInv, Statistics!NextDay, Statistics!stored
<1>1. /\ today \in 0 .. LastDay /\ LastDay \in Nat /\ Statistics!Day = 0 .. LastDay
      /\ \A d \in 0 .. LastDay :
           /\ NewViews[d] = IF daily[d]["new_views"] = Never THEN 0 ELSE daily[d]["new_views"]
           /\ NewViews[d] \in Nat
  BY <1>0, RowsTyped, StatFacts
<1>2. PICK n \in 0 .. LastDay : n = today
  BY <1>1
<1>3. /\ NewViews' = NewViews /\ AllViews' = AllViews /\ ViewsOf(alive)' = ViewsOf(alive)
      /\ \A d \in -1 .. LastDay : Snapshot(d)' = Snapshot(d)
  BY <1>0 DEF NewViews, Statistics!stats_history, AllViews, ViewsOf, Snapshot
<1>4. \A d \in n + 1 .. LastDay : Snapshot(d) = Never /\ daily[d]["new_views"] = Never
  BY <1>2 DEF DayInv
<1>5. /\ n \in -1 .. LastDay /\ n + 1 \in n + 1 .. LastDay /\ n + 1 \in -1 .. LastDay
      /\ (n + 1) - 1 = n /\ (n + 1) + 1 .. LastDay \subseteq n + 1 .. LastDay
      /\ n + 1 .. LastDay \subseteq -1 .. LastDay /\ n + 1 .. LastDay \subseteq 0 .. LastDay
  BY <1>0, <1>1, <1>2
<1>6. Total(NewViews, 0 .. n) = Total(NewViews, Statistics!Day)
  <2>1. \A d \in n + 1 .. LastDay : NewViews[d] = 0
    BY <1>1, <1>4, <1>5
  <2> QED
    BY <1>1, <2>1, DaysTotal
<1>7. Snapshot(n + 1) = Never
  BY <1>4, <1>5
<1>8. \A d \in (n + 1) + 1 .. LastDay : Snapshot(d)' = Never /\ daily'[d]["new_views"] = Never
  BY <1>0, <1>3, <1>4, <1>5
<1>9. today' = n + 1 /\ today' - 1 = n
  BY <1>0, <1>2, <1>5
<1>10. Snapshot(n + 1)' = Never /\ Snapshot(n)' = Snapshot(n)
  BY <1>3, <1>5, <1>7
<1>11. /\ Total(NewViews, Statistics!Day)' <= AllViews'
       /\ Snapshot(n)' # Never =>
            Total(NewViews', 0 .. n) + Above(ViewsOf(alive)', Snapshot(n)') <= AllViews'
  <2>1. /\ Total(NewViews, Statistics!Day) <= AllViews
        /\ Snapshot(n) # Never =>
             Total(NewViews, Statistics!Day) + Above(ViewsOf(alive), Snapshot(n)) <= AllViews
    BY <1>2 DEF DayInv
  <2> QED
    BY <1>3, <1>6, <1>10, <2>1
<1> QED
  BY <1>8, <1>9, <1>10, <1>11 DEF DayInv

(* The steps that write daily_stats, end the day or end the server.        *)
LEMMA LoopSteps ==
    ASSUME ViewInv,
           Statistics!SeedYesterday \/ Statistics!UpsertToday \/ Statistics!NextDay
    PROVE  ViewInv'
<1>0. /\ ViewTyped /\ daily \in [-1 .. LastDay -> Row]
      /\ today \in 0 .. LastDay /\ LastDay \in Nat /\ flushing \in BOOLEAN
  BY RowsTyped, ViewTypes DEF ViewInv
<1>1. today \in today .. LastDay /\ (today < LastDay => today + 1 \in today .. LastDay)
  BY <1>0
<1>2. CASE Statistics!SeedYesterday
  <2>1. daily' \in [-1 .. LastDay -> Row]
    BY <1>0, <1>2, YesterdaySeeded
  <2>2. /\ UNCHANGED <<stat_world, today, view_count, born, alive, dedup, visits, buffer, draining>>
        /\ flushing' \in BOOLEAN
    BY <1>2 DEF Statistics!SeedYesterday
  <2> QED
    BY <1>1, <2>1, <2>2, ViewsKept
<1>3. CASE Statistics!UpsertToday
  <2>1. daily' \in [-1 .. LastDay -> Row]
    BY <1>0, <1>3, TodayUpserted
  <2>2. /\ UNCHANGED <<stat_world, today, view_count, born, alive, dedup, visits, buffer, draining>>
        /\ flushing' \in BOOLEAN
    BY <1>3 DEF Statistics!UpsertToday
  <2> QED
    BY <1>1, <2>1, <2>2, ViewsKept
<1>4. CASE Statistics!NextDay
  <2>1. /\ UNCHANGED <<stat_world, view_count, born, alive, dedup, visits, buffer, draining>>
        /\ daily' = daily /\ flushing' = flushing
        /\ today < LastDay /\ today' = today + 1
    BY <1>4 DEF Statistics!NextDay, Statistics!stored, Statistics!inMemory
  <2> QED
    BY <1>0, <1>1, <2>1, ViewsKept
<1> QED
  BY <1>2, <1>3, <1>4

LEMMA ViewsLost == ASSUME ViewInv, Statistics!Restart PROVE ViewInv'
<1>0. /\ ViewTyped
      /\ UNCHANGED <<stat_world, today, view_count, born, alive, dedup>>
      /\ DOMAIN buffer' = {} /\ DOMAIN draining' = {} /\ flushing' = FALSE
      /\ daily' = Statistics!backfill_history
      /\ visits' = [w \in Task |-> 0]
  BY DEF ViewInv, Statistics!Restart, Task
<1>1. daily' \in [-1 .. LastDay -> Row]
  BY <1>0, HistoryFilled
<1>2. visits' \in [Task -> Nat]
  BY <1>0
<1>3. \A t \in Thread, v \in Viewer, s \in Statistics!Steps : visits'[<<t, v, s>>] = 0
  BY <1>0 DEF Task
<1>4. ViewTyped'
  BY <1>0, <1>1, <1>2 DEF ViewTyped, Statistics!TypeOK, Task, Row
<1>5. UnbornInv'
  BY <1>0, <1>3 DEF ViewInv, UnbornInv
<1>6. DedupInv'
  BY <1>0 DEF ViewInv, DedupInv
<1>7. TaskInv'
  BY <1>3, StatSteps DEF TaskInv
<1> QED
  BY <1>4, <1>5, <1>6, <1>7 DEF ViewInv

(* Which step the next one is.                                             *)
LEMMA StatisticsNext ==
    ASSUME Statistics!Next
    PROVE  \/ \E t \in Thread :
                \/ Statistics!CreateThread(t) \/ Statistics!DeleteThread(t)
                \/ Statistics!AddViewCount(t)
           \/ \E t \in Thread, v \in Viewer :
                \/ Statistics!GetBySlug(t, v) \/ Statistics!CountView(t, v)
                \/ \E d \in Statistics!Day :
                     Statistics!InsertView(t, v, d) \/ Statistics!UpdateView(t, v, d)
                \/ \E s \in Statistics!Steps : Statistics!RecordFails(t, v, s)
           \/ Statistics!DrainBuffer \/ Statistics!Restart
           \/ Statistics!SeedYesterday \/ Statistics!UpsertToday \/ Statistics!NextDay
  BY DEF Statistics!Next

LEMMA ViewsNext == ViewInv /\ [Statistics!Next]_statVars => ViewInv'
<1> SUFFICES ASSUME ViewInv, [Statistics!Next]_statVars PROVE ViewInv'
  OBVIOUS
<1>1. CASE Statistics!Next
  BY <1>1, StatisticsNext, ThreadCreated, ThreadDeleted, ViewsAdded, ThreadRead, ViewCounted,
     ViewInserted, ViewUpdated, RecordFailed, BufferDrained, ViewsLost, LoopSteps
<1>2. CASE UNCHANGED statVars
  <2>1. /\ ViewTyped' = ViewTyped /\ UnbornInv' = UnbornInv
        /\ DedupInv' = DedupInv /\ TaskInv' = TaskInv
    BY <1>2 DEF statVars, ViewTyped, Statistics!TypeOK, UnbornInv, DedupInv, TaskInv
  <2> QED
    BY <2>1 DEF ViewInv
<1> QED
  BY <1>1, <1>2

(* The days under steps that write no row.                                 *)
LEMMA SameViews ==
    ASSUME ViewInv, DayInv, ViewInv', UNCHANGED <<today, view_count, alive, daily>>
    PROVE  DayInv'
<1>1. /\ AllViews' = AllViews + 0 /\ ViewsOf(alive)' <= ViewsOf(alive) + 0
      /\ ViewTyped' /\ 0 \in Nat
  <2>1. AllViews' = AllViews /\ ViewsOf(alive)' = ViewsOf(alive)
    BY DEF AllViews, ViewsOf
  <2>2. AllViews \in Nat /\ ViewsOf(alive) \in Nat
    BY StandingSum DEF ViewInv
  <2> QED
    BY <2>1, <2>2 DEF ViewInv
<1>2. \A d \in -1 .. LastDay : \A m \in {"view_count_snapshot", "new_views"} :
        daily'[d][m] = daily[d][m]
  OBVIOUS
<1> QED
  BY <1>1, <1>2, DaysKept

LEMMA ThreadChanges ==
    ASSUME ViewInv, DayInv, ViewInv', NEW t \in Thread,
           Statistics!CreateThread(t) \/ Statistics!DeleteThread(t)
    PROVE  DayInv'
<1>0. /\ ViewTyped /\ ViewTyped' /\ UNCHANGED <<today, view_count, daily>>
  BY DEF ViewInv, Statistics!CreateThread, Statistics!DeleteThread
<1>1. /\ \A u \in Thread : view_count[u] \in Nat
      /\ IsFiniteSet(Thread) /\ IsFiniteSet(alive) /\ alive \subseteq Thread
      /\ ViewsOf(alive) \in Nat /\ AllViews \in Nat
  BY <1>0, ViewTypes, StandingSum, StatFacts
<1>2. CASE Statistics!CreateThread(t)
  <2>1. /\ t \notin alive /\ view_count[t] = 0
    BY <1>0, <1>2, ViewTypes DEF Statistics!CreateThread, ViewInv, UnbornInv
  <2>2. alive' = alive \cup {t} /\ alive' \ {t} = alive /\ t \in alive'
    BY <1>2, <2>1 DEF Statistics!CreateThread
  <2>3. IsFiniteSet(alive') /\ \A u \in alive' : view_count[u] \in Nat
    BY <1>1, <2>2, FS_AddElement
  <2>4. Total(view_count, alive') = view_count[t] + Total(view_count, alive' \ {t})
    BY <2>2, <2>3, TotalTake
  <2>5. ViewsOf(alive)' = ViewsOf(alive)
    BY <1>0, <1>1, <2>1, <2>2, <2>4 DEF ViewsOf
  <2>6. AllViews' = AllViews + 0 /\ ViewsOf(alive)' <= ViewsOf(alive) + 0 /\ 0 \in Nat
    BY <1>0, <1>1, <2>5 DEF AllViews
  <2>7. \A d \in -1 .. LastDay : \A m \in {"view_count_snapshot", "new_views"} :
          daily'[d][m] = daily[d][m]
    BY <1>0
  <2> QED
    BY <1>0, <2>6, <2>7, DaysKept
<1>3. CASE Statistics!DeleteThread(t)
  <2>1. alive' \subseteq alive
    BY <1>3 DEF Statistics!DeleteThread
  <2>2. Total(view_count, alive') <= Total(view_count, alive) /\ Total(view_count, alive') \in Nat
    <3>1. IsFiniteSet(alive')
      BY <1>1, <2>1, FS_Subset
    <3> QED
      BY <1>1, <2>1, <3>1, TotalMore, TotalNat
  <2>3. ViewsOf(alive)' <= ViewsOf(alive) + 0
    BY <1>0, <1>1, <2>2 DEF ViewsOf
  <2>4. AllViews' = AllViews + 0 /\ 0 \in Nat
    BY <1>0, <1>1 DEF AllViews
  <2>5. \A d \in -1 .. LastDay : \A m \in {"view_count_snapshot", "new_views"} :
          daily'[d][m] = daily[d][m]
    BY <1>0
  <2> QED
    BY <1>0, <2>3, <2>4, <2>5, DaysKept
<1> QED
  BY <1>2, <1>3

LEMMA CountsWritten ==
    ASSUME ViewInv, DayInv, ViewInv', NEW t \in Thread, Statistics!AddViewCount(t)
    PROVE  DayInv'
<1>0. /\ ViewTyped /\ ViewTyped' /\ UNCHANGED <<today, alive, daily>>
  BY DEF ViewInv, Statistics!AddViewCount
<1>1. /\ view_count \in [Thread -> Nat] /\ view_count' \in [Thread -> Nat]
      /\ IsFiniteSet(Thread) /\ IsFiniteSet(alive) /\ alive \subseteq Thread
      /\ ViewsOf(alive) \in Nat /\ AllViews \in Nat
      /\ t \in DOMAIN draining /\ draining[t] \in Nat
  <2>1. (ViewTyped => view_count \in [Thread -> Nat])'
    BY ViewTypes, PTL
  <2>2. (ViewTyped => view_count \in [Thread -> Nat])
    BY ViewTypes
  <2>3. view_count' \in [Thread -> Nat]
    BY <1>0, <2>1
  <2> QED
    BY <1>0, <2>2, <2>3, ViewTypes, StandingSum, StatFacts DEF Statistics!AddViewCount
<1>2. PICK i \in Nat : /\ view_count'[t] = view_count[t] + i
                       /\ \A u \in Thread \ {t} : view_count'[u] = view_count[u]
  <2>1. CASE view_count' = [view_count EXCEPT ![t] = @ + draining[t]]
    BY <1>1, <2>1
  <2>2. CASE UNCHANGED view_count
    <3>1. /\ view_count'[t] = view_count[t] + 0 /\ 0 \in Nat
          /\ \A u \in Thread \ {t} : view_count'[u] = view_count[u]
      BY <1>1, <2>2
    <3> QED
      BY <3>1
  <2> QED
    BY <2>1, <2>2 DEF Statistics!AddViewCount
<1>3. /\ \A u \in Thread : view_count[u] \in Nat /\ view_count'[u] \in Nat
      /\ view_count[t] \in Nat
  BY <1>1
<1>4. Total(view_count', Thread) = Total(view_count, Thread) - view_count[t] + view_count'[t]
  BY <1>1, <1>2, <1>3, TotalChanged
<1>5. AllViews' = AllViews + i
  BY <1>1, <1>2, <1>3, <1>4 DEF AllViews
<1>6. ViewsOf(alive)' <= ViewsOf(alive) + i
  <2>1. CASE t \in alive
    <3>1. Total(view_count', alive) = Total(view_count, alive) - view_count[t] + view_count'[t]
      <4>1. /\ \A u \in alive : view_count[u] \in Nat /\ view_count'[u] \in Nat
            /\ \A u \in alive \ {t} : view_count'[u] = view_count[u]
        BY <1>1, <1>2, <1>3
      <4> QED
        BY <1>1, <2>1, <4>1, TotalChanged
    <3> QED
      BY <1>0, <1>1, <1>2, <1>3, <3>1 DEF ViewsOf
  <2>2. CASE t \notin alive
    <3>1. \A u \in alive : view_count'[u] = view_count[u]
      BY <1>1, <1>2, <2>2
    <3>2. Total(view_count', alive) = Total(view_count, alive)
      BY <3>1, TotalSame
    <3> QED
      BY <1>0, <1>1, <1>2, <3>2 DEF ViewsOf
  <2> QED
    BY <2>1, <2>2
<1>7. \A d \in -1 .. LastDay : \A m \in {"view_count_snapshot", "new_views"} :
        daily'[d][m] = daily[d][m]
  BY <1>0
<1> QED
  BY <1>0, <1>2, <1>5, <1>6, <1>7, DaysKept

LEMMA DaysBackfilled ==
    ASSUME ViewInv, DayInv, ViewInv', Statistics!Restart PROVE DayInv'
<1>0. /\ ViewTyped /\ ViewTyped' /\ UNCHANGED <<today, view_count, alive>>
      /\ daily' = Statistics!backfill_history
  BY DEF ViewInv, Statistics!Restart
<1>1. \A d \in -1 .. LastDay : \A m \in {"view_count_snapshot", "new_views"} :
        daily'[d][m] = daily[d][m]
  BY <1>0, HistoryFilled
<1>2. AllViews' = AllViews + 0 /\ ViewsOf(alive)' <= ViewsOf(alive) + 0 /\ 0 \in Nat
  <2>1. AllViews' = AllViews /\ ViewsOf(alive)' = ViewsOf(alive)
    BY <1>0 DEF AllViews, ViewsOf
  <2> QED
    BY <1>0, <2>1, StandingSum
<1> QED
  BY <1>0, <1>1, <1>2, DaysKept

LEMMA DaysNext == ViewInv /\ DayInv /\ [Statistics!Next]_statVars => DayInv'
<1> SUFFICES ASSUME ViewInv, DayInv, [Statistics!Next]_statVars PROVE DayInv'
  OBVIOUS
<1>0. ViewInv'
  BY ViewsNext
<1>1. ASSUME NEW t \in Thread, NEW v \in Viewer,
             \/ Statistics!GetBySlug(t, v) \/ Statistics!CountView(t, v)
             \/ \E d \in Statistics!Day :
                  Statistics!InsertView(t, v, d) \/ Statistics!UpdateView(t, v, d)
             \/ \E s \in Statistics!Steps : Statistics!RecordFails(t, v, s)
      PROVE  DayInv'
  <2>1. UNCHANGED <<today, view_count, alive, daily>>
    BY <1>1 DEF Statistics!GetBySlug, Statistics!CountView, Statistics!InsertView,
       Statistics!UpdateView, Statistics!RecordFails, Statistics!stored
  <2> QED
    BY <1>0, <2>1, SameViews
<1>2. CASE Statistics!DrainBuffer
  <2>1. UNCHANGED <<today, view_count, alive, daily>>
    BY <1>2 DEF Statistics!DrainBuffer, Statistics!stored
  <2> QED
    BY <1>0, <2>1, SameViews
<1>3. CASE UNCHANGED statVars
  <2>1. UNCHANGED <<today, view_count, alive, daily>>
    BY <1>3 DEF statVars
  <2> QED
    BY <1>0, <2>1, SameViews
<1>4. CASE Statistics!Next
  BY <1>0, <1>1, <1>2, <1>4, StatisticsNext, ThreadChanges, CountsWritten, DaysBackfilled,
     DaysSeeded, DaysUpserted, DaysTurned
<1> QED
  BY <1>3, <1>4

(* The days of a thread's viewers, and its views that are not written yet. *)
SeenBy(t) == [v \in Viewer |-> dedup[<<t, v>>].total]
CountingOf(t) == [v \in Viewer |-> visits[<<t, v, Count>>]]
ViewDays(t) == Total(SeenBy(t), Viewer)
Counting(t) == Total(CountingOf(t), Viewer)
InAll(t) ==
    view_count[t] + (Statistics!Entry(buffer, t) + Statistics!Entry(draining, t) + Counting(t))
Lossless == {"restart", "error"} \cap stat_world = {}

CountInv ==
    "raw" \notin stat_world =>
      \A t \in Thread :
        InAll(t) <= ViewDays(t) /\ (Lossless => InAll(t) = ViewDays(t))

LEMMA CountTypes ==
    ASSUME ViewTyped, NEW t \in Thread
    PROVE  /\ \A v \in Viewer : SeenBy(t)[v] \in Nat /\ CountingOf(t)[v] \in Nat
           /\ ViewDays(t) \in Nat /\ Counting(t) \in Nat
           /\ view_count[t] \in Nat /\ Statistics!Entry(buffer, t) \in Nat
           /\ Statistics!Entry(draining, t) \in Nat /\ InAll(t) \in Nat
<1>1. /\ view_count[t] \in Nat /\ Statistics!Entry(buffer, t) \in Nat
      /\ Statistics!Entry(draining, t) \in Nat
  BY ViewTypes DEF Statistics!Entry
<1>2. \A v \in Viewer : SeenBy(t)[v] \in Nat
  BY ViewTypes, StatFacts DEF SeenBy
<1>3. \A v \in Viewer : CountingOf(t)[v] \in Nat
  BY ViewTypes, StatSteps DEF CountingOf, Task
<1>4. ViewDays(t) \in Nat /\ Counting(t) \in Nat
  BY <1>2, <1>3, StatFacts, TotalNat DEF ViewDays, Counting
<1> QED
  BY <1>1, <1>2, <1>3, <1>4 DEF InAll

(* The sums over viewers.                                                  *)
LEMMA RecordedSum ==
    ASSUME ViewTyped, NEW t \in Thread
    PROVE  Statistics!Recorded(t) = ViewDays(t)
<1> DEFINE S == Viewer
           f == SeenBy(t)
           Q(g) == g = [s \in SUBSET S |-> IF s = {} THEN 0
                                           ELSE LET x == CHOOSE x \in s : TRUE
                                                IN  dedup[<<t, x>>].total + g[s \ {x}]]
<1>1. \A g : Q(g) <=> SumsUp(g, f, S)
  <2> SUFFICES ASSUME NEW g PROVE Q(g) <=> SumsUp(g, f, S)
    OBVIOUS
  <2> DEFINE a == [s \in SUBSET S |-> IF s = {} THEN 0
                                      ELSE LET x == CHOOSE x \in s : TRUE
                                           IN  dedup[<<t, x>>].total + g[s \ {x}]]
             b == [s \in SUBSET S |-> IF s = {} THEN 0
                                      ELSE LET x == CHOOSE x \in s : TRUE
                                           IN  f[x] + g[s \ {x}]]
  <2>1. ASSUME NEW s \in SUBSET S PROVE a[s] = b[s]
    <3>1. CASE s = {}
      BY <3>1
    <3>2. CASE s # {}
      <4> DEFINE x == CHOOSE x \in s : TRUE
      <4>1. x \in S
        BY <3>2
      <4> HIDE DEF x
      <4>2. f[x] = dedup[<<t, x>>].total
        BY <4>1 DEF SeenBy
      <4> QED
        BY <3>2, <4>2 DEF x
    <3> QED
      BY <3>1, <3>2
  <2>2. a = b
    BY <2>1
  <2> QED
    BY <2>2 DEF SumsUp
<1>2. Statistics!Recorded(t) = (CHOOSE g : Q(g))[S]
  BY DEF Statistics!Recorded, Statistics!MapThenSumSet, Statistics!MapThenFoldSet
<1> HIDE DEF Q
<1>3. (CHOOSE g : Q(g)) = (CHOOSE g : SumsUp(g, f, S))
  BY <1>1
<1>4. IsFiniteSet(S) /\ \A v \in S : f[v] \in Nat
  BY CountTypes, StatFacts
<1>5. (CHOOSE g : SumsUp(g, f, S))[S] = Total(f, S)
  BY <1>4, TheSum
<1> QED
  BY <1>2, <1>3, <1>5 DEF ViewDays

LEMMA OnTheWaySum ==
    ASSUME ViewTyped, NEW t \in Thread
    PROVE  Statistics!OnTheWay(t)
             = Statistics!Entry(buffer, t) + Statistics!Entry(draining, t) + Counting(t)
<1> DEFINE S == Viewer
           f == CountingOf(t)
           Q(g) == g = [s \in SUBSET S |-> IF s = {} THEN 0
                                           ELSE LET x == CHOOSE x \in s : TRUE
                                                IN  visits[<<t, x, <<"count">>>>] + g[s \ {x}]]
<1>1. \A g : Q(g) <=> SumsUp(g, f, S)
  <2> SUFFICES ASSUME NEW g PROVE Q(g) <=> SumsUp(g, f, S)
    OBVIOUS
  <2> DEFINE a == [s \in SUBSET S |-> IF s = {} THEN 0
                                      ELSE LET x == CHOOSE x \in s : TRUE
                                           IN  visits[<<t, x, <<"count">>>>] + g[s \ {x}]]
             b == [s \in SUBSET S |-> IF s = {} THEN 0
                                      ELSE LET x == CHOOSE x \in s : TRUE
                                           IN  f[x] + g[s \ {x}]]
  <2>1. ASSUME NEW s \in SUBSET S PROVE a[s] = b[s]
    <3>1. CASE s = {}
      BY <3>1
    <3>2. CASE s # {}
      <4> DEFINE x == CHOOSE x \in s : TRUE
      <4>1. x \in S
        BY <3>2
      <4> HIDE DEF x
      <4>2. f[x] = visits[<<t, x, <<"count">>>>]
        BY <4>1 DEF CountingOf, Count
      <4> QED
        BY <3>2, <4>2 DEF x
    <3> QED
      BY <3>1, <3>2
  <2>2. a = b
    BY <2>1
  <2> QED
    BY <2>2 DEF SumsUp
<1>2. Statistics!OnTheWay(t)
        = Statistics!Entry(buffer, t) + Statistics!Entry(draining, t) + (CHOOSE g : Q(g))[S]
  BY DEF Statistics!OnTheWay, Statistics!MapThenSumSet, Statistics!MapThenFoldSet
<1> HIDE DEF Q
<1>3. (CHOOSE g : Q(g)) = (CHOOSE g : SumsUp(g, f, S))
  BY <1>1
<1>4. IsFiniteSet(S) /\ \A v \in S : f[v] \in Nat
  BY CountTypes, StatFacts
<1>5. (CHOOSE g : SumsUp(g, f, S))[S] = Total(f, S)
  BY <1>4, TheSum
<1> QED
  BY <1>2, <1>3, <1>5 DEF Counting

(* A step that gives every thread as many days as views, or loses views.   *)
LEMMA CountsKept ==
    ASSUME ViewInv, CountInv, ViewInv', stat_world' = stat_world,
           "raw" \notin stat_world =>
             \A t \in Thread : \E i \in Nat :
               /\ ViewDays(t)' = ViewDays(t) + i
               /\ InAll(t)' = InAll(t) + i \/ (~Lossless /\ InAll(t)' <= InAll(t) + i)
    PROVE  CountInv'
<1> SUFFICES ASSUME "raw" \notin stat_world, NEW t \in Thread
             PROVE  InAll(t)' <= ViewDays(t)' /\ (Lossless => InAll(t)' = ViewDays(t)')
  BY DEF CountInv, Lossless
<1>1. InAll(t) <= ViewDays(t) /\ (Lossless => InAll(t) = ViewDays(t))
  BY DEF CountInv
<1>2. InAll(t) \in Nat /\ ViewDays(t) \in Nat
  BY CountTypes DEF ViewInv
<1>3. InAll(t)' \in Nat /\ ViewDays(t)' \in Nat
  <2>1. (ViewTyped => InAll(t) \in Nat /\ ViewDays(t) \in Nat)'
    BY CountTypes, PTL
  <2> QED
    BY <2>1 DEF ViewInv
<1>4. PICK i \in Nat :
        /\ ViewDays(t)' = ViewDays(t) + i
        /\ InAll(t)' = InAll(t) + i \/ (~Lossless /\ InAll(t)' <= InAll(t) + i)
  OBVIOUS
<1> DEFINE a == InAll(t)
           b == InAll(t)'
           d == ViewDays(t)
           e == ViewDays(t)'
<1> HIDE DEF a, b, d, e
<1>5. /\ a \in Nat /\ b \in Nat /\ d \in Nat /\ e \in Nat /\ e = d + i
      /\ b = a + i \/ (~Lossless /\ b <= a + i)
      /\ a <= d /\ (Lossless => a = d)
  BY <1>1, <1>2, <1>3, <1>4 DEF a, b, d, e
<1>6. b <= e /\ (Lossless => b = e)
  BY <1>5
<1> QED
  BY <1>6 DEF b, e

(* What a thread's views are made of stays.                                *)
LEMMA ViewDaysSame ==
    ASSUME NEW t \in Thread, \A v \in Viewer : dedup'[<<t, v>>] = dedup[<<t, v>>]
    PROVE  ViewDays(t)' = ViewDays(t)
<1>1. \A v \in Viewer : SeenBy(t)'[v] = SeenBy(t)[v]
  BY DEF SeenBy
<1> QED
  BY <1>1, TotalSame DEF ViewDays

LEMMA CountingSame ==
    ASSUME NEW t \in Thread,
           \A v \in Viewer : visits'[<<t, v, Count>>] = visits[<<t, v, Count>>]
    PROVE  Counting(t)' = Counting(t)
<1>1. \A v \in Viewer : CountingOf(t)'[v] = CountingOf(t)[v]
  BY DEF CountingOf
<1> QED
  BY <1>1, TotalSame DEF Counting

EntriesTyped ==
    \A t \in Thread, v \in Viewer : SeenBy(t)[v] \in Nat /\ CountingOf(t)[v] \in Nat

LEMMA EntriesNat == ViewTyped => EntriesTyped
  BY CountTypes DEF EntriesTyped

(* One viewer's entry changes.                                             *)
LEMMA CountingChanged ==
    ASSUME ViewTyped, ViewTyped', NEW t \in Thread, NEW v \in Viewer, NEW i \in Int,
           visits'[<<t, v, Count>>] = visits[<<t, v, Count>>] + i,
           \A w \in Viewer \ {v} : visits'[<<t, w, Count>>] = visits[<<t, w, Count>>]
    PROVE  Counting(t)' = Counting(t) + i
<1>1. \A w \in Viewer : CountingOf(t)[w] \in Nat /\ CountingOf(t)'[w] \in Nat
  <2>1. (ViewTyped => EntriesTyped)'
    BY EntriesNat, PTL
  <2> QED
    BY <2>1, CountTypes DEF EntriesTyped
<1>2. /\ CountingOf(t)'[v] = CountingOf(t)[v] + i
      /\ \A w \in Viewer \ {v} : CountingOf(t)'[w] = CountingOf(t)[w]
  BY DEF CountingOf
<1>3. Total(CountingOf(t)', Viewer)
        = Total(CountingOf(t), Viewer) - CountingOf(t)[v] + CountingOf(t)'[v]
  BY <1>1, <1>2, StatFacts, TotalChanged
<1>4. Counting(t) \in Nat
  BY CountTypes
<1> QED
  BY <1>1, <1>2, <1>3, <1>4 DEF Counting

LEMMA ViewDaysGrown ==
    ASSUME ViewTyped, ViewTyped', NEW t \in Thread, NEW v \in Viewer,
           dedup'[<<t, v>>].total = dedup[<<t, v>>].total + 1,
           \A w \in Viewer \ {v} : dedup'[<<t, w>>] = dedup[<<t, w>>]
    PROVE  ViewDays(t)' = ViewDays(t) + 1
<1>1. \A w \in Viewer : SeenBy(t)[w] \in Nat /\ SeenBy(t)'[w] \in Nat
  <2>1. (ViewTyped => EntriesTyped)'
    BY EntriesNat, PTL
  <2> QED
    BY <2>1, CountTypes DEF EntriesTyped
<1>2. /\ SeenBy(t)'[v] = SeenBy(t)[v] + 1
      /\ \A w \in Viewer \ {v} : SeenBy(t)'[w] = SeenBy(t)[w]
  BY DEF SeenBy
<1>3. Total(SeenBy(t)', Viewer) = Total(SeenBy(t), Viewer) - SeenBy(t)[v] + SeenBy(t)'[v]
  <2> DEFINE f == SeenBy(t)
             g == SeenBy(t)'
  <2>1. /\ \A w \in Viewer : f[w] \in Nat /\ g[w] \in Nat
        /\ \A w \in Viewer \ {v} : g[w] = f[w]
    BY <1>1, <1>2
  <2> HIDE DEF f, g
  <2>2. Total(g, Viewer) = Total(f, Viewer) - f[v] + g[v]
    BY <2>1, StatFacts, TotalChanged
  <2> QED
    BY <2>2 DEF f, g
<1>4. ViewDays(t) \in Nat
  BY CountTypes
<1> QED
  BY <1>1, <1>2, <1>3, <1>4 DEF ViewDays

(* Steps that touch nothing of this.                                       *)
LEMMA CountsSame ==
    ASSUME ViewInv, CountInv, ViewInv',
           UNCHANGED <<stat_world, view_count, dedup, buffer, draining>>,
           "raw" \notin stat_world =>
             \A u \in Thread, w \in Viewer : visits'[<<u, w, Count>>] = visits[<<u, w, Count>>]
    PROVE  CountInv'
<1>1. ASSUME "raw" \notin stat_world, NEW t \in Thread
      PROVE  ViewDays(t)' = ViewDays(t) + 0 /\ InAll(t)' = InAll(t) + 0 /\ 0 \in Nat
  <2>1. ViewDays(t)' = ViewDays(t) /\ Counting(t)' = Counting(t)
    BY <1>1, ViewDaysSame, CountingSame
  <2>2. /\ ViewDays(t) \in Nat /\ InAll(t) \in Nat
    BY CountTypes DEF ViewInv
  <2>3. InAll(t)' = InAll(t)
    BY <2>1 DEF InAll, Statistics!Entry
  <2> QED
    BY <2>1, <2>2, <2>3
<1> QED
  BY <1>1, CountsKept

(* A task counts, and its viewer has one more day.                         *)
LEMMA OneDayMore ==
    ASSUME ViewInv, CountInv, ViewInv', NEW t \in Thread, NEW v \in Viewer,
           UNCHANGED <<stat_world, view_count, buffer, draining>>,
           visits'[<<t, v, Count>>] = visits[<<t, v, Count>>] + 1,
           dedup'[<<t, v>>].total = dedup[<<t, v>>].total + 1,
           \A u \in Thread, w \in Viewer : <<u, w>> # <<t, v>> =>
             /\ visits'[<<u, w, Count>>] = visits[<<u, w, Count>>]
             /\ dedup'[<<u, w>>] = dedup[<<u, w>>]
    PROVE  CountInv'
<1>0. ViewTyped /\ ViewTyped'
  BY DEF ViewInv
<1>1. ASSUME NEW u \in Thread, u # t
      PROVE  ViewDays(u)' = ViewDays(u) + 0 /\ InAll(u)' = InAll(u) + 0 /\ 0 \in Nat
  <2>1. /\ \A w \in Viewer : /\ visits'[<<u, w, Count>>] = visits[<<u, w, Count>>]
                             /\ dedup'[<<u, w>>] = dedup[<<u, w>>]
    BY <1>1
  <2>2. ViewDays(u)' = ViewDays(u) /\ Counting(u)' = Counting(u)
    BY <2>1, ViewDaysSame, CountingSame
  <2>3. InAll(u)' = InAll(u)
    BY <2>2 DEF InAll, Statistics!Entry
  <2> QED
    BY <1>0, <2>2, <2>3, CountTypes
<1>2. ViewDays(t)' = ViewDays(t) + 1 /\ InAll(t)' = InAll(t) + 1 /\ 1 \in Nat
  <2>1. /\ \A w \in Viewer \ {v} : visits'[<<t, w, Count>>] = visits[<<t, w, Count>>]
        /\ \A w \in Viewer \ {v} : dedup'[<<t, w>>] = dedup[<<t, w>>]
    BY <1>0
  <2>2. ViewDays(t)' = ViewDays(t) + 1
    BY <1>0, <2>1, ViewDaysGrown
  <2>3. Counting(t)' = Counting(t) + 1
    BY <1>0, <2>1, CountingChanged
  <2>4. /\ Statistics!Entry(buffer, t)' = Statistics!Entry(buffer, t)
        /\ Statistics!Entry(draining, t)' = Statistics!Entry(draining, t)
        /\ view_count'[t] = view_count[t]
    BY DEF Statistics!Entry
  <2>5. /\ view_count[t] \in Nat /\ Statistics!Entry(buffer, t) \in Nat
        /\ Statistics!Entry(draining, t) \in Nat /\ Counting(t) \in Nat
    BY <1>0, CountTypes
  <2> QED
    BY <2>2, <2>3, <2>4, <2>5 DEF InAll
<1>3. \A u \in Thread : \E i \in Nat :
        ViewDays(u)' = ViewDays(u) + i /\ InAll(u)' = InAll(u) + i
  BY <1>1, <1>2
<1> QED
  BY <1>3, CountsKept

LEMMA CountsRead ==
    ASSUME ViewInv, CountInv, ViewInv', NEW t \in Thread, NEW v \in Viewer,
           \/ Statistics!GetBySlug(t, v)
           \/ \E s \in Statistics!Steps : Statistics!RecordFails(t, v, s)
    PROVE  CountInv'
<1>0. ViewTyped
  BY DEF ViewInv
<1>1. CASE Statistics!GetBySlug(t, v)
  <2>1. PICK s \in Statistics!Steps :
          /\ s = IF "raw" \in stat_world THEN Count ELSE <<"insert", today>>
          /\ visits' \in [Task -> Nat]
          /\ visits'[<<t, v, s>>] = visits[<<t, v, s>>] + 1
          /\ \A u \in Thread, w \in Viewer, q \in Statistics!Steps :
               <<u, w, q>> # <<t, v, s>> => visits'[<<u, w, q>>] = visits[<<u, w, q>>]
    BY <1>0, <1>1, TaskSpawned
  <2>2. "raw" \notin stat_world => s # Count
    BY <1>0, <2>1, ViewTypes, StatSteps
  <2>3. "raw" \notin stat_world =>
          \A u \in Thread, w \in Viewer : visits'[<<u, w, Count>>] = visits[<<u, w, Count>>]
    BY <2>1, <2>2, StatSteps
  <2>4. UNCHANGED <<stat_world, view_count, dedup, buffer, draining>>
    BY <1>1 DEF Statistics!GetBySlug, Statistics!stored
  <2> QED
    BY <2>3, <2>4, CountsSame
<1>2. ASSUME NEW s \in Statistics!Steps, Statistics!RecordFails(t, v, s) PROVE CountInv'
  <2>1. /\ visits[<<t, v, s>>] > 0 /\ Statistics!Done(t, v, s) /\ s # Count
        /\ UNCHANGED <<stat_world, view_count, dedup, buffer, draining>>
    BY <1>2 DEF Statistics!RecordFails, Statistics!stored, Count
  <2>2. /\ visits' \in [Task -> Nat]
        /\ visits'[<<t, v, s>>] = visits[<<t, v, s>>] - 1
        /\ \A u \in Thread, w \in Viewer, q \in Statistics!Steps :
             <<u, w, q>> # <<t, v, s>> => visits'[<<u, w, q>>] = visits[<<u, w, q>>]
    BY <1>0, <2>1, TaskEnds
  <2>3. \A u \in Thread, w \in Viewer : visits'[<<u, w, Count>>] = visits[<<u, w, Count>>]
    BY <2>1, <2>2, StatSteps
  <2> QED
    BY <2>1, <2>3, CountsSame
<1> QED
  BY <1>1, <1>2

LEMMA CountsInserted ==
    ASSUME ViewInv, CountInv, ViewInv', NEW t \in Thread, NEW v \in Viewer,
           NEW d \in Statistics!Day, Statistics!InsertView(t, v, d)
    PROVE  CountInv'
<1> DEFINE from == <<"insert", d>>
           again == <<"update", d>>
<1>0. /\ ViewTyped /\ visits[<<t, v, from>>] > 0
      /\ UNCHANGED <<stat_world, view_count, buffer, draining>>
  BY DEF Statistics!InsertView, Statistics!Since, ViewInv
<1>1. /\ from \in Statistics!Steps /\ again \in Statistics!Steps
      /\ Count \in Statistics!Steps /\ from # again /\ from # Count /\ again # Count
  BY StatSteps
<1>2. CASE dedup[<<t, v>>].last = Never
  <2>1. /\ dedup' = [dedup EXCEPT ![<<t, v>>] = [last |-> d, total |-> 1]]
        /\ Statistics!Move(t, v, from, Count)
    BY <1>2 DEF Statistics!InsertView, Statistics!Since, Count
  <2>2. /\ visits' \in [Task -> Nat]
        /\ visits'[<<t, v, Count>>] = visits[<<t, v, Count>>] + 1
        /\ visits'[<<t, v, from>>] = visits[<<t, v, from>>] - 1
        /\ \A u \in Thread, w \in Viewer, s \in Statistics!Steps :
             <<u, w, s>> # <<t, v, from>> /\ <<u, w, s>> # <<t, v, Count>> =>
               visits'[<<u, w, s>>] = visits[<<u, w, s>>]
    <3> HIDE DEF from
    <3> QED
      BY <1>0, <1>1, <2>1, TaskMoves
  <2>3. \A u \in Thread, w \in Viewer : <<u, w>> # <<t, v>> =>
          visits'[<<u, w, Count>>] = visits[<<u, w, Count>>]
    BY <1>1, <2>2
  <2>4. \A u \in Thread, w \in Viewer :
          dedup'[<<u, w>>] = IF <<u, w>> = <<t, v>> THEN [last |-> d, total |-> 1]
                                                    ELSE dedup[<<u, w>>]
    BY <1>0, <2>1, ViewTypes
  <2>5. dedup[<<t, v>>].total = 0
    BY <1>2 DEF ViewInv, DedupInv
  <2>6. /\ dedup'[<<t, v>>].total = dedup[<<t, v>>].total + 1
        /\ \A u \in Thread, w \in Viewer : <<u, w>> # <<t, v>> =>
             dedup'[<<u, w>>] = dedup[<<u, w>>]
    BY <2>4, <2>5
  <2> QED
    BY <1>0, <2>2, <2>3, <2>6, OneDayMore
<1>3. CASE dedup[<<t, v>>].last # Never
  <2>1. dedup' = dedup /\ Statistics!Move(t, v, from, again)
    BY <1>3 DEF Statistics!InsertView, Statistics!Since
  <2>2. /\ visits' \in [Task -> Nat]
        /\ visits'[<<t, v, again>>] = visits[<<t, v, again>>] + 1
        /\ visits'[<<t, v, from>>] = visits[<<t, v, from>>] - 1
        /\ \A u \in Thread, w \in Viewer, s \in Statistics!Steps :
             <<u, w, s>> # <<t, v, from>> /\ <<u, w, s>> # <<t, v, again>> =>
               visits'[<<u, w, s>>] = visits[<<u, w, s>>]
    <3> HIDE DEF from, again
    <3> QED
      BY <1>0, <1>1, <2>1, TaskMoves
  <2>3. \A u \in Thread, w \in Viewer : visits'[<<u, w, Count>>] = visits[<<u, w, Count>>]
    BY <1>1, <2>2
  <2> QED
    BY <1>0, <2>1, <2>3, CountsSame
<1> QED
  BY <1>2, <1>3

LEMMA CountsUpdated ==
    ASSUME ViewInv, CountInv, ViewInv', NEW t \in Thread, NEW v \in Viewer,
           NEW d \in Statistics!Day, Statistics!UpdateView(t, v, d)
    PROVE  CountInv'
<1> DEFINE from == <<"update", d>>
<1>0. /\ ViewTyped /\ visits[<<t, v, from>>] > 0
      /\ UNCHANGED <<stat_world, view_count, buffer, draining>>
  BY DEF Statistics!UpdateView, ViewInv
<1>1. /\ from \in Statistics!Steps /\ Count \in Statistics!Steps /\ from # Count
  BY StatSteps
<1>2. CASE dedup[<<t, v>>].last < d
  <2> DEFINE seen == [last |-> d, total |-> dedup[<<t, v>>].total + 1]
  <2>1. /\ dedup' = [dedup EXCEPT ![<<t, v>>] = seen]
        /\ Statistics!Move(t, v, from, Count)
    BY <1>2 DEF Statistics!UpdateView, Count
  <2>2. /\ visits' \in [Task -> Nat]
        /\ visits'[<<t, v, Count>>] = visits[<<t, v, Count>>] + 1
        /\ visits'[<<t, v, from>>] = visits[<<t, v, from>>] - 1
        /\ \A u \in Thread, w \in Viewer, s \in Statistics!Steps :
             <<u, w, s>> # <<t, v, from>> /\ <<u, w, s>> # <<t, v, Count>> =>
               visits'[<<u, w, s>>] = visits[<<u, w, s>>]
    <3> HIDE DEF from
    <3> QED
      BY <1>0, <1>1, <2>1, TaskMoves
  <2>3. \A u \in Thread, w \in Viewer : <<u, w>> # <<t, v>> =>
          visits'[<<u, w, Count>>] = visits[<<u, w, Count>>]
    BY <1>1, <2>2
  <2>4. seen.total = dedup[<<t, v>>].total + 1
    OBVIOUS
  <2>5. \A u \in Thread, w \in Viewer :
          dedup'[<<u, w>>] = IF <<u, w>> = <<t, v>> THEN seen ELSE dedup[<<u, w>>]
    <3> HIDE DEF seen
    <3> QED
      BY <1>0, <2>1, ViewTypes
  <2> HIDE DEF seen
  <2>6. /\ dedup'[<<t, v>>].total = dedup[<<t, v>>].total + 1
        /\ \A u \in Thread, w \in Viewer : <<u, w>> # <<t, v>> =>
             dedup'[<<u, w>>] = dedup[<<u, w>>]
    BY <2>4, <2>5
  <2> QED
    BY <1>0, <2>2, <2>3, <2>6, OneDayMore
<1>3. CASE ~(dedup[<<t, v>>].last < d)
  <2>1. dedup' = dedup /\ Statistics!Done(t, v, from)
    BY <1>3 DEF Statistics!UpdateView
  <2>2. /\ visits' \in [Task -> Nat]
        /\ visits'[<<t, v, from>>] = visits[<<t, v, from>>] - 1
        /\ \A u \in Thread, w \in Viewer, s \in Statistics!Steps :
             <<u, w, s>> # <<t, v, from>> => visits'[<<u, w, s>>] = visits[<<u, w, s>>]
    <3> HIDE DEF from
    <3> QED
      BY <1>0, <1>1, <2>1, TaskEnds
  <2>3. \A u \in Thread, w \in Viewer : visits'[<<u, w, Count>>] = visits[<<u, w, Count>>]
    BY <1>1, <2>2
  <2> QED
    BY <1>0, <2>1, <2>3, CountsSame
<1> QED
  BY <1>2, <1>3

LEMMA CountsCounted ==
    ASSUME ViewInv, CountInv, ViewInv', NEW t \in Thread, NEW v \in Viewer,
           Statistics!CountView(t, v)
    PROVE  CountInv'
<1>0. /\ ViewTyped /\ ViewTyped' /\ Statistics!Done(t, v, Count)
      /\ visits[<<t, v, Count>>] > 0 /\ Count \in Statistics!Steps
      /\ UNCHANGED <<stat_world, view_count, dedup, draining>>
  BY StatSteps DEF Statistics!CountView, Statistics!stored, ViewInv, Count
<1>1. /\ visits' \in [Task -> Nat]
      /\ visits'[<<t, v, Count>>] = visits[<<t, v, Count>>] - 1
      /\ \A u \in Thread, w \in Viewer, s \in Statistics!Steps :
           <<u, w, s>> # <<t, v, Count>> => visits'[<<u, w, s>>] = visits[<<u, w, s>>]
  BY <1>0, TaskEnds
<1>2. /\ Statistics!Entry(buffer, t)' = Statistics!Entry(buffer, t) + 1
      /\ \A u \in Thread \ {t} : Statistics!Entry(buffer, u)' = Statistics!Entry(buffer, u)
  BY <1>0, BufferGrown
<1>3. ASSUME NEW u \in Thread
      PROVE  ViewDays(u)' = ViewDays(u) + 0 /\ InAll(u)' = InAll(u) + 0 /\ 0 \in Nat
  <2>1. ViewDays(u)' = ViewDays(u)
    BY <1>0, ViewDaysSame
  <2>2. /\ view_count'[u] = view_count[u]
        /\ Statistics!Entry(draining, u)' = Statistics!Entry(draining, u)
    BY <1>0 DEF Statistics!Entry
  <2>3. /\ view_count[u] \in Nat /\ Statistics!Entry(buffer, u) \in Nat
        /\ Statistics!Entry(draining, u) \in Nat /\ Counting(u) \in Nat /\ ViewDays(u) \in Nat
    BY <1>0, CountTypes
  <2>4. CASE u = t
    <3>1. /\ visits'[<<t, v, Count>>] = visits[<<t, v, Count>>] + (-1)
          /\ \A w \in Viewer \ {v} : visits'[<<t, w, Count>>] = visits[<<t, w, Count>>]
          /\ -1 \in Int
      <4>1. visits[<<t, v, Count>>] \in Nat
        BY <1>0, ViewTypes DEF Task
      <4> QED
        BY <1>0, <1>1, <4>1
    <3>2. Counting(t)' = Counting(t) + (-1)
      BY <1>0, <3>1, CountingChanged
    <3> QED
      BY <1>2, <2>1, <2>2, <2>3, <2>4, <3>2 DEF InAll
  <2>5. CASE u # t
    <3>1. Counting(u)' = Counting(u)
      <4>1. \A w \in Viewer : visits'[<<u, w, Count>>] = visits[<<u, w, Count>>]
        BY <1>0, <1>1, <2>5
      <4> QED
        BY <4>1, CountingSame
    <3> QED
      BY <1>2, <2>1, <2>2, <2>3, <2>5, <3>1 DEF InAll
  <2> QED
    BY <2>4, <2>5
<1> QED
  BY <1>0, <1>3, CountsKept

LEMMA CountsDrained ==
    ASSUME ViewInv, CountInv, ViewInv', Statistics!DrainBuffer PROVE CountInv'
<1>0. /\ ViewTyped /\ draining = <<>> /\ draining' = buffer /\ buffer' = <<>>
      /\ UNCHANGED <<stat_world, view_count, dedup, visits>>
  BY DEF Statistics!DrainBuffer, Statistics!stored, ViewInv
<1>1. ASSUME NEW u \in Thread
      PROVE  ViewDays(u)' = ViewDays(u) + 0 /\ InAll(u)' = InAll(u) + 0 /\ 0 \in Nat
  <2>1. ViewDays(u)' = ViewDays(u) /\ Counting(u)' = Counting(u)
    BY <1>0, ViewDaysSame, CountingSame
  <2>2. /\ Statistics!Entry(draining, u) = 0 /\ Statistics!Entry(buffer, u)' = 0
        /\ Statistics!Entry(draining, u)' = Statistics!Entry(buffer, u)
    BY <1>0 DEF Statistics!Entry
  <2>3. /\ view_count[u] \in Nat /\ Statistics!Entry(buffer, u) \in Nat
        /\ Counting(u) \in Nat /\ ViewDays(u) \in Nat
    BY <1>0, CountTypes
  <2>4. view_count'[u] = view_count[u]
    BY <1>0
  <2> QED
    BY <2>1, <2>2, <2>3, <2>4 DEF InAll
<1> QED
  BY <1>0, <1>1, CountsKept

LEMMA CountsWrittenOnce ==
    ASSUME ViewInv, CountInv, ViewInv', NEW t \in Thread, Statistics!AddViewCount(t)
    PROVE  CountInv'
<1>0. /\ ViewTyped /\ t \in DOMAIN draining /\ draining[t] \in Nat
      /\ UNCHANGED <<stat_world, dedup, visits, buffer>>
      /\ draining' = [u \in DOMAIN draining \ {t} |-> draining[u]]
  BY ViewTypes DEF Statistics!AddViewCount, Statistics!Restrict, ViewInv
<1>1. /\ Statistics!Entry(draining, t)' = 0 /\ Statistics!Entry(draining, t) = draining[t]
      /\ \A u \in Thread \ {t} :
           Statistics!Entry(draining, u)' = Statistics!Entry(draining, u)
  BY <1>0 DEF Statistics!Entry
<1>2. \/ view_count' = [view_count EXCEPT ![t] = @ + draining[t]]
      \/ ~Lossless /\ view_count' = view_count
  BY DEF Statistics!AddViewCount, Lossless
<1>3. ASSUME NEW u \in Thread
      PROVE  \E i \in Nat :
               /\ ViewDays(u)' = ViewDays(u) + i
               /\ InAll(u)' = InAll(u) + i \/ (~Lossless /\ InAll(u)' <= InAll(u) + i)
  <2>1. ViewDays(u)' = ViewDays(u) /\ Counting(u)' = Counting(u)
    BY <1>0, ViewDaysSame, CountingSame
  <2>2. Statistics!Entry(buffer, u)' = Statistics!Entry(buffer, u)
    BY <1>0 DEF Statistics!Entry
  <2>3. /\ view_count[u] \in Nat /\ Statistics!Entry(buffer, u) \in Nat
        /\ Statistics!Entry(draining, u) \in Nat
        /\ Counting(u) \in Nat /\ ViewDays(u) \in Nat
        /\ view_count \in [Thread -> Nat]
    BY <1>0, CountTypes, ViewTypes
  <2>4. CASE u # t
    <3>1. view_count'[u] = view_count[u]
      BY <1>2, <2>3, <2>4
    <3>2. InAll(u)' = InAll(u) + 0 /\ ViewDays(u)' = ViewDays(u) + 0
      BY <1>1, <2>1, <2>2, <2>3, <2>4, <3>1 DEF InAll
    <3> QED
      BY <3>2
  <2>5. CASE u = t /\ view_count' = [view_count EXCEPT ![t] = @ + draining[t]]
    <3>1. view_count'[u] = view_count[u] + draining[t]
      BY <1>0, <2>3, <2>5
    <3>2. InAll(u)' = InAll(u) + 0 /\ ViewDays(u)' = ViewDays(u) + 0
      BY <1>0, <1>1, <2>1, <2>2, <2>3, <2>5, <3>1 DEF InAll
    <3> QED
      BY <3>2
  <2>6. CASE u = t /\ ~Lossless /\ view_count' = view_count
    <3>1. view_count'[u] = view_count[u]
      BY <2>6
    <3>2. InAll(u)' <= InAll(u) + 0 /\ ViewDays(u)' = ViewDays(u) + 0
      BY <1>0, <1>1, <2>1, <2>2, <2>3, <2>6, <3>1 DEF InAll
    <3> QED
      BY <2>6, <3>2
  <2> QED
    BY <1>2, <2>4, <2>5, <2>6
<1> QED
  BY <1>0, <1>3, CountsKept

LEMMA CountsLost ==
    ASSUME ViewInv, CountInv, ViewInv', Statistics!Restart PROVE CountInv'
<1>0. /\ ViewTyped /\ ~Lossless
      /\ UNCHANGED <<stat_world, view_count, dedup>>
      /\ buffer' = <<>> /\ draining' = <<>> /\ visits' = [w \in Task |-> 0]
  BY DEF Statistics!Restart, ViewInv, Lossless, Task
<1>1. ASSUME NEW u \in Thread
      PROVE  ViewDays(u)' = ViewDays(u) + 0 /\ InAll(u)' <= InAll(u) + 0 /\ 0 \in Nat
  <2>1. ViewDays(u)' = ViewDays(u)
    BY <1>0, ViewDaysSame
  <2>2. \A v \in Viewer : visits'[<<u, v, Count>>] = 0
    BY <1>0, StatSteps DEF Task
  <2>3. \A v \in Viewer : CountingOf(u)'[v] = 0
    BY <2>2 DEF CountingOf
  <2>4. Counting(u)' = 0
    BY <2>3, TotalZero DEF Counting
  <2>5. /\ Statistics!Entry(draining, u)' = 0 /\ Statistics!Entry(buffer, u)' = 0
    BY <1>0 DEF Statistics!Entry
  <2>6. /\ view_count[u] \in Nat /\ Statistics!Entry(buffer, u) \in Nat
        /\ Statistics!Entry(draining, u) \in Nat /\ Counting(u) \in Nat /\ ViewDays(u) \in Nat
    BY <1>0, CountTypes
  <2>7. view_count'[u] = view_count[u]
    BY <1>0
  <2> QED
    BY <2>1, <2>4, <2>5, <2>6, <2>7 DEF InAll
<1> QED
  BY <1>0, <1>1, CountsKept

LEMMA CountsNext == ViewInv /\ CountInv /\ [Statistics!Next]_statVars => CountInv'
<1> SUFFICES ASSUME ViewInv, CountInv, [Statistics!Next]_statVars PROVE CountInv'
  OBVIOUS
<1>0. ViewInv'
  BY ViewsNext
<1>1. ASSUME NEW t \in Thread, Statistics!CreateThread(t) \/ Statistics!DeleteThread(t)
      PROVE  CountInv'
  <2>1. UNCHANGED <<stat_world, view_count, dedup, buffer, draining, visits>>
    BY <1>1 DEF Statistics!CreateThread, Statistics!DeleteThread, Statistics!inMemory
  <2> QED
    BY <1>0, <2>1, CountsSame
<1>2. CASE Statistics!SeedYesterday \/ Statistics!UpsertToday \/ Statistics!NextDay
  <2>1. UNCHANGED <<stat_world, view_count, dedup, buffer, draining, visits>>
    BY <1>2 DEF Statistics!SeedYesterday, Statistics!UpsertToday, Statistics!NextDay,
       Statistics!stored, Statistics!inMemory
  <2> QED
    BY <1>0, <2>1, CountsSame
<1>3. CASE UNCHANGED statVars
  <2>1. UNCHANGED <<stat_world, view_count, dedup, buffer, draining, visits>>
    BY <1>3 DEF statVars
  <2> QED
    BY <1>0, <2>1, CountsSame
<1>4. CASE Statistics!Next
  BY <1>0, <1>1, <1>2, <1>4, StatisticsNext, CountsRead, CountsInserted, CountsUpdated,
     CountsCounted, CountsDrained, CountsWrittenOnce, CountsLost
<1> QED
  BY <1>3, <1>4

LEMMA CountsInitially == Statistics!Init => CountInv
<1> SUFFICES ASSUME Statistics!Init PROVE CountInv
  OBVIOUS
<1>1. ASSUME NEW t \in Thread PROVE InAll(t) = 0 /\ ViewDays(t) = 0
  <2>1. \A v \in Viewer : SeenBy(t)[v] = 0 /\ CountingOf(t)[v] = 0
    BY StatSteps DEF Statistics!Init, SeenBy, CountingOf
  <2>2. ViewDays(t) = 0 /\ Counting(t) = 0
    BY <2>1, TotalZero DEF ViewDays, Counting
  <2>3. /\ Statistics!Entry(buffer, t) = 0 /\ Statistics!Entry(draining, t) = 0
        /\ view_count[t] = 0
    BY DEF Statistics!Init, Statistics!Entry
  <2> QED
    BY <2>2, <2>3 DEF InAll
<1> QED
  BY <1>1 DEF CountInv

LEMMA ViewsHold ==
    ASSUME ViewInv, DayInv, CountInv
    PROVE  Statistics!TypeOK /\ Statistics!ViewsCounted /\ Statistics!NoViewOnTwoDays
<1>0. ViewTyped
  BY DEF ViewInv
<1>1. Statistics!NoViewOnTwoDays
  BY <1>0, AllViewsSum DEF DayInv
<1>2. ASSUME "raw" \notin stat_world, NEW t \in Thread
      PROVE  /\ \A v \in Viewer : dedup[<<t, v>>].total <= today + 1
             /\ view_count[t] + Statistics!OnTheWay(t) <= Statistics!Recorded(t)
             /\ {"restart", "error"} \cap stat_world = {} =>
                  view_count[t] + Statistics!OnTheWay(t) = Statistics!Recorded(t)
  <2>1. ASSUME NEW v \in Viewer PROVE dedup[<<t, v>>].total <= today + 1
    <3>1. today \in Nat
      BY <1>0, ViewTypes, StatFacts
    <3>2. dedup[<<t, v>>].total \in Nat
      BY <1>0, ViewTypes, StatFacts
    <3> QED
      BY <3>1, <3>2 DEF ViewInv, DedupInv
  <2>2. view_count[t] + Statistics!OnTheWay(t) = InAll(t)
    BY <1>0, OnTheWaySum DEF InAll
  <2>3. Statistics!Recorded(t) = ViewDays(t)
    BY <1>0, RecordedSum
  <2> QED
    BY <1>2, <2>1, <2>2, <2>3 DEF CountInv, Lossless
<1>3. Statistics!ViewsCounted
  BY <1>2 DEF Statistics!ViewsCounted
<1> QED
  BY <1>0, <1>1, <1>3 DEF ViewTyped

StatisticsSide == side = "statistics" => ViewInv /\ DayInv /\ CountInv

(* However tasks for the same viewer overlap, get_by_slug counts a viewer  *)
(* of a thread once a day, and flush_view_counts neither loses nor repeats *)
(* what it takes out; failures and restarts only lose views                *)
(* (thread_usecase.rs, thread_repository.rs).  The daily statistics report *)
(* no view on two days, though threads are deleted, days are missed and    *)
(* snapshots taken late (stats_repository.rs).                             *)
THEOREM ViewsAlwaysCounted == PlatformSpec => []ViewsCounted
<1>1. PlatformInit => StatisticsSide
  BY ViewsInitially, DaysInitially, CountsInitially DEF PlatformInit, StatisticsSide
<1>2. StatisticsSide /\ [PlatformNext]_platformVars => StatisticsSide'
  BY ViewsNext, DaysNext, CountsNext DEF StatisticsSide, PlatformNext, platformVars
<1>3. StatisticsSide => ViewsCounted
  BY ViewsHold DEF StatisticsSide, ViewsCounted
<1> QED
  BY <1>1, <1>2, <1>3, PTL DEF PlatformSpec

==================================================================================
