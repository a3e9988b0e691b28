------------------------------ MODULE AccessProof ------------------------------
(***************************************************************************)
(* Proofs about who may do what. First Roles, for any set of users, number *)
(* of requests in flight, life of a cache entry and life of an assignment; *)
(* then Sessions, for any numbers of requests in flight, lives of the      *)
(* tokens, lengths of a lock and of a ban, and limit of wrong passwords.   *)
(***************************************************************************)
EXTENDS Roles, Sessions, FiniteSetTheorems, TLAPS

-----------------------------------------------------------------------------
(***************************************************************************)
(* Roles: type correctness.                                                *)
(***************************************************************************)

LEMMA NoRequestTyped == NoRequest \in Request
  BY RoleConstants DEF NoRequest, Request, Role, Never

(* A request that goes on to a place with legal local variables leaves     *)
(* every request well typed.                                               *)
LEMMA GoTyped ==
    ASSUME TypeOK, NEW w \in Worker, NEW label \in Control, NEW r \in Request,
           Go(w, label, r)
    PROVE  pc' \in [Worker -> Control] /\ req' \in [Worker -> Request]
  BY DEF TypeOK, Go

LEMMA FinishTyped ==
    ASSUME TypeOK, NEW w \in Worker, Finish(w)
    PROVE  pc' \in [Worker -> Control] /\ req' \in [Worker -> Request]
  BY NoRequestTyped, GoTyped DEF Finish, Control

LEMMA GotoTyped ==
    ASSUME TypeOK, NEW w \in Worker, NEW label \in Control, Goto(w, label)
    PROVE  pc' \in [Worker -> Control] /\ req' \in [Worker -> Request]
  BY DEF TypeOK, Goto

LEMMA InsertTyped ==
    ASSUME TypeOK, NEW u \in User, NEW r \in Role, NEW n \in 1 .. Never, Insert(u, r, n)
    PROVE  /\ user_roles' \in [User -> [Role -> NoRow .. Never]]
           /\ lost' \in [User -> [Role -> 0 .. Ttl + 1]]
  BY RoleConstants DEF TypeOK, Insert, NoRow, Never

LEMMA DeleteTyped ==
    ASSUME TypeOK, NEW u \in User, NEW r \in Role, Delete(u, r)
    PROVE  user_roles' \in [User -> [Role -> NoRow .. Never]]
  BY RoleConstants DEF TypeOK, Delete, NoRow, Never

LEMMA InitTypeOK == Init => TypeOK
<1> SUFFICES ASSUME Init PROVE TypeOK
  OBVIOUS
<1> USE RoleConstants
<1>1. user_roles \in [User -> [Role -> NoRow .. Never]]
  BY DEF Init, NoRow, Never
<1>2. cached \in [User -> [roles: SUBSET Role, ttl: 0 .. Ttl]]
  BY DEF Init, NotCached
<1>3. lost \in [User -> [Role -> 0 .. Ttl + 1]]
  BY DEF Init
<1>4. req \in [Worker -> Request]
  BY NoRequestTyped DEF Init
<1>5. role_permissions \subseteq Key /\ inner \subseteq Key /\ full \in BOOLEAN
  BY DEF Init
<1> QED
  BY <1>1, <1>2, <1>3, <1>4, <1>5 DEF Init, TypeOK, Control

LEMMA TickTypeOK ==
    ASSUME TypeOK, Tick
    PROVE  TypeOK'
<1> USE RoleConstants
<1>1. ASSUME NEW n \in NoRow .. Never PROVE Older(n) \in NoRow .. Never
  BY DEF Older, NoRow, Never
<1>2. user_roles' \in [User -> [Role -> NoRow .. Never]]
  BY <1>1 DEF TypeOK, Tick
<1>3. lost' \in [User -> [Role -> 0 .. Ttl + 1]]
  BY DEF TypeOK, Tick
<1>4. cached' \in [User -> [roles: SUBSET Role, ttl: 0 .. Ttl]]
  <2> SUFFICES ASSUME NEW u \in User
               PROVE  cached'[u] \in [roles: SUBSET Role, ttl: 0 .. Ttl]
    BY DEF Tick
  <2>1. cached[u] \in [roles: SUBSET Role, ttl: 0 .. Ttl]
    BY DEF TypeOK
  <2>2. cached'[u] = IF cached[u].ttl <= 1 THEN NotCached
                     ELSE [cached[u] EXCEPT !.ttl = @ - 1]
    BY DEF Tick
  <2> QED
    BY <2>1, <2>2 DEF NotCached
<1> QED
  BY <1>2, <1>3, <1>4 DEF TypeOK, Tick

LEMMA StepTypeOK ==
    ASSUME TypeOK, NEW w \in Worker,
           \/ Query(w) \/ Fill(w) \/ Serve(w) \/ Assign(w) \/ Revoke(w) \/ Clear(w)
           \/ InsertPermissions(w) \/ Load(w) \/ Publish(w) \/ Resolve(w)
    PROVE  TypeOK'
<1> DEFINE q == req[w]
<1>q. q \in Request /\ q.user \in User /\ q.roles \in SUBSET Role /\ q.target \in User
      /\ q.role \in Role /\ q.life \in 1 .. Never /\ q.keys \subseteq Key /\ q.set \subseteq Key
  BY DEF TypeOK, Request
<1>1. CASE Query(w)
  <2>1. [q EXCEPT !.roles = Effective(q.user)] \in Request
    BY <1>q DEF Request, Effective
  <2> QED
    BY <1>1, <2>1, GoTyped, GotoTyped DEF Query, Control, TypeOK
<1>2. CASE Fill(w)
  <2>1. cached' \in [User -> [roles: SUBSET Role, ttl: 0 .. Ttl]]
    BY <1>2, <1>q, RoleConstants DEF Fill, TypeOK
  <2> QED
    BY <1>2, <2>1, GotoTyped DEF Fill, Control, TypeOK
<1>3. CASE Serve(w)
  BY <1>3, FinishTyped DEF Serve, TypeOK
<1>4. CASE Assign(w)
  <2>1. CASE Insert(q.target, q.role, q.life) /\ Goto(w, "clear")
    BY <1>4, <1>q, <2>1, InsertTyped, GotoTyped DEF Assign, Control, TypeOK
  <2>2. CASE Finish(w) /\ UNCHANGED <<user_roles, lost>>
    BY <1>4, <2>2, FinishTyped DEF Assign, TypeOK
  <2> QED
    BY <1>4, <2>1, <2>2 DEF Assign
<1>5. CASE Revoke(w)
  <2>1. CASE Delete(q.target, q.role) /\ Goto(w, "clear")
    BY <1>5, <1>q, <2>1, DeleteTyped, GotoTyped DEF Revoke, Control, TypeOK
  <2>2. CASE Finish(w) /\ UNCHANGED user_roles
    BY <1>5, <2>2, FinishTyped DEF Revoke, TypeOK
  <2> QED
    BY <1>5, <2>1, <2>2 DEF Revoke
<1>6. CASE Clear(w)
  <2>1. cached' \in [User -> [roles: SUBSET Role, ttl: 0 .. Ttl]]
    <3>1. NotCached \in [roles: SUBSET Role, ttl: 0 .. Ttl]
      BY RoleConstants DEF NotCached
    <3> QED
      BY <1>6, <1>q, <3>1 DEF Clear, TypeOK
  <2> QED
    BY <1>6, <2>1, FinishTyped DEF Clear, TypeOK
<1>7. CASE InsertPermissions(w)
  <2>1. role_permissions' \subseteq Key /\ full' \in BOOLEAN
    BY <1>7, <1>q DEF InsertPermissions, TypeOK
  <2>2. pc' \in [Worker -> Control] /\ req' \in [Worker -> Request]
    BY <1>7, GotoTyped, FinishTyped DEF InsertPermissions, Control
  <2> QED
    BY <1>7, <2>1, <2>2 DEF InsertPermissions, TypeOK
<1>8. CASE Load(w)
  <2>1. [q EXCEPT !.set = role_permissions] \in Request
    BY <1>q DEF Request, TypeOK
  <2> QED
    BY <1>8, <2>1, GoTyped DEF Load, Control, TypeOK
<1>9. CASE Publish(w)
  BY <1>9, <1>q, FinishTyped DEF Publish, TypeOK
<1>10. CASE Resolve(w)
  <2>1. [q EXCEPT !.keys = KeysHeld(q.roles)] \in Request
    BY <1>q DEF Request, TypeOK, KeysHeld
  <2> QED
    BY <1>10, <2>1, GoTyped DEF Resolve, Control, TypeOK
<1> QED
  BY <1>1, <1>2, <1>3, <1>4, <1>5, <1>6, <1>7, <1>8, <1>9, <1>10

LEMMA BeginTypeOK ==
    ASSUME TypeOK, NEW w \in Worker, NEW u \in User, NEW r \in Role, NEW b \in SUBSET Key,
           NEW n \in {Lifetime, Never},
           \/ Arrive(w, u) \/ AssignModerator(w, u) \/ RevokeModerator(w, u)
           \/ BeginRevoke(w, u, r) \/ BeginAssign(w, u, r, n) \/ SetPermissions(w, b)
    PROVE  TypeOK'
<1> DEFINE q == req[w]
<1>q. q \in Request
  BY DEF TypeOK
<1>n. n \in 1 .. Never /\ Never \in 1 .. Never
  BY RoleConstants DEF Never
<1>1. CASE Arrive(w, u)
  <2>1. cached[u].roles \in SUBSET Role
    BY DEF TypeOK
  <2>2. /\ [NoRequest EXCEPT !.user = u, !.roles = cached[u].roles] \in Request
        /\ [NoRequest EXCEPT !.user = u] \in Request
    BY <2>1, NoRequestTyped DEF Request
  <2> QED
    BY <1>1, <2>2, GoTyped DEF Arrive, Control, TypeOK
<1>2. CASE AssignModerator(w, u)
  BY <1>2, <1>n, InsertTyped, FinishTyped DEF AssignModerator, TypeOK, Role
<1>3. CASE RevokeModerator(w, u)
  <2>1. [q EXCEPT !.target = u] \in Request
    BY <1>q DEF Request
  <2> QED
    BY <1>3, <2>1, DeleteTyped, GoTyped DEF RevokeModerator, TypeOK, Role, Control
<1>4. CASE BeginRevoke(w, u, r)
  <2>1. [q EXCEPT !.target = u, !.role = r] \in Request
    BY <1>q DEF Request
  <2> QED
    BY <1>4, <2>1, GoTyped DEF BeginRevoke, TypeOK, Control
<1>5. CASE BeginAssign(w, u, r, n)
  <2>1. [q EXCEPT !.target = u, !.role = r, !.life = n] \in Request
    BY <1>q, <1>n DEF Request
  <2> QED
    BY <1>5, <2>1, GoTyped DEF BeginAssign, TypeOK, Control
<1>6. CASE SetPermissions(w, b)
  <2>1. [q EXCEPT !.set = b] \in Request
    BY <1>q DEF Request
  <2> QED
    BY <1>6, <2>1, GoTyped DEF SetPermissions, TypeOK, Control
<1> QED
  BY <1>1, <1>2, <1>3, <1>4, <1>5, <1>6

LEMMA NextTypeOK == TypeOK /\ [Next]_vars => TypeOK'
<1> SUFFICES ASSUME TypeOK, [Next]_vars PROVE TypeOK'
  OBVIOUS
<1>1. CASE Tick
  BY <1>1, TickTypeOK
<1>2. CASE UNCHANGED vars
  BY <1>2 DEF vars, TypeOK
<1>3. "admin" \in Role /\ {} \in SUBSET Key /\ Never \in {Lifetime, Never}
      /\ world.grants \subseteq SUBSET Key
  BY RoleConstants DEF TypeOK, World, Role
<1> QED
  BY <1>1, <1>2, <1>3, StepTypeOK, BeginTypeOK, RoleConstants DEF Next

(* Rows, cache entries and requests keep their types.                      *)
THEOREM RolesTypeCorrect == Spec => []TypeOK
  BY InitTypeOK, NextTypeOK, PTL DEF Spec

-----------------------------------------------------------------------------
(***************************************************************************)
(* Nobody is served with a role that has been gone for Ttl ticks, and only *)
(* a request served as an administrator's makes administrators.            *)
(***************************************************************************)

(* A role that is held was last held now.                                  *)
HeldFresh == \A u \in User, r \in Role : Holds(u, r) => lost[u][r] = 0

(* What a cache entry says was true when its life began: the time since    *)
(* then and the time it has left add up to no more than that life.         *)
EntriesFresh ==
    \A u \in User : cached[u].ttl > 0 =>
        \A r \in cached[u].roles : lost[u][r] + cached[u].ttl <= Ttl

(* What a query has read is still of now, since time does not pass under a *)
(* request.                                                                *)
RequestFresh(w) ==
    /\ pc[w] = "query" => req[w].roles = {}
    /\ pc[w] = "fill" => \A r \in req[w].roles : lost[req[w].user][r] = 0
    /\ pc[w] # "idle" => \A r \in req[w].roles : lost[req[w].user][r] < Ttl

FreshInv == HeldFresh /\ EntriesFresh /\ \A w \in Worker : RequestFresh(w)

LEMMA InitFresh == Init => FreshInv
<1> SUFFICES ASSUME Init PROVE FreshInv
  OBVIOUS
<1>1. HeldFresh
  BY DEF Init, HeldFresh, Holds
<1>2. EntriesFresh
  BY DEF Init, EntriesFresh, NotCached
<1>3. \A w \in Worker : RequestFresh(w)
  BY DEF Init, RequestFresh
<1> QED
  BY <1>1, <1>2, <1>3 DEF FreshInv

LEMMA TickFresh ==
    ASSUME TypeOK, FreshInv, Tick
    PROVE  FreshInv'
<1> USE RoleConstants
<1>1. \A w \in Worker : RequestFresh(w)'
  BY DEF Tick, Quiet, Idle, RequestFresh
<1>2. ASSUME NEW u \in User, NEW r \in Role, Holds(u, r)'
      PROVE  lost'[u][r] = 0
  <2>1. user_roles[u][r] \in NoRow .. Never /\ Older(user_roles[u][r]) > 0
    BY <1>2 DEF Tick, TypeOK, Holds
  <2>2. user_roles[u][r] > 0 /\ user_roles[u][r] # 1
    BY <2>1 DEF Older, NoRow, Never
  <2> QED
    BY <2>2 DEF Tick, Holds
<1>3. ASSUME NEW u \in User, cached'[u].ttl > 0, NEW r \in cached'[u].roles
      PROVE  lost'[u][r] + cached'[u].ttl <= Ttl
  <2>1. cached[u] \in [roles: SUBSET Role, ttl: 0 .. Ttl]
    BY DEF TypeOK
  <2>2. /\ cached[u].ttl > 1 /\ cached'[u].ttl = cached[u].ttl - 1
        /\ cached'[u].roles = cached[u].roles
    BY <1>3, <2>1 DEF Tick, NotCached
  <2>3. r \in Role
    BY <1>3, <2>1, <2>2
  <2>4. lost[u][r] \in Nat
    BY <2>3 DEF TypeOK
  <2>5. lost[u][r] + cached[u].ttl <= Ttl
    BY <1>3, <2>1, <2>2 DEF FreshInv, EntriesFresh
  <2>6. lost'[u][r] <= lost[u][r] + 1 /\ lost'[u][r] \in Nat
    BY <2>3, <2>4, <2>5, <2>1, <2>2 DEF Tick
  <2> QED
    BY <2>1, <2>2, <2>5, <2>4, <2>6
<1> QED
  BY <1>1, <1>2, <1>3 DEF FreshInv, HeldFresh, EntriesFresh

(* Inserting a row makes what it says fresh, and nothing else less so.     *)
LEMMA InsertFresh ==
    ASSUME TypeOK, FreshInv, NEW u \in User, NEW r \in Role, NEW n \in 1 .. Never,
           Insert(u, r, n), UNCHANGED cached
    PROVE  /\ HeldFresh' /\ EntriesFresh'
           /\ \A v \in User, x \in Role : lost'[v][x] = lost[v][x] \/ lost'[v][x] = 0
<1> USE RoleConstants
<1>1. \A v \in User, x \in Role :
        IF v = u /\ x = r THEN lost'[v][x] = 0
        ELSE lost'[v][x] = lost[v][x] /\ user_roles'[v][x] = user_roles[v][x]
  BY DEF Insert, TypeOK
<1>2. HeldFresh'
  BY <1>1 DEF FreshInv, HeldFresh, Holds
<1>3. ASSUME NEW v \in User, cached[v].ttl > 0, NEW x \in cached[v].roles
      PROVE  lost'[v][x] + cached[v].ttl <= Ttl
  <2>1. x \in Role /\ cached[v].ttl \in 0 .. Ttl
    BY DEF TypeOK
  <2>2. lost[v][x] + cached[v].ttl <= Ttl
    BY <1>3 DEF FreshInv, EntriesFresh
  <2> QED
    BY <1>1, <2>1, <2>2
<1> QED
  BY <1>1, <1>2, <1>3 DEF EntriesFresh

LEMMA DeleteFresh ==
    ASSUME TypeOK, FreshInv, NEW u \in User, NEW r \in Role, Delete(u, r),
           UNCHANGED <<cached, lost>>
    PROVE  HeldFresh' /\ EntriesFresh'
<1>1. \A v \in User, x \in Role :
        user_roles'[v][x] = user_roles[v][x] \/ user_roles'[v][x] = NoRow
  BY DEF Delete, TypeOK
<1> QED
  BY <1>1 DEF FreshInv, HeldFresh, EntriesFresh, Holds, NoRow

(* A request that moves on leaves the others as fresh as they were.        *)
LEMMA OthersFresh ==
    ASSUME TypeOK, FreshInv, NEW w \in Worker,
           \A v \in User, x \in Role : lost'[v][x] = lost[v][x] \/ lost'[v][x] = 0,
           \A x \in Worker \ {w} : pc'[x] = pc[x] /\ req'[x] = req[x],
           RequestFresh(w)'
    PROVE  \A x \in Worker : RequestFresh(x)'
<1> SUFFICES ASSUME NEW x \in Worker \ {w} PROVE RequestFresh(x)'
  OBVIOUS
<1>1. pc'[x] = pc[x] /\ req'[x] = req[x] /\ RequestFresh(x)
  BY DEF FreshInv
<1>2. req[x].user \in User /\ req[x].roles \subseteq Role
  BY DEF TypeOK, Request
<1>3. \A r \in req[x].roles :
        /\ lost[req[x].user][r] = 0 => lost'[req[x].user][r] = 0
        /\ lost[req[x].user][r] < Ttl => lost'[req[x].user][r] < Ttl
  BY <1>2, RoleConstants
<1> QED
  BY <1>1, <1>3 DEF RequestFresh

LEMMA MovesOn ==
    ASSUME TypeOK, NEW w \in Worker, NEW label, NEW r,
           \/ Go(w, label, r) \/ (Goto(w, label) /\ r = req[w])
           \/ Finish(w) /\ label = "idle" /\ r = NoRequest
    PROVE  /\ pc'[w] = label /\ req'[w] = r
           /\ \A x \in Worker \ {w} : pc'[x] = pc[x] /\ req'[x] = req[x]
  BY DEF TypeOK, Go, Goto, Finish

LEMMA StepFresh ==
    ASSUME TypeOK, FreshInv, NEW w \in Worker,
           \/ Query(w) \/ Fill(w) \/ Serve(w) \/ Assign(w) \/ Revoke(w) \/ Clear(w)
           \/ InsertPermissions(w) \/ Load(w) \/ Publish(w) \/ Resolve(w)
    PROVE  FreshInv'
<1> USE DEF FreshInv
<1> DEFINE q == req[w]
           Unmoved == \A v \in User, x \in Role : lost'[v][x] = lost[v][x] \/ lost'[v][x] = 0
<1>q. /\ q.user \in User /\ q.roles \subseteq Role /\ q.target \in User
      /\ q.role \in Role /\ q.life \in 1 .. Never
  BY DEF TypeOK, Request
<1>w. RequestFresh(w)
  OBVIOUS
<1>i. Finish(w) => RequestFresh(w)'
  BY MovesOn DEF RequestFresh
<1>c. pc[w] \notin {"query", "fill", "idle"} /\ Goto(w, "clear") /\ Unmoved => RequestFresh(w)'
  <2> SUFFICES ASSUME pc[w] \notin {"query", "fill", "idle"}, Goto(w, "clear"), Unmoved
               PROVE  RequestFresh(w)'
    OBVIOUS
  <2>1. pc'[w] = "clear" /\ req'[w] = q
    BY MovesOn
  <2>2. \A r \in q.roles : lost'[q.user][r] < Ttl
    BY <1>q, <1>w, RoleConstants DEF RequestFresh
  <2> QED
    BY <2>1, <2>2 DEF RequestFresh
<1>1. CASE Query(w)
  <2>1. CASE Go(w, "fill", [q EXCEPT !.roles = Effective(q.user)])
    <3>1. /\ pc'[w] = "fill" /\ req'[w] = [q EXCEPT !.roles = Effective(q.user)]
          /\ \A x \in Worker \ {w} : pc'[x] = pc[x] /\ req'[x] = req[x]
      BY <2>1, MovesOn
    <3>2. req'[w].roles = Effective(q.user) /\ req'[w].user = q.user
      BY <3>1 DEF TypeOK, Request
    <3>3. \A r \in Effective(q.user) : lost[q.user][r] = 0
      BY <1>q DEF Effective, HeldFresh
    <3>4. RequestFresh(w)'
      BY <1>1, <3>1, <3>2, <3>3, RoleConstants DEF RequestFresh, Query
    <3> QED
      BY <1>1, <3>1, <3>4, OthersFresh DEF Query, HeldFresh, EntriesFresh, Holds
  <2>2. CASE Goto(w, "fill")
    <3>1. /\ pc'[w] = "fill" /\ req'[w] = q
          /\ \A x \in Worker \ {w} : pc'[x] = pc[x] /\ req'[x] = req[x]
      BY <2>2, MovesOn
    <3>2. RequestFresh(w)'
      BY <1>1, <1>w, <3>1 DEF RequestFresh, Query
    <3> QED
      BY <1>1, <3>1, <3>2, OthersFresh DEF Query, HeldFresh, EntriesFresh, Holds
  <2> QED
    BY <1>1, <2>1, <2>2 DEF Query
<1>2. CASE Fill(w)
  <2>1. /\ pc'[w] = "resolve" /\ req'[w] = q
        /\ \A x \in Worker \ {w} : pc'[x] = pc[x] /\ req'[x] = req[x]
    BY <1>2, MovesOn DEF Fill
  <2>2. RequestFresh(w)'
    BY <1>2, <1>w, <2>1, RoleConstants DEF RequestFresh, Fill
  <2>3. EntriesFresh'
    <3>1. \A u \in User : cached'[u] = IF u = q.user THEN [roles |-> q.roles, ttl |-> Ttl]
                                       ELSE cached[u]
      BY <1>2 DEF Fill, TypeOK
    <3>2. \A r \in q.roles : lost[q.user][r] + Ttl <= Ttl
      BY <1>2, <1>w, RoleConstants DEF Fill, RequestFresh
    <3> QED
      BY <1>2, <3>1, <3>2 DEF EntriesFresh, Fill
  <2> QED
    BY <1>2, <2>1, <2>2, <2>3, OthersFresh DEF Fill, HeldFresh, Holds
<1>3. CASE Serve(w) \/ Publish(w)
  <2>1. Finish(w) /\ UNCHANGED <<user_roles, cached, lost>>
    BY <1>3 DEF Serve, Publish
  <2> QED
    BY <1>i, <2>1, MovesOn, OthersFresh DEF HeldFresh, EntriesFresh, Holds
<1>4. CASE Assign(w)
  <2>1. CASE Insert(q.target, q.role, q.life) /\ Goto(w, "clear")
    BY <1>4, <1>q, <1>c, <2>1, InsertFresh, MovesOn, OthersFresh DEF Assign
  <2>2. CASE Finish(w) /\ UNCHANGED <<user_roles, lost>>
    BY <1>4, <1>i, <2>2, MovesOn, OthersFresh DEF Assign, HeldFresh, EntriesFresh, Holds
  <2> QED
    BY <1>4, <2>1, <2>2 DEF Assign
<1>5. CASE Revoke(w)
  <2>1. CASE Delete(q.target, q.role) /\ Goto(w, "clear")
    BY <1>5, <1>q, <1>c, <2>1, DeleteFresh, MovesOn, OthersFresh DEF Revoke
  <2>2. CASE Finish(w) /\ UNCHANGED user_roles
    BY <1>5, <1>i, <2>2, MovesOn, OthersFresh DEF Revoke, HeldFresh, EntriesFresh, Holds
  <2> QED
    BY <1>5, <2>1, <2>2 DEF Revoke
<1>6. CASE Clear(w)
  <2>1. \A u \in User : cached'[u] = cached[u] \/ cached'[u] = NotCached
    BY <1>6, <1>q DEF Clear, TypeOK
  <2>2. EntriesFresh'
    BY <1>6, <2>1 DEF EntriesFresh, NotCached, Clear
  <2> QED
    BY <1>6, <1>i, <2>2, MovesOn, OthersFresh DEF Clear, HeldFresh, Holds
<1>7. CASE InsertPermissions(w) \/ Load(w) \/ Resolve(w)
  <2>1. UNCHANGED <<user_roles, cached, lost>> /\ pc[w] \in {"insert", "load", "resolve"}
    BY <1>7 DEF InsertPermissions, Load, Resolve
  <2>2. CASE Finish(w)
    BY <1>i, <2>1, <2>2, MovesOn, OthersFresh DEF HeldFresh, EntriesFresh, Holds
  <2>3. CASE ~Finish(w)
    <3>1. \E r : /\ pc'[w] \in {"load", "publish", "handle"} /\ req'[w] = r
                 /\ r.roles = q.roles /\ r.user = q.user
                 /\ \A x \in Worker \ {w} : pc'[x] = pc[x] /\ req'[x] = req[x]
      BY <1>7, <2>3 DEF InsertPermissions, Load, Resolve, Goto, Go, TypeOK, Request
    <3>2. RequestFresh(w)'
      BY <1>w, <2>1, <3>1 DEF RequestFresh
    <3> QED
      BY <2>1, <3>1, <3>2, OthersFresh DEF HeldFresh, EntriesFresh, Holds
  <2> QED
    BY <2>2, <2>3
<1> QED
  BY <1>1, <1>2, <1>3, <1>4, <1>5, <1>6, <1>7

LEMMA BeginFresh ==
    ASSUME TypeOK, FreshInv,
           NEW w \in Worker, NEW u \in User, NEW r \in Role, NEW b \in SUBSET Key,
           NEW n \in {Lifetime, Never},
           \/ Arrive(w, u) \/ AssignModerator(w, u) \/ RevokeModerator(w, u)
           \/ BeginRevoke(w, u, r) \/ BeginAssign(w, u, r, n) \/ SetPermissions(w, b)
    PROVE  FreshInv'
<1> USE DEF FreshInv
<1> DEFINE q == req[w]
<1>q. q \in Request /\ q.user \in User /\ q.roles \subseteq Role
  BY DEF TypeOK, Request
<1>w. RequestFresh(w)
  OBVIOUS
<1>1. CASE Arrive(w, u)
  <2> DEFINE hit == [NoRequest EXCEPT !.user = u, !.roles = cached[u].roles]
             miss == [NoRequest EXCEPT !.user = u]
  <2>0. cached[u] \in [roles: SUBSET Role, ttl: 0 .. Ttl]
    BY DEF TypeOK
  <2>1. CASE cached[u].ttl > 0
    <3>1. /\ pc'[w] = "resolve" /\ req'[w] = hit
          /\ \A x \in Worker \ {w} : pc'[x] = pc[x] /\ req'[x] = req[x]
      BY <1>1, <2>1, MovesOn DEF Arrive
    <3>2. \A x \in cached[u].roles : lost[u][x] + cached[u].ttl <= Ttl /\ lost[u][x] \in Nat
      BY <2>0, <2>1 DEF EntriesFresh, TypeOK
    <3>3. \A x \in cached[u].roles : lost[u][x] < Ttl
      BY <2>0, <2>1, <3>2, RoleConstants
    <3>4. RequestFresh(w)'
      BY <1>1, <3>1, <3>3 DEF RequestFresh, Arrive, NoRequest
    <3> QED
      BY <1>1, <3>1, <3>4, OthersFresh DEF Arrive, HeldFresh, EntriesFresh, Holds
  <2>2. CASE ~ (cached[u].ttl > 0)
    <3>1. /\ pc'[w] = "query" /\ req'[w] = miss
          /\ \A x \in Worker \ {w} : pc'[x] = pc[x] /\ req'[x] = req[x]
      BY <1>1, <2>2, MovesOn DEF Arrive
    <3>2. RequestFresh(w)'
      BY <3>1 DEF RequestFresh, NoRequest
    <3> QED
      BY <1>1, <3>1, <3>2, OthersFresh DEF Arrive, HeldFresh, EntriesFresh, Holds
  <2> QED
    BY <2>1, <2>2
<1>2. CASE AssignModerator(w, u)
  <2>1. "moderator" \in Role /\ Never \in 1 .. Never
    BY RoleConstants DEF Role, Never
  <2>2. RequestFresh(w)'
    BY <1>2, MovesOn DEF AssignModerator, RequestFresh
  <2> QED
    BY <1>2, <2>1, <2>2, InsertFresh, MovesOn, OthersFresh DEF AssignModerator
<1>3. CASE RevokeModerator(w, u)
  <2>1. /\ pc'[w] = "clear" /\ req'[w].roles = q.roles /\ req'[w].user = q.user
        /\ \A x \in Worker \ {w} : pc'[x] = pc[x] /\ req'[x] = req[x]
    BY <1>3, <1>q DEF RevokeModerator, Go, TypeOK, Request
  <2>2. RequestFresh(w)'
    BY <1>3, <1>w, <2>1 DEF RequestFresh, RevokeModerator, Manages
  <2> QED
    BY <1>3, <2>1, <2>2, DeleteFresh, OthersFresh DEF RevokeModerator, Role
<1>4. CASE BeginRevoke(w, u, r)
  <2>1. /\ pc'[w] = "revoke" /\ req'[w].roles = q.roles /\ req'[w].user = q.user
        /\ \A x \in Worker \ {w} : pc'[x] = pc[x] /\ req'[x] = req[x]
    BY <1>4, <1>q DEF BeginRevoke, Go, TypeOK, Request
  <2>2. RequestFresh(w)'
    BY <1>4, <1>w, <2>1 DEF RequestFresh, BeginRevoke, Manages
  <2> QED
    BY <1>4, <2>1, <2>2, OthersFresh DEF BeginRevoke, HeldFresh, EntriesFresh, Holds
<1>5. CASE BeginAssign(w, u, r, n)
  <2>1. /\ pc'[w] = "assign" /\ req'[w].role = r
        /\ req'[w].roles = q.roles /\ req'[w].user = q.user
        /\ \A x \in Worker \ {w} : pc'[x] = pc[x] /\ req'[x] = req[x]
    BY <1>5, <1>q DEF BeginAssign, Go, TypeOK, Request
  <2>2. RequestFresh(w)'
    BY <1>5, <1>w, <2>1 DEF RequestFresh, BeginAssign, Manages
  <2> QED
    BY <1>5, <2>1, <2>2, OthersFresh DEF BeginAssign, HeldFresh, EntriesFresh, Holds
<1>6. CASE SetPermissions(w, b)
  <2>1. /\ pc'[w] \in {"insert", "load"} /\ req'[w].roles = q.roles /\ req'[w].user = q.user
        /\ \A x \in Worker \ {w} : pc'[x] = pc[x] /\ req'[x] = req[x]
    BY <1>6, <1>q DEF SetPermissions, Go, TypeOK, Request
  <2>2. RequestFresh(w)'
    BY <1>6, <1>w, <2>1 DEF RequestFresh, SetPermissions, Manages
  <2> QED
    BY <1>6, <2>1, <2>2, OthersFresh DEF SetPermissions, HeldFresh, EntriesFresh, Holds
<1> QED
  BY <1>1, <1>2, <1>3, <1>4, <1>5, <1>6

LEMMA NextFresh == TypeOK /\ FreshInv /\ [Next]_vars => FreshInv'
<1> SUFFICES ASSUME TypeOK, FreshInv, [Next]_vars PROVE FreshInv'
  OBVIOUS
<1>1. CASE Tick
  BY <1>1, TickFresh
<1>2. CASE UNCHANGED vars
  BY <1>2 DEF vars, FreshInv, HeldFresh, EntriesFresh, RequestFresh, Holds
<1>3. "admin" \in Role /\ {} \in SUBSET Key /\ Never \in {Lifetime, Never}
      /\ world.grants \subseteq SUBSET Key
  BY RoleConstants DEF TypeOK, World, Role
<1> QED
  BY <1>1, <1>2, <1>3, StepFresh, BeginFresh, RoleConstants DEF Next

LEMMA FreshAlways == Spec => []FreshInv
  BY InitFresh, NextFresh, RolesTypeCorrect, PTL DEF Spec

(* Who has every key has them from the admin role, or from a custom role   *)
(* that has had them all; and the admin role is only granted with them.    *)
WithKeys(w) ==
    /\ pc[w] \in {"handle", "assign"} /\ req[w].keys = Key =>
          "admin" \in req[w].roles \/ (full /\ "custom" \in req[w].roles)
    /\ pc[w] = "assign" /\ req[w].role = "admin" => req[w].keys = Key
    /\ pc[w] = "publish" /\ req[w].set = Key => full

KeysInv ==
    /\ role_permissions = Key \/ inner = Key => full
    /\ \A w \in Worker : WithKeys(w)

LEMMA InitKeys == Init => KeysInv
  BY DEF Init, KeysInv, WithKeys, Key

(* A request that moves on to a place where its keys do not matter.        *)
LEMMA KeysStay ==
    ASSUME TypeOK, KeysInv, NEW w \in Worker, full => full',
           role_permissions' = Key \/ inner' = Key => full',
           \A x \in Worker \ {w} : pc'[x] = pc[x] /\ req'[x] = req[x],
           WithKeys(w)'
    PROVE  KeysInv'
<1> SUFFICES ASSUME NEW x \in Worker \ {w} PROVE WithKeys(x)'
  BY DEF KeysInv
<1>1. WithKeys(x) /\ pc'[x] = pc[x] /\ req'[x] = req[x]
  BY DEF KeysInv
<1> QED
  BY <1>1 DEF WithKeys

LEMMA StepKeys ==
    ASSUME TypeOK, KeysInv, NEW w \in Worker,
           \/ Query(w) \/ Fill(w) \/ Serve(w) \/ Assign(w) \/ Revoke(w) \/ Clear(w)
           \/ InsertPermissions(w) \/ Load(w) \/ Publish(w) \/ Resolve(w)
    PROVE  KeysInv'
<1> DEFINE q == req[w]
<1>q. q \in Request /\ q.roles \subseteq Role /\ WithKeys(w)
  BY DEF TypeOK, Request, KeysInv
<1>0. \A x \in Worker \ {w} : pc'[x] = pc[x] /\ req'[x] = req[x]
  BY DEF Query, Fill, Serve, Assign, Revoke, Clear, InsertPermissions, Load, Publish, Resolve,
     Go, Goto, Finish, TypeOK
<1>1. CASE /\ pc'[w] \notin {"handle", "assign", "publish"}
           /\ UNCHANGED <<role_permissions, inner, full>>
  BY <1>0, <1>1, KeysStay DEF WithKeys, KeysInv
<1>2. CASE Query(w) \/ Fill(w) \/ Serve(w) \/ Assign(w) \/ Revoke(w) \/ Clear(w)
  BY <1>1, <1>2 DEF Query, Fill, Serve, Assign, Revoke, Clear, Go, Goto, Finish, TypeOK
<1>3. CASE InsertPermissions(w)
  <2>1. pc'[w] \in {"load", "idle"}
    BY <1>3, MovesOn DEF InsertPermissions
  <2>2. WithKeys(w)'
    BY <2>1 DEF WithKeys
  <2> QED
    BY <1>0, <1>3, <2>2, KeysStay DEF InsertPermissions, KeysInv
<1>4. CASE Load(w)
  <2>1. pc'[w] = "publish" /\ req'[w].set = role_permissions
    BY <1>4, <1>q DEF Load, Go, TypeOK, Request
  <2>2. WithKeys(w)'
    BY <1>4, <2>1 DEF WithKeys, KeysInv, Load
  <2> QED
    BY <1>0, <1>4, <2>2, KeysStay DEF Load, KeysInv
<1>5. CASE Publish(w)
  <2>1. pc'[w] = "idle"
    BY <1>5, MovesOn DEF Publish
  <2>2. WithKeys(w)'
    BY <2>1 DEF WithKeys
  <2> QED
    BY <1>0, <1>5, <1>q, <2>2, KeysStay DEF Publish, KeysInv, WithKeys
<1>6. CASE Resolve(w)
  <2>1. pc'[w] = "handle" /\ req'[w].keys = KeysHeld(q.roles) /\ req'[w].roles = q.roles
    BY <1>6, <1>q DEF Resolve, Go, TypeOK, Request
  <2>2. KeysHeld(q.roles) = Key =>
          "admin" \in q.roles \/ ("custom" \in q.roles /\ inner = Key)
    BY DEF KeysHeld, Key
  <2>3. WithKeys(w)'
    BY <1>6, <2>1, <2>2 DEF WithKeys, KeysInv, Resolve
  <2> QED
    BY <1>0, <1>6, <2>3, KeysStay DEF Resolve, KeysInv
<1> QED
  BY <1>2, <1>3, <1>4, <1>5, <1>6

LEMMA BeginKeys ==
    ASSUME TypeOK, KeysInv,
           NEW w \in Worker, NEW u \in User, NEW r \in Role, NEW b \in SUBSET Key,
           NEW n \in {Lifetime, Never},
           \/ Arrive(w, u) \/ AssignModerator(w, u) \/ RevokeModerator(w, u)
           \/ BeginRevoke(w, u, r) \/ BeginAssign(w, u, r, n) \/ SetPermissions(w, b)
    PROVE  KeysInv'
<1>q. req[w] \in Request /\ WithKeys(w)
  BY DEF TypeOK, KeysInv
<1>0. \A x \in Worker \ {w} : pc'[x] = pc[x] /\ req'[x] = req[x]
  BY DEF Arrive, AssignModerator, RevokeModerator, BeginRevoke, BeginAssign, SetPermissions,
     Go, Finish, TypeOK
<1>1. UNCHANGED <<inner, full>> /\ role_permissions' \in {role_permissions, {}} /\ {} # Key
  BY DEF Arrive, AssignModerator, RevokeModerator, BeginRevoke, BeginAssign, SetPermissions, Key
<1>2. CASE BeginAssign(w, u, r, n)
  <2>1. /\ pc'[w] = "assign" /\ req'[w].role = r /\ req'[w].keys = req[w].keys
        /\ req'[w].roles = req[w].roles
    BY <1>2, <1>q DEF BeginAssign, Go, TypeOK, Request
  <2>2. pc[w] = "handle" /\ (r = "admin" => req[w].keys = Key)
    BY <1>2, <1>q DEF BeginAssign, Manages, list_for_role, Request
  <2>3. WithKeys(w)'
    BY <1>1, <1>q, <2>1, <2>2 DEF WithKeys
  <2> QED
    BY <1>0, <1>1, <2>3, KeysStay DEF KeysInv
<1>3. CASE ~BeginAssign(w, u, r, n)
  <2>1. pc'[w] \notin {"handle", "assign", "publish"}
    BY <1>3 DEF Arrive, AssignModerator, RevokeModerator, BeginRevoke, SetPermissions,
       Go, Finish, TypeOK
  <2>2. WithKeys(w)'
    BY <2>1 DEF WithKeys
  <2> QED
    BY <1>0, <1>1, <2>2, KeysStay DEF KeysInv
<1> QED
  BY <1>2, <1>3

LEMMA NextKeys == TypeOK /\ KeysInv /\ [Next]_vars => KeysInv'
<1> SUFFICES ASSUME TypeOK, KeysInv, [Next]_vars PROVE KeysInv'
  OBVIOUS
<1>1. CASE Tick \/ UNCHANGED vars
  BY <1>1 DEF Tick, vars, KeysInv, WithKeys
<1>2. "admin" \in Role /\ {} \in SUBSET Key /\ Never \in {Lifetime, Never}
      /\ world.grants \subseteq SUBSET Key
  BY RoleConstants DEF TypeOK, World, Role
<1> QED
  BY <1>1, <1>2, StepKeys, BeginKeys, RoleConstants DEF Next

LEMMA KeysAlways == Spec => []KeysInv
  BY InitKeys, NextKeys, RolesTypeCorrect, PTL DEF Spec

(* However requests overlap and whatever fails, a request is served with a *)
(* role only within Ttl ticks of its user's holding it, and a request that *)
(* makes somebody an administrator is an administrator's, or of somebody   *)
(* with a custom role that has had every key (assign_role).                *)
THEOREM AdminsAreMadeByAdmins == Spec => AdminsMakeAdmins
<1>1. ASSUME TypeOK, FreshInv, KeysInv, Next, NEW u \in User,
             ~Holds(u, "admin"), Holds(u, "admin")'
      PROVE  \E w \in Worker : /\ pc[w] = "assign"
                               /\ \/ lost[req[w].user]["admin"] < Ttl
                                  \/ full /\ lost[req[w].user]["custom"] < Ttl
  <2>a. "admin" \in Role /\ "moderator" # "admin"
    BY DEF Role
  <2>0. user_roles[u]["admin"] \in NoRow .. Never
    BY <1>1, <2>a DEF TypeOK
  <2>1. ~Tick
    BY <1>1, <2>a, <2>0, RoleConstants DEF Tick, Holds, Older, NoRow, Never
  <2>2. \A w \in Worker, v \in User : ~AssignModerator(w, v) /\ ~RevokeModerator(w, v)
    <3> SUFFICES ASSUME NEW w \in Worker, NEW v \in User,
                        AssignModerator(w, v) \/ RevokeModerator(w, v)
                 PROVE  user_roles'[u]["admin"] = user_roles[u]["admin"]
      BY <1>1 DEF Holds
    <3>1. \E n : user_roles' = [user_roles EXCEPT ![v]["moderator"] = n]
      BY DEF AssignModerator, RevokeModerator, Insert, Delete
    <3> QED
      BY <1>1, <2>a, <3>1 DEF TypeOK, Role
  <2>3. PICK w \in Worker : Assign(w) \/ Revoke(w)
    BY <1>1, <2>1, <2>2
    DEF Next, Query, Fill, Resolve, Serve, Clear, InsertPermissions, Load, Publish, SetPermissions,
        Arrive, BeginRevoke, BeginAssign, Holds
  <2>4. ~Revoke(w)
    <3> SUFFICES ASSUME Revoke(w)
                 PROVE  user_roles'[u]["admin"] \in {user_roles[u]["admin"], NoRow}
      BY <1>1 DEF Holds, NoRow
    <3>1. \/ user_roles' = user_roles
          \/ user_roles' = [user_roles EXCEPT ![req[w].target][req[w].role] = NoRow]
      BY DEF Revoke, Delete
    <3>2. user_roles \in [User -> [Role -> NoRow .. Never]] /\ DOMAIN user_roles[u] = Role
      BY <1>1 DEF TypeOK
    <3>3. CASE req[w].target = u /\ req[w].role = "admin"
      BY <2>a, <3>1, <3>2, <3>3
    <3>4. CASE req[w].target # u
      BY <2>a, <3>1, <3>2, <3>4
    <3>5. CASE req[w].role # "admin"
      BY <2>a, <3>1, <3>2, <3>5
    <3> QED
      BY <3>3, <3>4, <3>5
  <2>5. pc[w] = "assign" /\ Insert(req[w].target, req[w].role, req[w].life)
    BY <1>1, <2>3, <2>4 DEF Assign, Holds
  <2>6. user_roles' = [user_roles EXCEPT ![req[w].target][req[w].role] = req[w].life]
    BY <2>5 DEF Insert
  <2>7. req[w].role = "admin"
    BY <1>1, <2>a, <2>6 DEF Holds, TypeOK
  <2>8. "admin" \in req[w].roles \/ (full /\ "custom" \in req[w].roles)
    BY <1>1, <2>5, <2>7 DEF KeysInv, WithKeys
  <2> QED
    BY <1>1, <2>5, <2>8 DEF FreshInv, RequestFresh
<1>2. TypeOK /\ FreshInv /\ KeysInv /\ [Next]_vars =>
        \A u \in User : ~Holds(u, "admin") /\ Holds(u, "admin")'
          => \E w \in Worker : /\ pc[w] = "assign"
                               /\ \/ lost[req[w].user]["admin"] < Ttl
                                  \/ full /\ lost[req[w].user]["custom"] < Ttl
  BY <1>1 DEF vars, Holds
<1> QED
  BY <1>2, FreshAlways, KeysAlways, RolesTypeCorrect, PTL DEF Spec, AdminsMakeAdmins

(* The same bound as an invariant: nobody is served with a role that has   *)
(* been gone for as long as the cache keeps an entry.                      *)
LEMMA StaleAlways == Spec => []StaleForTtlAtMost
<1>1. FreshInv => StaleForTtlAtMost
  BY DEF FreshInv, RequestFresh, StaleForTtlAtMost
<1> QED
  BY <1>1, FreshAlways, PTL

-----------------------------------------------------------------------------
(***************************************************************************)
(* There is always an administrator.                                       *)
(***************************************************************************)

RevokesAdmin(w) == pc[w] = "revoke" /\ req[w].role = "admin"

(* Where nothing expires, a row lasts. *)
RowsLast ==
    ~May("expiry") =>
        /\ \A u \in User, r \in Role : user_roles[u][r] \in {NoRow, Never}
        /\ \A w \in Worker : pc[w] = "assign" => req[w].life = Never

(* Who revokes an administrator after counting them is the only one to do  *)
(* so, and another administrator stays when the row is deleted.            *)
AnotherStays ==
    ~May("revocations") /\ ~May("expiry") =>
        /\ Admins # {}
        /\ \A w, x \in Worker : RevokesAdmin(w) /\ RevokesAdmin(x) => w = x
        /\ \A w \in Worker : RevokesAdmin(w) => \E u \in Admins : u # req[w].target

AdminInv == RowsLast /\ AnotherStays

LEMMA InitAdmin == Init => AdminInv
<1> SUFFICES ASSUME Init PROVE AdminInv
  OBVIOUS
<1>1. FirstAdmin \in User /\ Never > 0 /\ "admin" \in Role
  BY RoleConstants DEF Never, Role
<1>2. user_roles[FirstAdmin]["admin"] = Never
  BY <1>1 DEF Init
<1>3. FirstAdmin \in Admins
  BY <1>1, <1>2 DEF Admins, Holds
<1>4. \A w \in Worker : pc[w] = "idle"
  BY DEF Init
<1>5. RowsLast
  BY <1>4 DEF Init, RowsLast
<1> QED
  BY <1>3, <1>4, <1>5 DEF AdminInv, AnotherStays, RevokesAdmin

(* A step of a request leaves the other requests alone, and starts to      *)
(* revoke an administrator only after counting them.                       *)
Moves(w) ==
    /\ UNCHANGED world
    /\ \A x \in Worker \ {w} : pc'[x] = pc[x] /\ req'[x] = req[x]
    /\ pc'[w] = "assign" => May("expiry") \/ req'[w].life = Never
    /\ pc'[w] = "revoke" =>
        UNCHANGED user_roles /\ MayRevoke(w, req'[w].role) /\ ~LastAdmin(req'[w].role)

Keeps(w) == UNCHANGED user_roles
Inserts(w) == \E u \in User, r \in Role, n \in 1 .. Never :
    /\ Insert(u, r, n)
    /\ n = Never \/ (pc[w] = "assign" /\ n = req[w].life)
Deletes(w) == \E u \in User, r \in Role :
    /\ Delete(u, r)
    /\ r = "moderator" \/ (pc[w] = "revoke" /\ r = req[w].role /\ u = req[w].target)

LEMMA StepMoves ==
    ASSUME TypeOK, NEW w \in Worker,
           \/ Query(w) \/ Fill(w) \/ Serve(w) \/ Assign(w) \/ Revoke(w) \/ Clear(w)
           \/ InsertPermissions(w) \/ Load(w) \/ Publish(w) \/ Resolve(w)
    PROVE  Moves(w) /\ (Keeps(w) \/ Inserts(w) \/ Deletes(w))
<1> DEFINE q == req[w]
<1>q. /\ q \in Request /\ q.target \in User /\ q.role \in Role /\ q.life \in 1 .. Never
  BY DEF TypeOK, Request
<1>1. Finish(w) \/ Goto(w, "fill") \/ Goto(w, "resolve") \/ Goto(w, "clear") \/ Goto(w, "load")
        => pc'[w] \notin {"assign", "revoke"}
           /\ \A x \in Worker \ {w} : pc'[x] = pc[x] /\ req'[x] = req[x]
  BY DEF Finish, Goto, Go, TypeOK
<1>2. CASE Query(w)
  <2>1. pc'[w] = "fill" /\ \A x \in Worker \ {w} : pc'[x] = pc[x] /\ req'[x] = req[x]
    BY <1>2 DEF Query, Go, Goto, TypeOK
  <2> QED
    BY <1>2, <2>1 DEF Moves, Keeps, Query
<1>3. CASE Fill(w) \/ Serve(w) \/ Clear(w) \/ InsertPermissions(w) \/ Publish(w)
  BY <1>1, <1>3 DEF Moves, Keeps, Fill, Serve, Clear, InsertPermissions, Publish
<1>4. CASE Load(w) \/ Resolve(w)
  <2>1. /\ pc'[w] \in {"publish", "handle"}
        /\ \A x \in Worker \ {w} : pc'[x] = pc[x] /\ req'[x] = req[x]
    BY <1>4 DEF Load, Resolve, Go, TypeOK
  <2> QED
    BY <1>4, <2>1 DEF Moves, Keeps, Load, Resolve
<1>5. CASE Assign(w)
  BY <1>q, <1>1, <1>5 DEF Assign, Moves, Keeps, Inserts
<1>6. CASE Revoke(w)
  BY <1>q, <1>1, <1>6 DEF Revoke, Moves, Keeps, Deletes
<1> QED
  BY <1>2, <1>3, <1>4, <1>5, <1>6

LEMMA BeginMoves ==
    ASSUME TypeOK, NEW w \in Worker, NEW u \in User, NEW r \in Role, NEW b \in SUBSET Key,
           NEW n \in {Lifetime, Never},
           \/ Arrive(w, u) \/ AssignModerator(w, u) \/ RevokeModerator(w, u)
           \/ BeginRevoke(w, u, r) \/ BeginAssign(w, u, r, n) \/ SetPermissions(w, b)
    PROVE  Moves(w) /\ (Keeps(w) \/ Inserts(w) \/ Deletes(w))
<1> DEFINE q == req[w]
<1>q. q \in Request
  BY DEF TypeOK
<1>1. CASE Arrive(w, u)
  <2>1. /\ pc'[w] \in {"query", "resolve"}
        /\ \A x \in Worker \ {w} : pc'[x] = pc[x] /\ req'[x] = req[x]
    BY <1>1 DEF Arrive, Go, TypeOK
  <2> QED
    BY <1>1, <2>1 DEF Moves, Keeps, Arrive
<1>2. CASE AssignModerator(w, u)
  <2>1. "moderator" \in Role /\ Never \in 1 .. Never
    BY RoleConstants DEF Role, Never
  <2>2. pc'[w] = "idle" /\ \A x \in Worker \ {w} : pc'[x] = pc[x] /\ req'[x] = req[x]
    BY <1>2, MovesOn DEF AssignModerator
  <2> QED
    BY <1>2, <2>1, <2>2 DEF Moves, Inserts, AssignModerator
<1>3. CASE RevokeModerator(w, u)
  <2>1. /\ pc'[w] = "clear"
        /\ \A x \in Worker \ {w} : pc'[x] = pc[x] /\ req'[x] = req[x]
    BY <1>3 DEF RevokeModerator, Go, TypeOK
  <2> QED
    BY <1>3, <2>1 DEF Moves, Deletes, RevokeModerator, Role
<1>4. CASE BeginRevoke(w, u, r)
  <2>1. /\ pc'[w] = "revoke" /\ req'[w].role = r
        /\ \A x \in Worker \ {w} : pc'[x] = pc[x] /\ req'[x] = req[x]
    BY <1>4, <1>q DEF BeginRevoke, Go, TypeOK, Request
  <2> QED
    BY <1>4, <2>1 DEF Moves, Keeps, BeginRevoke
<1>5. CASE BeginAssign(w, u, r, n)
  <2>1. /\ pc'[w] = "assign" /\ req'[w].life = n
        /\ \A x \in Worker \ {w} : pc'[x] = pc[x] /\ req'[x] = req[x]
    BY <1>5, <1>q DEF BeginAssign, Go, TypeOK, Request
  <2> QED
    BY <1>5, <2>1 DEF Moves, Keeps, BeginAssign
<1>6. CASE SetPermissions(w, b)
  <2>1. /\ pc'[w] \in {"insert", "load"}
        /\ \A x \in Worker \ {w} : pc'[x] = pc[x] /\ req'[x] = req[x]
    BY <1>6 DEF SetPermissions, Go, TypeOK
  <2> QED
    BY <1>6, <2>1 DEF Moves, Keeps, SetPermissions
<1> QED
  BY <1>1, <1>2, <1>3, <1>4, <1>5, <1>6

LEMMA NextMoves ==
    ASSUME TypeOK, Next, ~Tick
    PROVE  \E w \in Worker : Moves(w) /\ (Keeps(w) \/ Inserts(w) \/ Deletes(w))
<1>1. "admin" \in Role /\ {} \in SUBSET Key /\ Never \in {Lifetime, Never}
      /\ world.grants \subseteq SUBSET Key
  BY RoleConstants DEF TypeOK, World, Role
<1> QED
  BY <1>1, StepMoves, BeginMoves, RoleConstants DEF Next

LEMMA RowReplaced ==
    ASSUME TypeOK, NEW u \in User, NEW r \in Role, NEW n,
           user_roles' = [user_roles EXCEPT ![u][r] = n]
    PROVE  \A v \in User, x \in Role :
             user_roles'[v][x] = IF v = u /\ x = r THEN n ELSE user_roles[v][x]
  BY DEF TypeOK

LEMMA RowsLastKept ==
    ASSUME TypeOK, RowsLast, Next
    PROVE  RowsLast'
<1> SUFFICES ASSUME ~May("expiry")'
             PROVE  /\ \A u \in User, r \in Role : user_roles'[u][r] \in {NoRow, Never}
                    /\ \A w \in Worker : pc'[w] = "assign" => req'[w].life = Never
  BY DEF RowsLast, May
<1>1. CASE Tick
  <2>1. ~May("expiry")
    BY <1>1 DEF Tick, May
  <2>2. \A u \in User, r \in Role : user_roles'[u][r] = Older(user_roles[u][r])
    BY <1>1 DEF Tick
  <2> QED
    BY <1>1, <2>1, <2>2 DEF RowsLast, Older, Tick
<1>2. CASE ~Tick
  <2>1. PICK w \in Worker : Moves(w) /\ (Keeps(w) \/ Inserts(w) \/ Deletes(w))
    BY <1>2, NextMoves
  <2>2. ~May("expiry")
    BY <2>1 DEF Moves, May
  <2>3. \A x \in Worker : pc'[x] = "assign" => req'[x].life = Never
    BY <2>1, <2>2 DEF Moves, RowsLast
  <2>4. CASE Keeps(w)
    BY <2>2, <2>3, <2>4 DEF Keeps, RowsLast
  <2>5. CASE Inserts(w)
    <3>1. PICK u \in User, r \in Role, n \in 1 .. Never :
            Insert(u, r, n) /\ (n = Never \/ (pc[w] = "assign" /\ n = req[w].life))
      BY <2>5 DEF Inserts
    <3>2. n = Never
      BY <2>2, <3>1 DEF RowsLast
    <3>3. user_roles' = [user_roles EXCEPT ![u][r] = Never]
      BY <3>1, <3>2 DEF Insert
    <3> QED
      BY <2>2, <2>3, <3>3, RowReplaced DEF RowsLast
  <2>6. CASE Deletes(w)
    <3>1. PICK u \in User, r \in Role : Delete(u, r)
      BY <2>6 DEF Deletes
    <3> QED
      BY <2>2, <2>3, <3>1, RowReplaced DEF RowsLast, Delete
  <2> QED
    BY <2>1, <2>4, <2>5, <2>6
<1> QED
  BY <1>1, <1>2

(* More than one of a finite set: one besides any given.                   *)
LEMMA OneBesides ==
    ASSUME NEW S, IsFiniteSet(S), ~(Cardinality(S) <= 1), NEW v
    PROVE  \E u \in S : u # v
<1> SUFFICES ASSUME \A u \in S : u = v PROVE FALSE
  OBVIOUS
<1>1. S \subseteq {v}
  OBVIOUS
<1>2. IsFiniteSet({v}) /\ Cardinality({v}) = 1
  BY FS_Singleton
<1>3. Cardinality(S) <= 1
  BY <1>1, <1>2, FS_Subset
<1> QED
  BY <1>3

LEMMA AnotherStaysKept ==
    ASSUME TypeOK, AdminInv, Next
    PROVE  AnotherStays'
<1> SUFFICES ASSUME ~May("revocations")', ~May("expiry")'
             PROVE  /\ Admins' # {}
                    /\ \A w, x \in Worker : RevokesAdmin(w)' /\ RevokesAdmin(x)' => w = x
                    /\ \A w \in Worker : RevokesAdmin(w)' =>
                           \E u \in Admins' : u # req'[w].target
  BY DEF AnotherStays, May
<1>a. "admin" \in Role /\ "admin" # "moderator" /\ Admins \subseteq User
  BY DEF Role, Admins
<1>f. IsFiniteSet(Admins)
  BY <1>a, RoleConstants, FS_Subset
<1>1. CASE Tick
  <2>1. ~May("revocations") /\ ~May("expiry")
    BY <1>1 DEF Tick, May
  <2>2. \A u \in User : user_roles'[u]["admin"] = user_roles[u]["admin"]
    BY <1>1, <1>a, <2>1 DEF Tick, AdminInv, RowsLast, Older
  <2>3. Admins' = Admins
    BY <2>2 DEF Admins, Holds
  <2> QED
    BY <1>1, <2>1, <2>3 DEF AdminInv, AnotherStays, RevokesAdmin, Tick
<1>2. CASE ~Tick
  <2>1. PICK w \in Worker : Moves(w) /\ (Keeps(w) \/ Inserts(w) \/ Deletes(w))
    BY <1>2, NextMoves
  <2>2. ~May("revocations") /\ ~May("expiry")
    BY <2>1 DEF Moves, May
  <2>3. AnotherStays /\ RowsLast
    BY DEF AdminInv
  <2>4. \A x \in Worker \ {w} : RevokesAdmin(x)' = RevokesAdmin(x)
    BY <2>1 DEF Moves, RevokesAdmin
  <2>5. RevokesAdmin(w)' => /\ UNCHANGED user_roles
                            /\ \A x \in Worker \ {w} : ~RevokesAdmin(x)
                            /\ \E u \in Admins : u # req'[w].target
    <3> SUFFICES ASSUME RevokesAdmin(w)'
                 PROVE  /\ UNCHANGED user_roles
                        /\ \A x \in Worker \ {w} : ~RevokesAdmin(x)
                        /\ \E u \in Admins : u # req'[w].target
      OBVIOUS
    <3>1. UNCHANGED user_roles /\ MayRevoke(w, "admin") /\ ~LastAdmin("admin")
      BY <2>1 DEF Moves, RevokesAdmin
    <3> QED
      BY <1>f, <2>2, <3>1, OneBesides DEF MayRevoke, LastAdmin, RevokesAdmin
  <2>6. \A y, x \in Worker : RevokesAdmin(y)' /\ RevokesAdmin(x)' => y = x
    BY <2>2, <2>3, <2>4, <2>5 DEF AnotherStays
  <2>7. CASE Keeps(w)
    <3>1. Admins' = Admins
      BY <2>7 DEF Keeps, Admins, Holds
    <3> QED
      BY <2>1, <2>2, <2>3, <2>4, <2>5, <2>6, <3>1 DEF AnotherStays, Moves
  <2>8. CASE Inserts(w)
    <3>1. PICK u \in User, r \in Role, n \in 1 .. Never : Insert(u, r, n)
      BY <2>8 DEF Inserts
    <3>2. n > 0
      OBVIOUS
    <3>3. Admins \subseteq Admins'
      BY <1>a, <3>1, <3>2, RowReplaced DEF Insert, Admins, Holds
    <3>4. \A x \in Worker : RevokesAdmin(x)' => \E v \in Admins : v # req'[x].target
      BY <2>1, <2>2, <2>3, <2>4, <2>5 DEF AnotherStays, Moves
    <3> QED
      BY <2>2, <2>3, <2>6, <3>3, <3>4 DEF AnotherStays
  <2>9. CASE Deletes(w)
    <3>1. PICK u \in User, r \in Role :
            /\ Delete(u, r)
            /\ r = "moderator" \/ (pc[w] = "revoke" /\ r = req[w].role /\ u = req[w].target)
      BY <2>9 DEF Deletes
    <3>2. CASE r # "admin"
      <4>1. \A v \in User : user_roles'[v]["admin"] = user_roles[v]["admin"]
        BY <1>a, <3>1, <3>2, RowReplaced DEF Delete
      <4>2. Admins' = Admins
        BY <4>1 DEF Admins, Holds
      <4> QED
        BY <2>1, <2>2, <2>3, <2>4, <2>5, <2>6, <4>2 DEF AnotherStays, Moves
    <3>3. CASE r = "admin"
      <4>1. RevokesAdmin(w) /\ u = req[w].target
        BY <1>a, <3>1, <3>3 DEF RevokesAdmin
      <4>2. \A v \in User : v # u => user_roles'[v]["admin"] = user_roles[v]["admin"]
        BY <1>a, <3>1, RowReplaced DEF Delete
      <4>3. \E v \in Admins : v # u
        BY <2>2, <2>3, <4>1 DEF AnotherStays
      <4>4. Admins' # {}
        BY <4>2, <4>3 DEF Admins, Holds
      <4>5. \A x \in Worker : ~RevokesAdmin(x)'
        <5>1. \A x \in Worker \ {w} : ~RevokesAdmin(x)
          BY <2>2, <2>3, <4>1 DEF AnotherStays
        <5>2. ~RevokesAdmin(w)'
          <6>1. user_roles[u][r] # NoRow /\ user_roles'[u][r] = NoRow
            <7>1. /\ user_roles[u][r] # NoRow
                  /\ user_roles' = [user_roles EXCEPT ![u][r] = NoRow]
              BY <3>1 DEF Delete
            <7> QED
              BY <7>1 DEF TypeOK
          <6> QED
            BY <2>5, <6>1
        <5> QED
          BY <2>4, <5>1, <5>2
      <4> QED
        BY <4>4, <4>5
    <3> QED
      BY <3>2, <3>3
  <2> QED
    BY <2>1, <2>7, <2>8, <2>9
<1> QED
  BY <1>1, <1>2

LEMMA NextAdmin == TypeOK /\ AdminInv /\ [Next]_vars => AdminInv'
<1> SUFFICES ASSUME TypeOK, AdminInv, [Next]_vars PROVE AdminInv'
  OBVIOUS
<1>1. CASE Next
  BY <1>1, RowsLastKept, AnotherStaysKept DEF AdminInv
<1>2. CASE UNCHANGED vars
  BY <1>2 DEF vars, AdminInv, RowsLast, AnotherStays, RevokesAdmin, Admins, Holds, May
<1> QED
  BY <1>1, <1>2

LEMMA AdminAlways == Spec => []AdminInv
  BY InitAdmin, NextAdmin, RolesTypeCorrect, PTL DEF Spec

(* However requests overlap, an administrator is left: who revokes one has *)
(* counted more than one (revoke_role), as long as nobody else revokes     *)
(* one between the count and the delete and no assignment expires.         *)
THEOREM AdministratorLeft == Spec => []AlwaysAnAdmin
<1>1. AdminInv => AlwaysAnAdmin
  BY DEF AdminInv, AnotherStays, AlwaysAnAdmin
<1> QED
  BY <1>1, AdminAlways, PTL

-----------------------------------------------------------------------------
(***************************************************************************)
(* Where requests come one at a time and nothing fails, a cache entry says *)
(* what the rows say, but while the request that has changed them has not  *)
(* cleared it yet.                                                         *)
(***************************************************************************)

Matches(u, roles) ==
    roles \subseteq Effective(u) /\ Effective(u) \ {"moderator"} \subseteq roles

Settled(u) == cached[u].ttl > 0 => Matches(u, cached[u].roles)

Clears(w, u) == pc[w] = "clear" /\ req[w].target = u

SettledInv ==
    world.disturbance = {} =>
        /\ \A w, x \in Worker : w # x => pc[w] = "idle" \/ pc[x] = "idle"
        /\ \A u \in User : Settled(u) \/ \E w \in Worker : Clears(w, u)
        /\ \A w \in Worker : pc[w] = "fill" => req[w].roles = Effective(req[w].user)

LEMMA InitSettled == Init => SettledInv
<1> SUFFICES ASSUME Init PROVE SettledInv
  OBVIOUS
<1>1. \A u \in User : Settled(u)
  BY DEF Init, Settled, NotCached
<1> QED
  BY <1>1 DEF Init, SettledInv

(* What a step of the only request may do to the entries: where it changes *)
(* a row it goes on to clear the entry of that row's user, but for a       *)
(* moderator just made.                                                    *)
Alone(w) == \A x \in Worker \ {w} : pc[x] = "idle" /\ pc'[x] = "idle"

(* The rows stay and so does every entry: nothing was to be cleared. *)
StaysSettled(w) ==
    /\ UNCHANGED <<user_roles, cached>> /\ pc[w] # "clear"
    /\ pc'[w] = "fill" => req'[w].roles = Effective(req'[w].user)

LEMMA StaysKeeps ==
    ASSUME SettledInv, world.disturbance = {}, UNCHANGED world, NEW w \in Worker, Alone(w),
           StaysSettled(w)
    PROVE  SettledInv'
<1>1. \A u \in User : Settled(u)
  BY DEF SettledInv, Alone, StaysSettled, Clears
<1>2. \A u \in User : Settled(u)'
  BY <1>1 DEF StaysSettled, Settled, Matches, Effective, Holds
<1>3. pc'[w] = "fill" => req'[w].roles = {r \in Role : user_roles'[req'[w].user][r] > 0}
  BY DEF StaysSettled, Effective, Holds
<1>4. \A x \in Worker : pc'[x] = "fill" => x = w
  BY DEF Alone
<1> QED
  BY <1>2, <1>3, <1>4 DEF SettledInv, Alone, Effective, Holds

(* The roles of one user change, and the request goes on to clear the      *)
(* user's entry, or the role that came is the moderator's.                 *)
LEMMA ChangeSettles ==
    ASSUME TypeOK, SettledInv, world.disturbance = {}, UNCHANGED <<world, cached>>,
           NEW w \in Worker, Alone(w), pc[w] # "clear", pc'[w] # "fill",
           NEW u \in User, \A v \in User \ {u} : Effective(v)' = Effective(v),
           Clears(w, u)' \/ Effective(u)' = Effective(u) \cup {"moderator"}
    PROVE  SettledInv'
<1>1. \A v \in User : Settled(v)
  BY DEF SettledInv, Alone, Clears
<1>2. \A v \in User \ {u} : Settled(v)'
  BY <1>1 DEF Settled, Matches
<1>3. Settled(u)' \/ Clears(w, u)'
  BY <1>1 DEF Settled, Matches
<1> QED
  BY <1>2, <1>3 DEF SettledInv, Alone

LEMMA InsertChanges ==
    ASSUME TypeOK, NEW u \in User, NEW r \in Role, NEW n \in 1 .. Never, Insert(u, r, n)
    PROVE  /\ \A v \in User \ {u} : Effective(v)' = Effective(v)
           /\ Effective(u)' = Effective(u) \cup {r}
<1>1. user_roles' = [user_roles EXCEPT ![u][r] = n]
  BY DEF Insert
<1>2. \A v \in User, x \in Role :
        user_roles'[v][x] = IF v = u /\ x = r THEN n ELSE user_roles[v][x]
  BY <1>1 DEF TypeOK
<1>3. n > 0
  OBVIOUS
<1> QED
  BY <1>2, <1>3 DEF Effective, Holds

LEMMA DeleteChanges ==
    ASSUME TypeOK, NEW u \in User, NEW r \in Role, Delete(u, r)
    PROVE  \A v \in User \ {u} : Effective(v)' = Effective(v)
<1>1. user_roles' = [user_roles EXCEPT ![u][r] = NoRow]
  BY DEF Delete
<1>2. \A v \in User \ {u}, x \in Role : user_roles'[v][x] = user_roles[v][x]
  BY <1>1 DEF TypeOK
<1> QED
  BY <1>2 DEF Effective, Holds

LEMMA StepSettled ==
    ASSUME TypeOK, SettledInv, world.disturbance = {}, NEW w \in Worker, Alone(w),
           UNCHANGED world,
           \/ Query(w) \/ Fill(w) \/ Serve(w) \/ Assign(w) \/ Revoke(w) \/ Clear(w)
           \/ InsertPermissions(w) \/ Load(w) \/ Publish(w) \/ Resolve(w)
    PROVE  SettledInv'
<1> DEFINE q == req[w]
<1>q. /\ q \in Request /\ q.user \in User /\ q.roles \subseteq Role /\ q.target \in User
      /\ q.role \in Role /\ q.life \in 1 .. Never
  BY DEF TypeOK, Request
<1>n. ~May("cache_error") /\ ~May("db_error")
  BY DEF May
<1>1. CASE Query(w)
  <2>1. Go(w, "fill", [q EXCEPT !.roles = Effective(q.user)])
    BY <1>1, <1>n DEF Query
  <2>2. /\ req'[w].roles = Effective(req'[w].user)
    BY <2>1, <1>q DEF Go, TypeOK, Request
  <2> QED
    BY <1>1, <2>2, StaysKeeps DEF Query, StaysSettled
<1>2. CASE Fill(w)
  <2>1. pc'[w] = "resolve"
    BY <1>2, MovesOn DEF Fill
  <2>2. \A v \in User : Effective(v)' = Effective(v)
    BY <1>2 DEF Fill, Effective, Holds
  <2>3. \A u \in User : cached'[u] = IF u = q.user THEN [roles |-> q.roles, ttl |-> Ttl]
                                     ELSE cached[u]
    BY <1>2 DEF Fill, TypeOK
  <2>4. q.roles = Effective(q.user)
    BY <1>2 DEF Fill, SettledInv
  <2>5. \A u \in User : Settled(u)
    BY <1>2 DEF SettledInv, Alone, Clears, Fill
  <2>6. ASSUME NEW u \in User PROVE Settled(u)'
    <3>1. CASE u = q.user
      <4>1. cached'[u].roles = Effective(u)'
        BY <3>1, <2>2, <2>3, <2>4
      <4> QED
        BY <4>1 DEF Settled, Matches
    <3>2. CASE u # q.user
      <4>1. cached'[u] = cached[u] /\ Settled(u) /\ Effective(u)' = Effective(u)
        BY <3>2, <2>2, <2>3, <2>5
      <4> QED
        BY <4>1 DEF Settled, Matches
    <3> QED
      BY <3>1, <3>2
  <2> QED
    BY <2>1, <2>6 DEF SettledInv, Alone
<1>3. CASE Serve(w) \/ Publish(w) \/ InsertPermissions(w)
  <2>1. pc'[w] \in {"idle", "load"}
    BY <1>3, MovesOn DEF Serve, Publish, InsertPermissions
  <2>2. UNCHANGED <<user_roles, cached>> /\ pc[w] # "clear"
    BY <1>3 DEF Serve, Publish, InsertPermissions
  <2> QED
    BY <2>1, <2>2, StaysKeeps DEF StaysSettled
<1>4. CASE Load(w) \/ Resolve(w)
  <2>1. pc'[w] \in {"publish", "handle"}
    BY <1>4, MovesOn DEF Load, Resolve
  <2> QED
    BY <1>4, <2>1, StaysKeeps DEF Load, Resolve, StaysSettled
<1>5. CASE Assign(w)
  <2>1. CASE Insert(q.target, q.role, q.life) /\ Goto(w, "clear")
    <3>1. pc'[w] = "clear" /\ req'[w] = q
      BY <2>1, MovesOn
    <3>2. \A v \in User \ {q.target} : Effective(v)' = Effective(v)
      BY <1>q, <2>1, InsertChanges
    <3>3. Clears(w, q.target)'
      BY <3>1 DEF Clears
    <3> QED
      BY <1>q, <1>5, <3>1, <3>2, <3>3, ChangeSettles DEF Assign
  <2>2. CASE Finish(w) /\ UNCHANGED <<user_roles, lost>>
    <3>1. pc'[w] = "idle"
      BY <2>2, MovesOn
    <3> QED
      BY <1>5, <2>2, <3>1, StaysKeeps DEF Assign, StaysSettled
  <2> QED
    BY <1>5, <2>1, <2>2 DEF Assign
<1>6. CASE Revoke(w)
  <2>1. CASE Delete(q.target, q.role) /\ Goto(w, "clear")
    <3>1. pc'[w] = "clear" /\ req'[w] = q
      BY <2>1, MovesOn
    <3>2. \A v \in User \ {q.target} : Effective(v)' = Effective(v)
      BY <1>q, <2>1, DeleteChanges
    <3>3. Clears(w, q.target)'
      BY <3>1 DEF Clears
    <3> QED
      BY <1>q, <1>6, <3>1, <3>2, <3>3, ChangeSettles DEF Revoke
  <2>2. CASE Finish(w) /\ UNCHANGED user_roles
    <3>1. pc'[w] = "idle"
      BY <2>2, MovesOn
    <3> QED
      BY <1>6, <2>2, <3>1, StaysKeeps DEF Revoke, StaysSettled
  <2> QED
    BY <1>6, <2>1, <2>2 DEF Revoke
<1>7. CASE Clear(w)
  <2>1. pc'[w] = "idle"
    BY <1>7, MovesOn DEF Clear
  <2>2. \A u \in User : cached'[u] = IF u = q.target THEN NotCached ELSE cached[u]
    BY <1>7, <1>n DEF Clear, TypeOK
  <2>3. \A u \in User \ {q.target} : Settled(u)
    BY DEF SettledInv, Clears, Alone
  <2>4. \A v \in User : Effective(v)' = Effective(v)
    BY <1>7 DEF Clear, Effective, Holds
  <2>5. \A u \in User : Settled(u)'
    BY <2>2, <2>3, <2>4 DEF Settled, Matches, NotCached
  <2> QED
    BY <2>1, <2>5 DEF SettledInv, Alone
<1> QED
  BY <1>1, <1>2, <1>3, <1>4, <1>5, <1>6, <1>7

LEMMA BeginSettled ==
    ASSUME TypeOK, SettledInv, world.disturbance = {}, NEW w \in Worker, Alone(w),
           UNCHANGED world,
           NEW u \in User, NEW r \in Role, NEW b \in SUBSET Key, NEW n \in {Lifetime, Never},
           \/ Arrive(w, u) \/ AssignModerator(w, u) \/ RevokeModerator(w, u)
           \/ BeginRevoke(w, u, r) \/ BeginAssign(w, u, r, n) \/ SetPermissions(w, b)
    PROVE  SettledInv'
<1>q. req[w] \in Request
  BY DEF TypeOK
<1>1. CASE Arrive(w, u) \/ BeginRevoke(w, u, r) \/ BeginAssign(w, u, r, n)
           \/ SetPermissions(w, b)
  <2>1. pc'[w] # "fill"
    BY <1>1 DEF Arrive, BeginRevoke, BeginAssign, SetPermissions, Go, TypeOK
  <2>2. UNCHANGED <<user_roles, cached>> /\ pc[w] # "clear"
    BY <1>1 DEF Arrive, BeginRevoke, BeginAssign, SetPermissions, Manages
  <2> QED
    BY <2>1, <2>2, StaysKeeps DEF StaysSettled
<1>2. CASE AssignModerator(w, u)
  <2>1. "moderator" \in Role /\ Never \in 1 .. Never
    BY RoleConstants DEF Role, Never
  <2>2. /\ \A v \in User \ {u} : Effective(v)' = Effective(v)
        /\ Effective(u)' = Effective(u) \cup {"moderator"}
    BY <1>2, <2>1, InsertChanges DEF AssignModerator
  <2>3. pc'[w] = "idle"
    BY <1>2, MovesOn DEF AssignModerator
  <2>4. pc[w] # "clear" /\ UNCHANGED cached
    BY <1>2 DEF AssignModerator, Manages
  <2> QED
    BY <2>2, <2>3, <2>4, ChangeSettles
<1>3. CASE RevokeModerator(w, u)
  <2>1. "moderator" \in Role
    BY DEF Role
  <2>2. \A v \in User \ {u} : Effective(v)' = Effective(v)
    BY <1>3, <2>1, DeleteChanges DEF RevokeModerator
  <2>3. pc'[w] = "clear" /\ req'[w].target = u
    BY <1>3, <1>q DEF RevokeModerator, Go, TypeOK, Request
  <2>4. pc[w] # "clear" /\ UNCHANGED cached
    BY <1>3 DEF RevokeModerator, Manages
  <2> QED
    BY <2>2, <2>3, <2>4, ChangeSettles DEF Clears
<1> QED
  BY <1>1, <1>2, <1>3

LEMMA TickSettled ==
    ASSUME TypeOK, SettledInv, RowsLast, world.disturbance = {}, Tick
    PROVE  SettledInv'
<1>1. \A u \in User, r \in Role : user_roles'[u][r] = user_roles[u][r]
  BY DEF Tick, RowsLast, May, Older
<1>2. \A u \in User : Effective(u)' = Effective(u)
  BY <1>1 DEF Effective, Holds
<1>3. \A w \in Worker : pc[w] = "idle" /\ pc'[w] = "idle"
  BY DEF Tick, Quiet, Idle
<1>4. ASSUME NEW u \in User PROVE Settled(u)'
  <2>1. Settled(u)
    BY <1>3 DEF SettledInv, Clears
  <2>2. cached[u] \in [roles: SUBSET Role, ttl: 0 .. Ttl]
    BY DEF TypeOK
  <2>3. \/ cached'[u].ttl = 0
        \/ cached[u].ttl > 0 /\ cached'[u].roles = cached[u].roles
    BY <2>2 DEF Tick, NotCached
  <2> QED
    BY <1>2, <2>1, <2>3 DEF Settled, Matches
<1> QED
  BY <1>3, <1>4 DEF SettledInv

(* The one request in flight is the one that takes the step.               *)
LEMMA StepAlone ==
    ASSUME TypeOK, SettledInv, world.disturbance = {}, NEW w \in Worker, Moves(w),
           pc[w] # "idle" \/ Quiet
    PROVE  Alone(w)
  BY DEF SettledInv, Moves, Alone, Quiet, Idle

LEMMA NextSettled == TypeOK /\ RowsLast /\ SettledInv /\ [Next]_vars => SettledInv'
<1> SUFFICES ASSUME TypeOK, RowsLast, SettledInv, [Next]_vars PROVE SettledInv'
  OBVIOUS
<1>1. CASE UNCHANGED vars
  BY <1>1 DEF vars, SettledInv, Settled, Matches, Clears, Effective, Holds
<1>2. CASE Next /\ world.disturbance # {}
  <2>1. UNCHANGED world
    BY <1>2, NextMoves DEF Moves, Tick
  <2> QED
    BY <1>2, <2>1 DEF SettledInv
<1>3. CASE Tick /\ world.disturbance = {}
  BY <1>3, TickSettled
<1>4. ASSUME world.disturbance = {}, NEW w \in Worker,
             \/ Query(w) \/ Fill(w) \/ Serve(w) \/ Assign(w) \/ Revoke(w) \/ Clear(w)
             \/ InsertPermissions(w) \/ Load(w) \/ Publish(w) \/ Resolve(w)
      PROVE  SettledInv'
  <2>1. pc[w] # "idle"
    BY <1>4 DEF Query, Fill, Serve, Assign, Revoke, Clear, InsertPermissions, Load, Publish,
                Resolve
  <2>2. Moves(w)
    BY <1>4, StepMoves
  <2>3. UNCHANGED world
    BY <2>2 DEF Moves
  <2>4. Alone(w)
    BY <1>4, <2>1, <2>2, StepAlone
  <2> QED
    BY <1>4, <2>3, <2>4, StepSettled
<1>5. ASSUME world.disturbance = {}, NEW w \in Worker,
             NEW u \in User, NEW r \in Role, NEW b \in SUBSET Key, NEW n \in {Lifetime, Never},
             \/ Arrive(w, u) \/ AssignModerator(w, u) \/ RevokeModerator(w, u)
             \/ BeginRevoke(w, u, r) \/ BeginAssign(w, u, r, n) \/ SetPermissions(w, b)
      PROVE  SettledInv'
  <2>1. pc[w] # "idle" \/ Quiet
    BY <1>5 DEF Arrive, AssignModerator, RevokeModerator, BeginRevoke, BeginAssign,
                SetPermissions, Manages, May
  <2>2. Moves(w)
    BY <1>5, BeginMoves
  <2>3. UNCHANGED world
    BY <2>2 DEF Moves
  <2>4. Alone(w)
    BY <1>5, <2>1, <2>2, StepAlone
  <2> QED
    BY <1>5, <2>3, <2>4, BeginSettled
<1>6. "admin" \in Role /\ {} \in SUBSET Key /\ Never \in {Lifetime, Never}
      /\ world.grants \subseteq SUBSET Key
  BY RoleConstants DEF TypeOK, World, Role
<1> QED
  BY <1>1, <1>2, <1>3, <1>4, <1>5, <1>6, RoleConstants DEF Next

(* What a request is served with is never older than a cache entry may be; *)
(* and where requests come one at a time and nothing fails, an entry says  *)
(* between them what the rows say, but for a moderator just made           *)
(* (resolve_permissions, the handlers that clear the entry).               *)
THEOREM RolesServedAlways == Spec => []RolesServed
<1>1. SettledInv => CacheSettles
  BY DEF SettledInv, CacheSettles, Settled, Matches, Clears, Quiet, Idle
<1>2. AdminInv => RowsLast
  BY DEF AdminInv
<1>3. Spec => []SettledInv
  BY <1>2, InitSettled, NextSettled, AdminAlways, RolesTypeCorrect, PTL DEF Spec
<1>4. TypeOK /\ StaleForTtlAtMost /\ CacheSettles => RolesServed
  BY DEF RolesServed
<1> QED
  BY <1>1, <1>3, <1>4, RolesTypeCorrect, StaleAlways, PTL

-----------------------------------------------------------------------------
(***************************************************************************)
(* Sessions: type correctness.                                             *)
(***************************************************************************)

LEMMA Constants ==
    ASSUME SessionConstants
    PROVE  /\ SessionWorlds \subseteq SessionWorld
           /\ AccessTtl \in Nat /\ AccessTtl > 0 /\ RefreshTtl \in Nat /\ RefreshTtl > 0
           /\ ResetTtl \in Nat /\ ResetTtl > 0 /\ Attempts \in Nat /\ Attempts > 0
           /\ LockTime \in Nat /\ LockTime > 0 /\ BanTime \in Nat /\ BanTime > 0
           /\ Cardinality(Client) \in Nat /\ IsFiniteSet(Client)
           /\ MaxGuesses \in Nat /\ Forever \in Nat
  BY FS_CardinalityType DEF SessionConstants, MaxGuesses, Forever

LEMMA NoErrandTyped ==
    ASSUME SessionConstants
    PROVE  NoErrand \in Errand
  BY Constants DEF NoErrand, Errand, Forever

LEMMA SettleTyped ==
    ASSUME SessionConstants, SessionTypeOK, NEW x \in Actor, Settle(x)
    PROVE  session_pc' \in [Actor -> SessionStage] /\ session_req' \in [Actor -> Errand]
  BY NoErrandTyped DEF SessionTypeOK, Settle, SessionStage

LEMMA MoveTyped ==
    ASSUME SessionTypeOK, NEW x \in Actor, NEW label \in SessionStage, Move(x, label)
    PROVE  session_pc' \in [Actor -> SessionStage] /\ session_req' \in [Actor -> Errand]
  BY DEF SessionTypeOK, Move

LEMMA BeginTyped ==
    ASSUME SessionTypeOK, NEW x \in Actor, NEW label \in SessionStage, NEW r \in Errand,
           Begin(x, label, r)
    PROVE  session_pc' \in [Actor -> SessionStage] /\ session_req' \in [Actor -> Errand]
  BY DEF SessionTypeOK, Begin

LEMMA CapTyped ==
    ASSUME NEW limit \in Nat, NEW n \in Nat
    PROVE  /\ Cap(n, limit) \in 0 .. limit
           /\ Cap(n, limit) <= n
           /\ n <= limit => Cap(n, limit) = n
  BY DEF Cap

LEMMA InitTyped ==
    ASSUME SessionConstants, SessionInit
    PROVE  SessionTypeOK
<1>1. NoErrand \in Errand
  BY NoErrandTyped
<1>2. reset \in [left: 0 .. ResetTtl + 1, used: 0 .. ResetTtl + 1, changes: 0 .. 2]
  BY Constants DEF SessionInit
<1>3. keys \in [Token -> 0 .. RefreshTtl] /\ life \in [Token -> 0 .. RefreshTtl]
  BY Constants DEF SessionInit
<1> QED
  BY <1>1, <1>2, <1>3, Constants DEF SessionInit, SessionTypeOK, SessionStage

LEMMA ClientTypeOK ==
    ASSUME SessionConstants, SessionTypeOK, NEW c \in Client,
           \/ WrongPassword(c) \/ IncrementFailed(c) \/ LockUntil(c)
           \/ RightPassword(c) \/ ResetFailed(c) \/ Mint(c)
           \/ LoadUser(c) \/ ClaimToken(c) \/ SetPasswordHash(c)
    PROVE  SessionTypeOK'
<1>a. c \in Actor
  BY DEF Actor
<1>n. NoErrand \in Errand
  BY NoErrandTyped
<1>t. AccessTtl \in 1 .. AccessTtl
  BY Constants
<1>1. CASE WrongPassword(c)
  BY <1>1, <1>a, <1>n, BeginTyped
  DEF WrongPassword, SessionStage, SessionTypeOK, row, tokens, history
<1>2. CASE IncrementFailed(c)
  <2>1. failed_login_count' \in 0 .. Attempts
    BY <1>2, Constants DEF IncrementFailed, SessionTypeOK, Cap
  <2>2. guesses' \in 0 .. MaxGuesses
    BY <1>2, Constants DEF IncrementFailed, SessionTypeOK, Cap
  <2>3. session_pc' \in [Actor -> SessionStage] /\ session_req' \in [Actor -> Errand]
    BY <1>2, <1>a, SettleTyped, MoveTyped DEF IncrementFailed, SessionStage
  <2> QED
    BY <1>2, <2>1, <2>2, <2>3 DEF IncrementFailed, SessionTypeOK, tokens
<1>3. CASE LockUntil(c)
  <2>1. locked_until' \in 0 .. LockTime
    BY <1>3, Constants DEF LockUntil
  <2> QED
    BY <1>3, <2>1, <1>a, SettleTyped DEF LockUntil, SessionTypeOK, tokens, history
<1>4. CASE RightPassword(c)
  BY <1>4, <1>a, <1>n, BeginTyped
  DEF RightPassword, SessionStage, SessionTypeOK, row, tokens, history
<1>5. CASE ResetFailed(c)
  <2>1. failed_login_count' \in 0 .. Attempts /\ locked_until' \in 0 .. LockTime
        /\ guesses' \in 0 .. MaxGuesses
    BY <1>5, Constants DEF ResetFailed
  <2> QED
    BY <1>5, <2>1, <1>a, MoveTyped DEF ResetFailed, SessionTypeOK, tokens, SessionStage
<1>6. CASE Mint(c)
  <2>1. keys' \in [Token -> 0 .. RefreshTtl] /\ life' \in [Token -> 0 .. RefreshTtl]
    BY <1>6, Constants DEF Mint, SessionTypeOK, tokens
  <2>2. access' \subseteq 1 .. AccessTtl
    BY <1>6, <1>t DEF Mint, SessionTypeOK, tokens
  <2>3. late' \subseteq Token
    BY <1>6 DEF Mint, SessionTypeOK, tokens
  <2> QED
    BY <1>6, <2>1, <2>2, <2>3, <1>a, SettleTyped DEF Mint, SessionTypeOK, row
<1>7. CASE LoadUser(c)
  <2>1. access' \subseteq 1 .. AccessTtl
    BY <1>7, <1>t DEF LoadUser, SessionTypeOK
  <2> QED
    BY <1>7, <2>1, <1>a, SettleTyped DEF LoadUser, SessionTypeOK, row, history
<1>8. CASE ClaimToken(c)
  <2>1. reset' \in [left: 0 .. ResetTtl + 1, used: 0 .. ResetTtl + 1, changes: 0 .. 2]
    BY <1>8, Constants DEF ClaimToken, SessionTypeOK
  <2> QED
    BY <1>8, <2>1, <1>a, <1>n, BeginTyped
    DEF ClaimToken, SessionStage, SessionTypeOK, row, tokens, history
<1>9. CASE SetPasswordHash(c)
  <2>1. reset' \in [left: 0 .. ResetTtl + 1, used: 0 .. ResetTtl + 1, changes: 0 .. 2]
    BY <1>9, Constants DEF SetPasswordHash, SessionTypeOK, Cap
  <2> QED
    BY <1>9, <2>1, <1>a, SettleTyped DEF SetPasswordHash, SessionTypeOK, row, tokens, history
<1> QED
  BY <1>1, <1>2, <1>3, <1>4, <1>5, <1>6, <1>7, <1>8, <1>9

LEMMA TokenTypeOK ==
    ASSUME SessionConstants, SessionTypeOK, NEW c \in Client, NEW r \in Token,
           BeginRefresh(c, r) \/ Logout(c, r)
    PROVE  SessionTypeOK'
<1>a. c \in Actor
  BY DEF Actor
<1>1. CASE BeginRefresh(c, r)
  <2>1. [NoErrand EXCEPT !.token = r] \in Errand
    BY Constants DEF NoErrand, Errand, Forever
  <2> QED
    BY <1>1, <1>a, <2>1, BeginTyped
    DEF BeginRefresh, SessionStage, SessionTypeOK, row, tokens, history
<1>2. CASE Logout(c, r)
  <2>1. keys' \in [Token -> 0 .. RefreshTtl]
    BY <1>2, Constants DEF Logout, SessionTypeOK
  <2> QED
    BY <1>2, <2>1 DEF Logout, SessionTypeOK, row, history
<1> QED
  BY <1>1, <1>2

LEMMA BanRowTypeOK ==
    ASSUME SessionConstants, SessionTypeOK, NEW m \in Moderator, NEW op \in {"ban", "temp_ban"},
           NEW until \in {0, BanTime, Forever}, BanRow(m, op, until)
    PROVE  SessionTypeOK'
<1>1. m \in Actor
  BY DEF Actor
<1>2. until \in 0 .. Forever
  BY Constants DEF Forever
<1>3. [NoErrand EXCEPT !.until = until, !.op = op] \in Errand
  BY <1>2 DEF NoErrand, Errand
<1>4. since' \in 0 .. AccessTtl
  BY Constants DEF BanRow, SessionTypeOK
<1> QED
  BY <1>1, <1>2, <1>3, <1>4, BeginTyped DEF BanRow, SessionStage, SessionTypeOK, tokens

LEMMA ModeratorTypeOK ==
    ASSUME SessionConstants, SessionTypeOK, NEW m \in Moderator,
           \/ Ban(m) \/ TempBan(m) \/ SetFlag(m) \/ SweepSessions(m) \/ UnbanRow(m)
           \/ DropFlag(m)
    PROVE  SessionTypeOK'
<1>a. m \in Actor
  BY DEF Actor
<1>1. CASE Ban(m) \/ TempBan(m)
  BY <1>1, BanRowTypeOK DEF Ban, TempBan
<1>2. CASE SetFlag(m)
  <2>1. session_req[m].until \in 0 .. Forever
    BY <1>a DEF SessionTypeOK, Errand
  <2> QED
    BY <1>2, <1>a, <2>1, MoveTyped DEF SetFlag, SessionTypeOK, SessionStage, row, tokens, history
<1>3. CASE SweepSessions(m)
  <2>1. keys' \in [Token -> 0 .. RefreshTtl]
    BY <1>3, Constants DEF SweepSessions, SessionTypeOK
  <2> QED
    BY <1>3, <1>a, <2>1, SettleTyped DEF SweepSessions, SessionTypeOK, row, history
<1>4. CASE UnbanRow(m)
  <2>1. NoErrand \in Errand
    BY NoErrandTyped
  <2>2. banned_until' \in 0 .. Forever /\ since' \in 0 .. AccessTtl
    BY <1>4, Constants DEF UnbanRow
  <2> QED
    BY <1>4, <1>a, <2>1, <2>2, BeginTyped DEF UnbanRow, SessionTypeOK, SessionStage, tokens
<1>5. CASE DropFlag(m)
  <2>1. flag' \in 0 .. Forever
    BY <1>5, Constants DEF DropFlag, SessionTypeOK
  <2> QED
    BY <1>5, <1>a, <2>1, SettleTyped DEF DropFlag, SessionTypeOK, row, tokens, history
<1> QED
  BY <1>1, <1>2, <1>3, <1>4, <1>5

LEMMA ForgotTypeOK ==
    ASSUME SessionConstants, SessionTypeOK, ForgotPassword
    PROVE  SessionTypeOK'
<1>1. reset' \in [left: 0 .. ResetTtl + 1, used: 0 .. ResetTtl + 1, changes: 0 .. 2]
  BY Constants DEF ForgotPassword, SessionTypeOK
<1> QED
  BY <1>1 DEF ForgotPassword, SessionTypeOK, row, tokens, history

LEMMA LessTyped ==
    ASSUME NEW limit \in Nat, NEW n \in 0 .. limit
    PROVE  Less(n) \in 0 .. limit /\ Less(n) <= n
  BY DEF Less

LEMMA TickTyped ==
    ASSUME SessionConstants, SessionTypeOK, TimePasses
    PROVE  SessionTypeOK'
<1>1. locked_until' \in 0 .. LockTime
  BY Constants, LessTyped DEF SessionTypeOK, TimePasses
<1>2. guesses' \in 0 .. MaxGuesses
  BY Constants DEF SessionTypeOK, TimePasses
<1>3. banned_until' \in 0 .. Forever
  BY Constants, LessTyped DEF SessionTypeOK, TimePasses
<1>4. since' \in 0 .. AccessTtl
  BY Constants, CapTyped DEF SessionTypeOK, TimePasses
<1>5. flag' \in 0 .. Forever
  BY Constants, LessTyped DEF SessionTypeOK, TimePasses
<1>6. keys' \in [Token -> 0 .. RefreshTtl] /\ life' \in [Token -> 0 .. RefreshTtl]
  BY Constants, LessTyped DEF SessionTypeOK, TimePasses
<1>7. late' \subseteq Token
  BY DEF SessionTypeOK, TimePasses
<1>8. access' \subseteq 1 .. AccessTtl
  BY Constants DEF SessionTypeOK, TimePasses
<1>9. reset' \in [left: 0 .. ResetTtl + 1, used: 0 .. ResetTtl + 1, changes: 0 .. 2]
  <2>1. /\ reset.left \in 0 .. ResetTtl + 1 /\ reset.used \in 0 .. ResetTtl + 1
        /\ reset.changes \in 0 .. 2
    BY DEF SessionTypeOK
  <2>2. Less(reset.left) \in 0 .. ResetTtl + 1 /\ Less(reset.used) \in 0 .. ResetTtl + 1
    BY <2>1, Constants, LessTyped
  <2>3. reset \in [left: 0 .. ResetTtl + 1, used: 0 .. ResetTtl + 1, changes: 0 .. 2]
    BY DEF SessionTypeOK
  <2>4. CASE reset.left = 1
    BY <2>4, Constants DEF TimePasses
  <2>5. CASE reset.left # 1
    <3>1. reset' = [reset EXCEPT !.left = Less(reset.left), !.used = Less(reset.used)]
      BY <2>5 DEF TimePasses
    <3> QED
      BY <2>2, <2>3, <3>1
  <2> QED
    BY <2>4, <2>5
<1> QED
  BY <1>1, <1>2, <1>3, <1>4, <1>5, <1>6, <1>7, <1>8, <1>9 DEF SessionTypeOK, TimePasses

LEMMA RestartTypeOK ==
    ASSUME SessionConstants, SessionTypeOK, Restart
    PROVE  SessionTypeOK'
<1>1. NoErrand \in Errand
  BY NoErrandTyped
<1>2. reset' \in [left: 0 .. ResetTtl + 1, used: 0 .. ResetTtl + 1, changes: 0 .. 2]
  BY Constants DEF Restart, SessionTypeOK
<1>3. keys' \in [Token -> 0 .. RefreshTtl] /\ flag' \in 0 .. Forever
  BY Constants DEF Restart
<1> QED
  BY <1>1, <1>2, <1>3 DEF Restart, SessionTypeOK, SessionStage, row, history

LEMMA NextTyped ==
    ASSUME SessionConstants
    PROVE  SessionTypeOK /\ [SessionNext]_sessionVars => SessionTypeOK'
<1> SUFFICES ASSUME SessionTypeOK, [SessionNext]_sessionVars PROVE SessionTypeOK'
  OBVIOUS
<1>1. CASE UNCHANGED sessionVars
  BY <1>1 DEF sessionVars, SessionTypeOK, row, tokens, history
<1> QED
  BY <1>1, ClientTypeOK, TokenTypeOK, ModeratorTypeOK, ForgotTypeOK, TickTyped,
     RestartTypeOK DEF SessionNext

(* The row, the caches, the tokens and the requests keep their types.      *)
THEOREM SessionsTypeCorrect ==
    ASSUME SessionConstants
    PROVE  SessionSpec => []SessionTypeOK
  BY InitTyped, NextTyped, PTL DEF SessionSpec

-----------------------------------------------------------------------------
(***************************************************************************)
(* What the steps of a request do to the others.                           *)
(***************************************************************************)

Moderating == {"flag", "sweep", "unflag"}
Moderates(m) == session_pc[m] \in Moderating

OthersStay(x) == \A y \in Actor \ {x} : session_pc'[y] = session_pc[y] /\ session_req'[y] = session_req[y]

ClientStep(c) ==
    \/ WrongPassword(c) \/ IncrementFailed(c) \/ LockUntil(c)
    \/ RightPassword(c) \/ ResetFailed(c) \/ Mint(c)
    \/ LoadUser(c) \/ ClaimToken(c) \/ SetPasswordHash(c)
    \/ \E r \in Token : BeginRefresh(c, r) \/ Logout(c, r)

ModeratorStep(m) ==
    \/ Ban(m) \/ TempBan(m) \/ SetFlag(m) \/ SweepSessions(m) \/ UnbanRow(m) \/ DropFlag(m)

LEMMA ActorTyped == Client \subseteq Actor /\ Moderator \subseteq Actor
  BY DEF Actor

LEMMA GoesOn ==
    ASSUME SessionTypeOK, NEW x \in Actor
    PROVE  /\ \A label : Move(x, label) => session_pc'[x] = label /\ session_req'[x] = session_req[x] /\ OthersStay(x)
           /\ \A label, r : Begin(x, label, r) =>
                /\ session_pc[x] = "idle" /\ session_pc'[x] = label /\ session_req'[x] = r /\ OthersStay(x)
           /\ Settle(x) => session_pc'[x] = "idle" /\ session_req'[x] = NoErrand /\ OthersStay(x)
  BY DEF SessionTypeOK, Move, Begin, Settle, OthersStay

(* A client's request does not touch the ban.                              *)
LEMMA ClientMoves ==
    ASSUME SessionTypeOK, NEW c \in Client, ClientStep(c)
    PROVE  /\ UNCHANGED <<session_world, banned_until, flag, since>>
           /\ OthersStay(c) /\ session_pc[c] \notin Moderating /\ session_pc'[c] \notin Moderating
<1>a. c \in Actor
  BY ActorTyped
<1> USE DEF row, tokens, history, Moderating
<1>1. CASE WrongPassword(c) \/ RightPassword(c) \/ ClaimToken(c)
  BY <1>1, <1>a, GoesOn DEF WrongPassword, RightPassword, ClaimToken
<1>2. CASE IncrementFailed(c)
  BY <1>2, <1>a, GoesOn DEF IncrementFailed
<1>3. CASE LockUntil(c) \/ ResetFailed(c)
  BY <1>3, <1>a, GoesOn DEF LockUntil, ResetFailed
<1>4. CASE Mint(c) \/ LoadUser(c) \/ SetPasswordHash(c)
  BY <1>4, <1>a, GoesOn DEF Mint, LoadUser, SetPasswordHash
<1>5. CASE \E r \in Token : BeginRefresh(c, r)
  BY <1>5, <1>a, GoesOn DEF BeginRefresh
<1>6. CASE \E r \in Token : Logout(c, r)
  BY <1>6 DEF Logout, OthersStay
<1> QED
  BY <1>1, <1>2, <1>3, <1>4, <1>5, <1>6 DEF ClientStep

LEMMA ModeratorMoves ==
    ASSUME SessionTypeOK, NEW m \in Moderator, ModeratorStep(m)
    PROVE  /\ UNCHANGED <<session_world, failed_login_count, locked_until, life, access, reset,
                          guesses, late>>
           /\ OthersStay(m) /\ session_pc[m] \in Moderating \cup {"idle"}
           /\ session_pc'[m] \in Moderating \cup {"idle"}
<1>a. m \in Actor
  BY ActorTyped
<1> USE DEF row, tokens, history, Moderating
<1>1. CASE Ban(m) \/ TempBan(m)
  <2>1. PICK op \in {"ban", "temp_ban"}, until \in {0, BanTime, Forever} : BanRow(m, op, until)
    BY <1>1 DEF Ban, TempBan
  <2> QED
    BY <2>1, <1>a, GoesOn DEF BanRow
<1>2. CASE SetFlag(m)
  BY <1>2, <1>a, GoesOn DEF SetFlag
<1>3. CASE SweepSessions(m) \/ DropFlag(m)
  BY <1>3, <1>a, GoesOn DEF SweepSessions, DropFlag
<1>4. CASE UnbanRow(m)
  BY <1>4, <1>a, GoesOn DEF UnbanRow
<1> QED
  BY <1>1, <1>2, <1>3, <1>4 DEF ModeratorStep

LEMMA NextSteps ==
    ASSUME SessionNext
    PROVE  \/ \E c \in Client : ClientStep(c)
           \/ \E m \in Moderator : ModeratorStep(m)
           \/ ForgotPassword
           \/ TimePasses
           \/ Restart
  BY DEF SessionNext, ClientStep, ModeratorStep

-----------------------------------------------------------------------------
(***************************************************************************)
(* The flag follows the ban.                                               *)
(***************************************************************************)

(* One moderation at a time: what it has written to the row, it writes to  *)
(* the flag next.                                                          *)
FlagInv ==
    Calm =>
        /\ \A m, n \in Moderator : Moderates(m) /\ Moderates(n) => m = n
        /\ \A m \in Moderator :
            /\ session_pc[m] = "flag" => session_req[m].until = banned_until /\ Banned
            /\ session_pc[m] = "sweep" => flag = banned_until
            /\ session_pc[m] = "unflag" => ~Banned
        /\ (\A m \in Moderator : ~Moderates(m)) => flag = banned_until

LEMMA InitFlag == SessionInit => FlagInv
  BY ActorTyped DEF SessionInit, FlagInv, Moderates, Moderating

(* The moderators, the ban and the flag stay as they are.                  *)
LEMMA FlagUntouched ==
    ASSUME FlagInv, UNCHANGED <<session_world, banned_until, flag>>,
           \A m \in Moderator : \/ session_pc'[m] = session_pc[m] /\ session_req'[m] = session_req[m]
                                \/ ~Moderates(m) /\ ~Moderates(m)'
    PROVE  FlagInv'
<1>1. \A m \in Moderator : Moderates(m)' = Moderates(m)
  BY DEF Moderates
<1>2. \A m \in Moderator : session_pc'[m] \in Moderating => session_pc'[m] = session_pc[m] /\ session_req'[m] = session_req[m]
  BY DEF Moderates
<1> QED
  BY <1>1, <1>2 DEF FlagInv, Calm, Banned, Moderating

LEMMA ModeratorFlag ==
    ASSUME SessionConstants, SessionTypeOK, FlagInv, Calm, NEW m \in Moderator, ModeratorStep(m)
    PROVE  FlagInv'
<1>a. m \in Actor /\ OthersStay(m)
  BY ActorTyped, ModeratorMoves
<1>b. \A x \in Moderator \ {m} : x \in Actor /\ session_pc'[x] = session_pc[x] /\ session_req'[x] = session_req[x]
  BY <1>a, ActorTyped DEF OthersStay
<1>c. ~Can("cache_error") /\ ~Can("overlap") /\ ~Can("past")
  BY DEF Calm, Can
<1>d. Moderates(m) => \A x \in Moderator \ {m} : ~Moderates(x)
  BY DEF FlagInv
<1>e. MayModerate(m) => \A x \in Moderator \ {m} : ~Moderates(x)
  BY <1>c DEF MayModerate, Moderates, Moderating
<1>1. CASE Ban(m) \/ TempBan(m)
  <2>1. PICK op \in {"ban", "temp_ban"}, until \in {BanTime, Forever} : BanRow(m, op, until)
    BY <1>1, <1>c DEF Ban, TempBan
  <2>2. until # 0 /\ until \in 0 .. Forever
    BY Constants DEF Forever
  <2>3. /\ session_pc'[m] = "flag" /\ session_req'[m].until = until /\ banned_until' = until
        /\ \A x \in Moderator \ {m} : ~Moderates(x)
    <3>1. session_pc'[m] = "flag" /\ session_req'[m] = [NoErrand EXCEPT !.until = until, !.op = op]
      BY <2>1, <1>a, GoesOn DEF BanRow
    <3>2. [NoErrand EXCEPT !.until = until, !.op = op].until = until
      BY DEF NoErrand
    <3> QED
      BY <2>1, <3>1, <3>2, <1>e DEF BanRow
  <2> QED
    BY <2>2, <2>3, <1>b DEF FlagInv, Moderates, Moderating, Banned
<1>2. CASE SetFlag(m)
  <2>1. session_pc[m] = "flag" /\ session_pc'[m] = "sweep" /\ banned_until' = banned_until
    BY <1>2, <1>a, GoesOn DEF SetFlag, row
  <2>2. session_req[m].until = banned_until /\ Banned
    BY <2>1, <1>a DEF FlagInv
  <2>3. flag' = banned_until
    BY <1>2, <1>c, <2>2 DEF SetFlag, Banned
  <2>4. \A x \in Moderator \ {m} : ~Moderates(x)
    BY <1>d, <2>1 DEF Moderates, Moderating
  <2> QED
    BY <2>1, <2>3, <2>4, <1>b DEF FlagInv, Moderates, Moderating
<1>3. CASE SweepSessions(m)
  <2>1. session_pc[m] = "sweep" /\ session_pc'[m] = "idle" /\ UNCHANGED <<banned_until, flag>>
    BY <1>3, <1>a, GoesOn DEF SweepSessions, row
  <2>2. flag = banned_until
    BY <2>1 DEF FlagInv
  <2>4. \A x \in Moderator \ {m} : ~Moderates(x)
    BY <1>d, <2>1 DEF Moderates, Moderating
  <2> QED
    BY <2>1, <2>2, <2>4, <1>b DEF FlagInv, Moderates, Moderating
<1>4. CASE UnbanRow(m)
  <2>1. session_pc'[m] = "unflag" /\ banned_until' = 0 /\ MayModerate(m)
    BY <1>4, <1>a, GoesOn DEF UnbanRow
  <2> QED
    BY <2>1, <1>b, <1>e DEF FlagInv, Moderates, Moderating, Banned
<1>5. CASE DropFlag(m)
  <2>1. session_pc[m] = "unflag" /\ session_pc'[m] = "idle" /\ banned_until' = banned_until /\ flag' = 0
    BY <1>5, <1>a, <1>c, GoesOn DEF DropFlag, row
  <2>2. banned_until = 0
    BY <2>1 DEF FlagInv, Banned
  <2>4. \A x \in Moderator \ {m} : ~Moderates(x)
    BY <1>d, <2>1 DEF Moderates, Moderating
  <2> QED
    BY <2>1, <2>2, <2>4, <1>b DEF FlagInv, Moderates, Moderating
<1> QED
  BY <1>1, <1>2, <1>3, <1>4, <1>5 DEF ModeratorStep

LEMMA NextFlag ==
    ASSUME SessionConstants
    PROVE  SessionTypeOK /\ FlagInv /\ [SessionNext]_sessionVars => FlagInv'
<1> SUFFICES ASSUME SessionTypeOK, FlagInv, [SessionNext]_sessionVars PROVE FlagInv'
  OBVIOUS
<1>1. CASE UNCHANGED sessionVars
  BY <1>1, FlagUntouched DEF sessionVars, row
<1>2. ASSUME NEW c \in Client, ClientStep(c) PROVE FlagInv'
  <2>1. /\ UNCHANGED <<session_world, banned_until, flag>>
        /\ OthersStay(c) /\ session_pc[c] \notin Moderating /\ session_pc'[c] \notin Moderating
    BY <1>2, ClientMoves
  <2>2. \A m \in Moderator : \/ session_pc'[m] = session_pc[m] /\ session_req'[m] = session_req[m]
                             \/ ~Moderates(m) /\ ~Moderates(m)'
    BY <2>1, ActorTyped DEF OthersStay, Moderates
  <2> QED
    BY <2>1, <2>2, FlagUntouched
<1>3. ASSUME NEW m \in Moderator, ModeratorStep(m) PROVE FlagInv'
  <2>1. CASE Calm
    BY <1>3, <2>1, ModeratorFlag
  <2>2. CASE ~Calm
    <3>1. UNCHANGED session_world
      BY <1>3, ModeratorMoves
    <3> QED
      BY <2>2, <3>1 DEF FlagInv, Calm
  <2> QED
    BY <2>1, <2>2
<1>4. CASE ForgotPassword
  BY <1>4, FlagUntouched DEF ForgotPassword, row
<1>5. CASE TimePasses
  <2>1. \A m \in Moderator : session_pc[m] = "idle" /\ session_pc'[m] = "idle"
    BY <1>5, ActorTyped DEF TimePasses, AllIdle
  <2>2. Calm => flag = banned_until
    BY <2>1 DEF FlagInv, Moderates, Moderating
  <2>3. Calm' => flag' = banned_until'
    BY <1>5, <2>2 DEF TimePasses, Calm
  <2> QED
    BY <2>1, <2>3 DEF FlagInv, Moderates, Moderating
<1>6. CASE Restart
  <2>1. ~Calm'
    BY <1>6 DEF Restart, Calm, Can
  <2> QED
    BY <2>1 DEF FlagInv
<1> QED
  BY <1>1, <1>2, <1>3, <1>4, <1>5, <1>6, NextSteps

-----------------------------------------------------------------------------
(***************************************************************************)
(* A ban ends the sessions.                                                *)
(***************************************************************************)

(* A key lives no longer than its token; and who has banned the account    *)
(* and not yet swept its keys is at it still.                              *)
Sweeps == \E m \in Moderator : session_pc[m] \in {"flag", "sweep"}
KeysLeft == \E r \in Token \ late : keys[r] # 0

EndsInv ==
    /\ \A r \in Token : keys[r] <= life[r]
    /\ Calm /\ Banned /\ KeysLeft => Sweeps

LEMMA InitEnds == SessionInit => EndsInv
  BY DEF SessionInit, EndsInv, Banned

(* No key appears but for a token handed out during a ban.                 *)
LEMMA EndsUntouched ==
    ASSUME EndsInv, UNCHANGED <<session_world, banned_until>>,
           \A r \in Token : keys'[r] <= life'[r],
           Banned /\ KeysLeft' => KeysLeft,
           Sweeps => Sweeps'
    PROVE  EndsInv'
  BY DEF EndsInv, Calm, Banned

LEMMA ClientEnds ==
    ASSUME SessionConstants, SessionTypeOK, EndsInv, NEW c \in Client, ClientStep(c)
    PROVE  EndsInv'
<1>a. c \in Actor
  BY ActorTyped
<1>1. UNCHANGED <<session_world, banned_until>> /\ (Sweeps => Sweeps')
  <2>1. /\ UNCHANGED <<session_world, banned_until>>
        /\ OthersStay(c) /\ session_pc[c] \notin Moderating /\ session_pc'[c] \notin Moderating
    BY ClientMoves
  <2>2. \A m \in Moderator : session_pc[m] \in {"flag", "sweep"} => session_pc'[m] \in {"flag", "sweep"}
    BY <2>1, ActorTyped DEF OthersStay, Moderating
  <2> QED
    BY <2>1, <2>2 DEF Sweeps
<1>2. CASE UNCHANGED <<keys, life, late>>
  BY <1>1, <1>2, EndsUntouched DEF EndsInv, KeysLeft
<1>3. CASE Mint(c) /\ ~UNCHANGED <<keys, life, late>>
  <2>1. PICK r \in Token :
          /\ keys' = [keys EXCEPT ![r] = RefreshTtl]
          /\ life' = [life EXCEPT ![r] = RefreshTtl]
          /\ late' = IF Banned THEN late \cup {r} ELSE late \ {r}
    BY <1>3 DEF Mint, tokens
  <2>2. \A x \in Token : keys'[x] <= life'[x]
    BY <2>1, Constants DEF EndsInv, SessionTypeOK
  <2>3. Banned /\ KeysLeft' => KeysLeft
    BY <2>1 DEF KeysLeft, SessionTypeOK
  <2> QED
    BY <1>1, <2>2, <2>3, EndsUntouched
<1>4. CASE \E r \in Token : Logout(c, r)
  <2>1. PICK r \in Token : keys' = [keys EXCEPT ![r] = 0] /\ UNCHANGED <<life, late>>
    BY <1>4 DEF Logout, history
  <2>2. \A x \in Token : keys'[x] <= life'[x]
    BY <2>1, Constants DEF EndsInv, SessionTypeOK
  <2>3. KeysLeft' => KeysLeft
    BY <2>1 DEF KeysLeft, SessionTypeOK
  <2> QED
    BY <1>1, <2>2, <2>3, EndsUntouched
<1> QED
  BY <1>2, <1>3, <1>4
  DEF ClientStep, WrongPassword, IncrementFailed, LockUntil, RightPassword, ResetFailed,
      LoadUser, ClaimToken, SetPasswordHash, BeginRefresh, tokens, history

LEMMA ModeratorEnds ==
    ASSUME SessionConstants, SessionTypeOK, FlagInv, EndsInv, NEW m \in Moderator, ModeratorStep(m)
    PROVE  EndsInv'
<1>a. m \in Actor /\ OthersStay(m) /\ UNCHANGED <<session_world, life, late>>
  BY ActorTyped, ModeratorMoves
<1>b. \A x \in Moderator \ {m} : x \in Actor /\ session_pc'[x] = session_pc[x]
  BY <1>a, ActorTyped DEF OthersStay
<1>1. CASE Ban(m) \/ TempBan(m)
  <2>1. PICK op \in {"ban", "temp_ban"}, until \in {0, BanTime, Forever} : BanRow(m, op, until)
    BY <1>1 DEF Ban, TempBan
  <2>2. session_pc'[m] = "flag" /\ UNCHANGED keys
    BY <2>1, <1>a, GoesOn DEF BanRow, tokens
  <2> QED
    BY <1>a, <2>2 DEF EndsInv, Sweeps
<1>2. CASE SetFlag(m)
  <2>1. session_pc'[m] = "sweep" /\ UNCHANGED keys
    BY <1>2, <1>a, GoesOn DEF SetFlag, tokens
  <2> QED
    BY <1>a, <2>1 DEF EndsInv, Sweeps
<1>3. CASE SweepSessions(m)
  <2>1. banned_until' = banned_until /\ (keys' = [r \in Token |-> 0] \/ UNCHANGED keys)
    BY <1>3 DEF SweepSessions, row
  <2>2. \A r \in Token : keys'[r] <= life'[r]
    BY <1>a, <2>1, Constants DEF EndsInv, SessionTypeOK
  <2>3. Calm => ~KeysLeft'
    <3>1. Calm => keys' = [r \in Token |-> 0]
      BY <1>3 DEF SweepSessions, Calm, Can
    <3> QED
      BY <1>a, <3>1 DEF KeysLeft
  <2> QED
    BY <1>a, <2>2, <2>3 DEF EndsInv, Calm
<1>4. CASE UnbanRow(m)
  <2>1. UNCHANGED keys /\ banned_until' = 0
    BY <1>4 DEF UnbanRow, tokens
  <2> QED
    BY <1>a, <2>1 DEF EndsInv, Banned
<1>5. CASE DropFlag(m)
  <2>1. UNCHANGED <<keys, banned_until>> /\ session_pc[m] = "unflag"
    BY <1>5 DEF DropFlag, tokens, row
  <2>2. Sweeps => Sweeps'
    BY <1>b, <2>1 DEF Sweeps
  <2> QED
    BY <1>a, <2>1, <2>2, EndsUntouched DEF EndsInv, KeysLeft
<1> QED
  BY <1>1, <1>2, <1>3, <1>4, <1>5 DEF ModeratorStep

LEMMA TickEnds ==
    ASSUME SessionConstants, SessionTypeOK, EndsInv, TimePasses
    PROVE  EndsInv'
<1>1. \A r \in Token : keys[r] \in Nat /\ life[r] \in Nat /\ keys[r] <= life[r]
  BY Constants DEF EndsInv, SessionTypeOK
<1>2. \A r \in Token : /\ keys'[r] = Less(keys[r]) /\ life'[r] = Less(life[r])
                       /\ r \in late /\ life[r] > 1 => r \in late'
  BY DEF TimePasses
<1>3. \A r \in Token : keys'[r] <= life'[r]
  BY <1>1, <1>2 DEF Less
<1>4. ~Sweeps
  BY ActorTyped DEF TimePasses, AllIdle, Sweeps
<1>5. Calm /\ Banned => ~KeysLeft
  BY <1>4 DEF EndsInv
<1>6. Calm' /\ Banned' => Calm /\ Banned
  BY Constants DEF TimePasses, Calm, Banned, Less
<1>7. ASSUME ~KeysLeft PROVE ~KeysLeft'
  <2>1. \A r \in Token \ late' : keys'[r] = 0
    BY <1>1, <1>2, <1>7 DEF KeysLeft, Less
  <2> QED
    BY <2>1 DEF KeysLeft
<1> QED
  BY <1>3, <1>5, <1>6, <1>7 DEF EndsInv

LEMMA NextEnds ==
    ASSUME SessionConstants
    PROVE  SessionTypeOK /\ FlagInv /\ EndsInv /\ [SessionNext]_sessionVars => EndsInv'
<1> SUFFICES ASSUME SessionTypeOK, FlagInv, EndsInv, [SessionNext]_sessionVars PROVE EndsInv'
  OBVIOUS
<1>1. CASE UNCHANGED sessionVars
  BY <1>1 DEF sessionVars, row, tokens, history, EndsInv, KeysLeft, Sweeps, Calm, Banned
<1>2. CASE ForgotPassword
  BY <1>2 DEF ForgotPassword, row, tokens, history, EndsInv, KeysLeft, Sweeps, Calm, Banned
<1>3. CASE Restart
  <2>1. keys' = [r \in Token |-> 0] /\ UNCHANGED life
    BY <1>3 DEF Restart
  <2>2. ~KeysLeft' /\ \A r \in Token : keys'[r] <= life'[r]
    BY <2>1, Constants DEF KeysLeft, SessionTypeOK
  <2> QED
    BY <2>2 DEF EndsInv
<1> QED
  BY <1>1, <1>2, <1>3, NextSteps, ClientEnds, ModeratorEnds, TickEnds

-----------------------------------------------------------------------------
(***************************************************************************)
(* A ban takes hold.                                                       *)
(***************************************************************************)

(* An access token is no younger than the ban, since a login that had read *)
(* the account before is done before time passes.                          *)
HoldInv ==
    /\ ~Banned => since = 0
    /\ Banned => \A n \in access : n + since <= AccessTtl
    /\ Banned => \A c \in Client : session_pc[c] \in {"reset", "mint"} => since = 0

LEMMA InitHold == SessionInit => HoldInv
  BY DEF SessionInit, HoldInv, Banned

LEMMA ClientHold ==
    ASSUME SessionConstants, SessionTypeOK, HoldInv, NEW c \in Client, ClientStep(c)
    PROVE  HoldInv'
<1>a. /\ c \in Actor /\ UNCHANGED <<banned_until, since>> /\ OthersStay(c)
      /\ \A x \in Client \ {c} : session_pc'[x] = session_pc[x]
  BY ActorTyped, ClientMoves DEF OthersStay
<1>b. Banned' = Banned
  BY <1>a DEF Banned
<1>1. Banned => \A n \in access' : n + since <= AccessTtl
  <2>1. CASE UNCHANGED access
    BY <2>1 DEF HoldInv
  <2>2. CASE Mint(c) /\ Banned
    <3>1. since = 0
      BY <2>2 DEF Mint, HoldInv
    <3>2. \A n \in access' : n \in access \/ n = AccessTtl
      BY <2>2 DEF Mint, tokens
    <3> QED
      BY <3>1, <3>2, Constants DEF HoldInv
  <2>3. CASE LoadUser(c) /\ Banned
    BY <2>3 DEF LoadUser, HoldInv
  <2> QED
    BY <2>1, <2>2, <2>3
    DEF ClientStep, WrongPassword, IncrementFailed, LockUntil, RightPassword, ResetFailed,
        ClaimToken, SetPasswordHash, BeginRefresh, Logout, tokens
<1>2. Banned /\ session_pc'[c] \in {"reset", "mint"} => since = 0
  <2>1. CASE ResetFailed(c)
    BY <2>1 DEF ResetFailed, HoldInv
  <2>2. CASE RightPassword(c)
    BY <2>2 DEF RightPassword
  <2>3. CASE \E r \in Token : Logout(c, r)
    BY <2>3 DEF Logout
  <2>4. CASE WrongPassword(c)
    BY <2>4, <1>a, GoesOn DEF WrongPassword
  <2>5. CASE ClaimToken(c)
    BY <2>5, <1>a, GoesOn DEF ClaimToken
  <2>6. CASE \E r \in Token : BeginRefresh(c, r)
    <3>1. PICK r \in Token : BeginRefresh(c, r)
      BY <2>6
    <3> QED
      BY <3>1, <1>a, GoesOn DEF BeginRefresh
  <2>7. CASE IncrementFailed(c)
    BY <2>7, <1>a, GoesOn DEF IncrementFailed
  <2>8. CASE LockUntil(c)
    BY <2>8, <1>a, GoesOn DEF LockUntil
  <2>9. CASE Mint(c)
    BY <2>9, <1>a, GoesOn DEF Mint
  <2>10. CASE LoadUser(c)
    BY <2>10, <1>a, GoesOn DEF LoadUser
  <2>11. CASE SetPasswordHash(c)
    BY <2>11, <1>a, GoesOn DEF SetPasswordHash
  <2> QED
    BY <2>1, <2>2, <2>3, <2>4, <2>5, <2>6, <2>7, <2>8, <2>9, <2>10, <2>11 DEF ClientStep
<1> QED
  BY <1>a, <1>b, <1>1, <1>2 DEF HoldInv

LEMMA ModeratorHold ==
    ASSUME SessionConstants, SessionTypeOK, HoldInv, NEW m \in Moderator, ModeratorStep(m)
    PROVE  HoldInv'
<1>a. m \in Actor /\ OthersStay(m) /\ UNCHANGED access /\ session_pc'[m] \notin {"reset", "mint"}
  BY ActorTyped, ModeratorMoves DEF Moderating
<1>b. \A c \in Client : session_pc'[c] \in {"reset", "mint"} => session_pc'[c] = session_pc[c]
  BY <1>a, ActorTyped DEF OthersStay
<1>c. \A n \in access : n <= AccessTtl /\ n \in Nat
  BY Constants DEF SessionTypeOK
<1>1. CASE Ban(m) \/ TempBan(m)
  <2>1. PICK op \in {"ban", "temp_ban"}, until \in {0, BanTime, Forever} : BanRow(m, op, until)
    BY <1>1 DEF Ban, TempBan
  <2>2. banned_until' = until /\ since' = IF Banned /\ until # 0 THEN since ELSE 0
    BY <2>1 DEF BanRow
  <2>3. CASE Banned /\ until # 0
    BY <1>a, <1>b, <2>2, <2>3 DEF HoldInv, Banned
  <2>4. CASE ~(Banned /\ until # 0)
    <3>1. since' = 0
      BY <2>2, <2>4
    <3> QED
      BY <1>a, <1>c, <3>1, Constants DEF HoldInv
  <2> QED
    BY <2>3, <2>4
<1>2. CASE SetFlag(m) \/ SweepSessions(m) \/ DropFlag(m)
  <2>1. UNCHANGED <<banned_until, since>>
    BY <1>2 DEF SetFlag, SweepSessions, DropFlag, row, history
  <2> QED
    BY <1>a, <1>b, <2>1 DEF HoldInv, Banned
<1>3. CASE UnbanRow(m)
  BY <1>3 DEF UnbanRow, HoldInv, Banned
<1> QED
  BY <1>1, <1>2, <1>3 DEF ModeratorStep

LEMMA TickHold ==
    ASSUME SessionConstants, SessionTypeOK, HoldInv, TimePasses
    PROVE  HoldInv'
<1>1. Banned' => Banned
  BY DEF TimePasses, Banned, Less, Forever
<1>2. since \in Nat /\ AccessTtl \in Nat /\ access \subseteq 1 .. AccessTtl
  BY Constants DEF SessionTypeOK
<1>3. ~Banned' => since' = 0
  BY DEF TimePasses, Banned
<1>4. ASSUME Banned', NEW n \in access' PROVE n + since' <= AccessTtl
  <2>1. PICK k \in access : n = k - 1
    BY DEF TimePasses
  <2>2. k + since <= AccessTtl /\ k \in Nat
    BY <1>1, <1>2, <1>4 DEF HoldInv
  <2>3. since' <= since + 1 /\ since' \in Nat
    BY <1>2, <1>4, Constants DEF TimePasses, Cap
  <2>4. \A a, b, x \in Nat : \A y \in Nat :
          a + x <= b /\ y <= x + 1 => (a - 1) + y <= b
    OBVIOUS
  <2> QED
    BY <1>2, <2>1, <2>2, <2>3, <2>4
<1>5. \A c \in Client : session_pc'[c] = "idle"
  BY ActorTyped DEF TimePasses, AllIdle
<1> QED
  BY <1>3, <1>4, <1>5 DEF HoldInv

LEMMA NextHold ==
    ASSUME SessionConstants
    PROVE  SessionTypeOK /\ HoldInv /\ [SessionNext]_sessionVars => HoldInv'
<1> SUFFICES ASSUME SessionTypeOK, HoldInv, [SessionNext]_sessionVars PROVE HoldInv'
  OBVIOUS
<1>1. CASE UNCHANGED sessionVars
  BY <1>1 DEF sessionVars, row, tokens, history, HoldInv, Banned
<1>2. CASE ForgotPassword
  BY <1>2 DEF ForgotPassword, row, tokens, history, HoldInv, Banned
<1>3. CASE Restart
  <2>1. UNCHANGED <<banned_until, access, since>> /\ \A c \in Client : session_pc'[c] = "idle"
    BY <1>3, ActorTyped DEF Restart, row, history
  <2> QED
    BY <2>1 DEF HoldInv, Banned
<1> QED
  BY <1>1, <1>2, <1>3, NextSteps, ClientHold, ModeratorHold, TickHold

(* Between moderations one at a time, the flag that every request with an  *)
(* access token is checked against lasts exactly as long as the ban in the *)
(* row, and the keys of the sessions from before the ban are gone; and     *)
(* whatever fails, overlaps or restarts, an account that has been banned   *)
(* for an access token's life has no such token (ban, temp_ban, unban).    *)
THEOREM BansAlwaysHold ==
    ASSUME SessionConstants
    PROVE  SessionSpec => []BansHold
<1>1. SessionTypeOK /\ FlagInv => FlagFollowsBan
  BY DEF FlagInv, FlagFollowsBan, Moderates, Moderating
<1>2. EndsInv => BanEndsSessions
  BY ActorTyped DEF EndsInv, BanEndsSessions, Sweeps, KeysLeft, AllIdle
<1>3. SessionTypeOK /\ HoldInv => BanTakesHold
  <2> SUFFICES ASSUME SessionTypeOK, HoldInv, Banned, since = AccessTtl, NEW n \in access
               PROVE  FALSE
    BY DEF BanTakesHold
  <2>1. n + AccessTtl <= AccessTtl
    BY DEF HoldInv
  <2>2. n \in Nat /\ n >= 1
    BY Constants DEF SessionTypeOK
  <2> QED
    BY <2>1, <2>2, Constants
<1>4. SessionTypeOK /\ FlagFollowsBan /\ BanEndsSessions /\ BanTakesHold => BansHold
  BY DEF BansHold
<1>5. SessionSpec => [](SessionTypeOK /\ FlagInv /\ EndsInv /\ HoldInv)
  BY InitTyped, NextTyped, InitFlag, NextFlag, InitEnds, NextEnds, InitHold, NextHold,
     PTL DEF SessionSpec
<1> QED
  BY <1>1, <1>2, <1>3, <1>4, <1>5, PTL

-----------------------------------------------------------------------------
(***************************************************************************)
(* Wrong passwords are bounded.                                            *)
(***************************************************************************)

At(label) == {c \in Client : session_pc[c] = label}

(* Before the limit is reached every guess is counted in the row.  After   *)
(* it, each guess has a login on its way to lock the account; and once the *)
(* account is locked, only the logins that had begun can still count.      *)
GuessInv ==
    ~Can("restart") =>
        /\ failed_login_count < Attempts => guesses <= failed_login_count
        /\ locked_until = 0 => guesses <= Attempts - 1 + Cardinality(At("lock"))
        /\ locked_until # 0 =>
            guesses + Cardinality(At("increment")) <= Attempts - 1 + Cardinality(Client)

LEMMA AtFinite ==
    ASSUME SessionConstants, NEW label
    PROVE  /\ IsFiniteSet(At(label)) /\ Cardinality(At(label)) \in Nat
           /\ Cardinality(At(label)) <= Cardinality(Client)
<1>1. At(label) \subseteq Client
  BY DEF At
<1> QED
  BY <1>1, Constants, FS_Subset, FS_CardinalityType

(* Where one request moves from one place to another, the sets of those    *)
(* that are there change by it.                                            *)
LEMMA AtMoves ==
    ASSUME SessionConstants, NEW c \in Client, OthersStay(c), NEW label
    PROVE  /\ Cardinality(At(label)') \in Nat
           /\ session_pc[c] # label /\ session_pc'[c] # label => At(label)' = At(label)
           /\ session_pc[c] # label /\ session_pc'[c] = label
                => Cardinality(At(label)') = Cardinality(At(label)) + 1
           /\ session_pc[c] = label /\ session_pc'[c] # label
                => Cardinality(At(label)') = Cardinality(At(label)) - 1
           /\ session_pc[c] = label /\ session_pc'[c] = label => At(label)' = At(label)
<1>0. \A x \in Client \ {c} : session_pc'[x] = session_pc[x]
  BY ActorTyped DEF OthersStay
<1>1. IsFiniteSet(At(label)) /\ Cardinality(At(label)) \in Nat
  BY AtFinite
<1>2. At(label)' \subseteq Client
  BY DEF At
<1>3. IsFiniteSet(At(label)') /\ Cardinality(At(label)') \in Nat
  BY <1>2, Constants, FS_Subset, FS_CardinalityType
<1>4. session_pc[c] # label /\ session_pc'[c] # label => At(label)' = At(label)
  BY <1>0 DEF At
<1>5. session_pc[c] = label /\ session_pc'[c] = label => At(label)' = At(label)
  BY <1>0 DEF At
<1>6. session_pc[c] # label /\ session_pc'[c] = label
        => c \notin At(label) /\ At(label)' = At(label) \cup {c}
  BY <1>0 DEF At
<1>7. session_pc[c] = label /\ session_pc'[c] # label
        => c \in At(label) /\ At(label)' = At(label) \ {c}
  BY <1>0 DEF At
<1>8. session_pc[c] # label /\ session_pc'[c] = label
        => Cardinality(At(label)') = Cardinality(At(label)) + 1
  BY <1>1, <1>6, FS_AddElement
<1>9. session_pc[c] = label /\ session_pc'[c] # label
        => Cardinality(At(label)') = Cardinality(At(label)) - 1
  BY <1>1, <1>7, FS_RemoveElement
<1> QED
  BY <1>3, <1>4, <1>5, <1>8, <1>9

LEMMA TwoPlaces ==
    ASSUME SessionConstants
    PROVE  Cardinality(At("increment")) + Cardinality(At("lock")) <= Cardinality(Client)
<1>1. /\ IsFiniteSet(At("increment")) /\ IsFiniteSet(At("lock"))
      /\ Cardinality(At("increment")) \in Nat /\ Cardinality(At("lock")) \in Nat
  BY AtFinite
<1>2. At("increment") \cap At("lock") = {} /\ At("increment") \cup At("lock") \subseteq Client
  BY DEF At
<1>3. Cardinality(At("increment") \cup At("lock"))
        = Cardinality(At("increment")) + Cardinality(At("lock"))
  BY <1>1, <1>2, FS_Union, FS_EmptySet
<1>4. Cardinality(At("increment") \cup At("lock")) <= Cardinality(Client)
  BY <1>2, Constants, FS_Subset
<1> QED
  BY <1>3, <1>4

LEMMA InitGuess ==
    ASSUME SessionConstants, SessionInit
    PROVE  GuessInv
<1>1. Cardinality(At("lock")) \in Nat
  BY AtFinite
<1> QED
  BY <1>1, Constants DEF SessionInit, GuessInv

(* Nobody comes or goes who counts or locks. *)
LEMMA GuessUntouched ==
    ASSUME GuessInv, UNCHANGED <<session_world, failed_login_count, locked_until, guesses>>,
           At("increment")' = At("increment"), At("lock")' = At("lock")
    PROVE  GuessInv'
<1>1. /\ Cardinality(At("increment"))' = Cardinality(At("increment"))
      /\ Cardinality(At("lock"))' = Cardinality(At("lock"))
  OBVIOUS
<1> QED
  BY <1>1 DEF GuessInv, Can

LEMMA ClientGuess ==
    ASSUME SessionConstants, SessionTypeOK, GuessInv, NEW c \in Client, ClientStep(c)
    PROVE  GuessInv'
<1> SUFFICES ASSUME ~Can("restart"), ~Can("restart")'
             PROVE  /\ failed_login_count' < Attempts => guesses' <= failed_login_count'
                    /\ locked_until' = 0 => guesses' <= Attempts - 1 + Cardinality(At("lock"))'
                    /\ locked_until' # 0 => guesses' + Cardinality(At("increment"))'
                                              <= Attempts - 1 + Cardinality(Client)
  BY ClientMoves DEF GuessInv, Can
<1>a. c \in Actor /\ OthersStay(c) /\ UNCHANGED session_world
  BY ActorTyped, ClientMoves
<1>b. /\ failed_login_count \in Nat /\ guesses \in Nat /\ Attempts \in Nat
      /\ Attempts > 0 /\ Cardinality(Client) \in Nat
  BY Constants DEF SessionTypeOK
<1>c. /\ Cardinality(At("increment")) \in Nat /\ Cardinality(At("lock")) \in Nat
      /\ Cardinality(At("increment"))' \in Nat /\ Cardinality(At("lock"))' \in Nat
      /\ Cardinality(At("increment")) <= Cardinality(Client)
  BY <1>a, AtFinite, AtMoves
<1>d. /\ failed_login_count < Attempts => guesses <= failed_login_count
      /\ locked_until = 0 => guesses <= Attempts - 1 + Cardinality(At("lock"))
      /\ locked_until # 0 => guesses + Cardinality(At("increment"))
                                <= Attempts - 1 + Cardinality(Client)
  BY DEF GuessInv
<1>1. CASE WrongPassword(c)
  <2>1. /\ locked_until = 0 /\ UNCHANGED <<failed_login_count, locked_until, guesses>>
        /\ session_pc[c] # "lock" /\ session_pc'[c] # "lock"
    BY <1>1, <1>a, GoesOn DEF WrongPassword, row, history
  <2>2. At("lock")' = At("lock")
    BY <1>a, <2>1, AtMoves
  <2> QED
    BY <1>d, <2>1, <2>2
<1>2. CASE IncrementFailed(c)
  <2>1. /\ session_pc[c] = "increment" /\ UNCHANGED locked_until
        /\ failed_login_count' = IF failed_login_count + 1 < Attempts
                                 THEN failed_login_count + 1 ELSE Attempts
        /\ guesses' <= guesses + 1 /\ guesses' \in Nat
    <3>1. session_pc[c] = "increment" /\ UNCHANGED locked_until
      BY <1>2 DEF IncrementFailed
    <3>2. failed_login_count' = IF failed_login_count + 1 < Attempts
                                THEN failed_login_count + 1 ELSE Attempts
      BY <1>2 DEF IncrementFailed, Cap
    <3>3. guesses' = Cap(guesses + 1, MaxGuesses)
      BY <1>2 DEF IncrementFailed
    <3>4. guesses' <= guesses + 1 /\ guesses' \in Nat
      <4>1. guesses + 1 \in Nat /\ MaxGuesses \in Nat
        BY <1>b, Constants
      <4>2. Cap(guesses + 1, MaxGuesses) \in {guesses + 1, MaxGuesses}
            /\ Cap(guesses + 1, MaxGuesses) <= guesses + 1
        BY <4>1 DEF Cap
      <4> QED
        BY <3>3, <4>1, <4>2
    <3> QED
      BY <3>1, <3>2, <3>4
  <2>2. session_pc'[c] = IF failed_login_count' >= Attempts THEN "lock" ELSE "idle"
    BY <1>2, <1>a, GoesOn DEF IncrementFailed
  <2>3. Cardinality(At("increment"))' = Cardinality(At("increment")) - 1
    BY <1>a, <2>1, <2>2, AtMoves
  <2>4. failed_login_count' < Attempts => guesses' <= failed_login_count'
    BY <1>b, <1>d, <2>1
  <2>5. locked_until' # 0 => guesses' + Cardinality(At("increment"))'
                                <= Attempts - 1 + Cardinality(Client)
    BY <1>b, <1>c, <1>d, <2>1, <2>3
  <2>6. CASE failed_login_count' >= Attempts
    <3>1. Cardinality(At("lock"))' = Cardinality(At("lock")) + 1
      BY <1>a, <2>1, <2>2, <2>6, AtMoves
    <3>2. locked_until' = 0 => guesses' <= Attempts - 1 + Cardinality(At("lock"))'
      BY <1>b, <1>c, <1>d, <2>1, <3>1
    <3> QED
      BY <2>4, <2>5, <3>2
  <2>7. CASE ~(failed_login_count' >= Attempts)
    <3>1. guesses' <= Attempts - 1 + Cardinality(At("lock"))'
      BY <1>b, <1>c, <2>1, <2>4, <2>7
    <3> QED
      BY <2>4, <2>5, <3>1
  <2> QED
    BY <2>6, <2>7
<1>3. CASE LockUntil(c)
  <2>1. /\ session_pc[c] = "lock" /\ session_pc'[c] = "idle" /\ locked_until' # 0
        /\ UNCHANGED <<failed_login_count, guesses>>
    BY <1>3, <1>a, GoesOn, Constants DEF LockUntil, history
  <2>2. At("increment")' = At("increment")
    BY <1>a, <2>1, AtMoves
  <2>3. guesses + Cardinality(At("increment")) <= Attempts - 1 + Cardinality(Client)
    BY <1>b, <1>c, <1>d, TwoPlaces
  <2> QED
    BY <1>d, <2>1, <2>2, <2>3
<1>4. CASE ResetFailed(c)
  <2>1. failed_login_count' = 0 /\ locked_until' = 0 /\ guesses' = 0
    BY <1>4 DEF ResetFailed
  <2> QED
    BY <1>b, <1>c, <2>1
<1>5. CASE \/ RightPassword(c) \/ Mint(c) \/ LoadUser(c) \/ ClaimToken(c) \/ SetPasswordHash(c)
           \/ \E r \in Token : BeginRefresh(c, r) \/ Logout(c, r)
  <2>1. /\ UNCHANGED <<failed_login_count, locked_until, guesses>>
        /\ session_pc[c] \notin {"increment", "lock"} /\ session_pc'[c] \notin {"increment", "lock"}
    <3>1. CASE \/ RightPassword(c) \/ ClaimToken(c) \/ \E r \in Token : BeginRefresh(c, r)
      <4>1. UNCHANGED <<failed_login_count, locked_until, guesses>>
        BY <3>1 DEF RightPassword, ClaimToken, BeginRefresh, row, history
      <4>2. \E r : \E label \in {"reset", "hash", "load"} : Begin(c, label, r)
        BY <3>1 DEF RightPassword, ClaimToken, BeginRefresh
      <4> QED
        BY <4>1, <4>2, <1>a, GoesOn
    <3>2. CASE Mint(c) \/ LoadUser(c) \/ SetPasswordHash(c)
      BY <3>2, <1>a, GoesOn DEF Mint, LoadUser, SetPasswordHash, row, history
    <3>3. CASE \E r \in Token : Logout(c, r)
      BY <3>3 DEF Logout, row, history
    <3> QED
      BY <1>5, <3>1, <3>2, <3>3
  <2>2. At("increment")' = At("increment") /\ At("lock")' = At("lock")
    BY <1>a, <2>1, AtMoves
  <2> QED
    BY <1>d, <2>1, <2>2
<1> QED
  BY <1>1, <1>2, <1>3, <1>4, <1>5 DEF ClientStep

LEMMA NextGuess ==
    ASSUME SessionConstants
    PROVE  SessionTypeOK /\ GuessInv /\ [SessionNext]_sessionVars => GuessInv'
<1> SUFFICES ASSUME SessionTypeOK, GuessInv, [SessionNext]_sessionVars PROVE GuessInv'
  OBVIOUS
<1>1. CASE UNCHANGED sessionVars
  <2>1. UNCHANGED <<session_world, failed_login_count, locked_until, guesses, session_pc>>
    BY <1>1 DEF sessionVars, row, history
  <2> QED
    BY <2>1, GuessUntouched DEF At
<1>2. ASSUME NEW m \in Moderator, ModeratorStep(m) PROVE GuessInv'
  <2>1. /\ UNCHANGED <<session_world, failed_login_count, locked_until, guesses>>
        /\ OthersStay(m) /\ session_pc[m] \notin {"increment", "lock"}
        /\ session_pc'[m] \notin {"increment", "lock"}
    BY <1>2, ModeratorMoves DEF Moderating
  <2>2. At("increment")' = At("increment") /\ At("lock")' = At("lock")
    BY <2>1, ActorTyped DEF OthersStay, At
  <2> QED
    BY <2>1, <2>2, GuessUntouched
<1>3. CASE ForgotPassword
  <2>1. UNCHANGED <<session_world, failed_login_count, locked_until, guesses, session_pc>>
    BY <1>3 DEF ForgotPassword, row, history
  <2> QED
    BY <2>1, GuessUntouched DEF At
<1>4. CASE TimePasses
  <2>1. UNCHANGED <<session_world, failed_login_count, session_pc>> /\ \A c \in Client : session_pc[c] = "idle"
    BY <1>4, ActorTyped DEF TimePasses, AllIdle
  <2>2. /\ At("increment") = {} /\ At("lock") = {}
        /\ At("increment")' = {} /\ At("lock")' = {}
    BY <2>1 DEF At
  <2>3. CASE locked_until = 1
    <3>1. guesses' = 0 /\ locked_until' = 0
      BY <1>4, <2>3 DEF TimePasses, Less
    <3>2. Cardinality(At("lock"))' = 0
      BY <2>2, FS_EmptySet
    <3> QED
      BY <2>1, <3>1, <3>2, Constants DEF GuessInv, SessionTypeOK
  <2>4. CASE locked_until # 1
    <3>1. guesses' = guesses /\ (locked_until' = 0 <=> locked_until = 0)
      BY <1>4, <2>4, Constants DEF TimePasses, Less, SessionTypeOK
    <3> QED
      BY <2>1, <2>2, <3>1 DEF GuessInv, Can
  <2> QED
    BY <2>3, <2>4
<1>5. CASE Restart
  BY <1>5 DEF Restart, GuessInv, Can
<1> QED
  BY <1>1, <1>2, <1>3, <1>4, <1>5, NextSteps, ClientGuess

-----------------------------------------------------------------------------
(***************************************************************************)
(* A reset token changes the password once.                                *)
(***************************************************************************)

(* The key of a token that has been claimed outlives the token, so one     *)
(* request at most has claimed it and either is to change the password or  *)
(* has done so.                                                            *)
ResetInv ==
    ~Can("restart") =>
        /\ reset.left = 0 => reset.used = 0
        /\ reset.used = 0 => reset.changes = 0 /\ At("hash") = {}
        /\ reset.used # 0 => reset.left <= reset.used
        /\ reset.changes = 0 \/ (reset.changes = 1 /\ At("hash") = {})
        /\ \A c, d \in Client : session_pc[c] = "hash" /\ session_pc[d] = "hash" => c = d

LEMMA InitReset == SessionInit => ResetInv
  BY ActorTyped DEF SessionInit, ResetInv, At

LEMMA ResetUntouched ==
    ASSUME ResetInv, UNCHANGED <<session_world, reset>>, At("hash")' = At("hash")
    PROVE  ResetInv'
<1>1. \A c \in Client : session_pc'[c] = "hash" <=> session_pc[c] = "hash"
  BY DEF At
<1> QED
  BY <1>1 DEF ResetInv, Can

LEMMA ClientReset ==
    ASSUME SessionConstants, SessionTypeOK, ResetInv, NEW c \in Client, ClientStep(c)
    PROVE  ResetInv'
<1>a. c \in Actor /\ OthersStay(c) /\ UNCHANGED session_world
  BY ActorTyped, ClientMoves
<1>b. \A x \in Client \ {c} : session_pc'[x] = session_pc[x]
  BY <1>a, ActorTyped DEF OthersStay
<1>t. /\ reset \in [left: 0 .. ResetTtl + 1, used: 0 .. ResetTtl + 1, changes: 0 .. 2]
      /\ ResetTtl \in Nat /\ ResetTtl > 0
  BY Constants DEF SessionTypeOK
<1>1. CASE ClaimToken(c)
  <2>1. /\ reset.left # 0 /\ reset.used = 0 /\ session_pc'[c] = "hash"
        /\ reset' = [reset EXCEPT !.used = ResetTtl + 1]
    BY <1>1, <1>a, GoesOn DEF ClaimToken
  <2>2. /\ reset'.left = reset.left /\ reset'.used = ResetTtl + 1
        /\ reset'.changes = reset.changes
    BY <1>t, <2>1
  <2>3. reset'.used # 0 /\ reset'.left <= reset'.used /\ reset'.left # 0
    BY <1>t, <2>1, <2>2
  <2> QED
    BY <1>a, <1>b, <2>1, <2>2, <2>3 DEF ResetInv, Can, At
<1>2. CASE SetPasswordHash(c)
  <2>1. /\ session_pc[c] = "hash" /\ session_pc'[c] = "idle"
        /\ reset' = [reset EXCEPT !.changes = Cap(reset.changes + 1, 2)]
    BY <1>2, <1>a, GoesOn DEF SetPasswordHash
  <2>2. /\ reset'.left = reset.left /\ reset'.used = reset.used
        /\ reset'.changes = Cap(reset.changes + 1, 2)
    BY <1>t, <2>1
  <2>3. ASSUME ~Can("restart")
        PROVE  /\ reset.used # 0 /\ reset'.changes = 1 /\ At("hash")' = {}
               /\ \A x \in Client : session_pc'[x] # "hash"
    BY <1>b, <2>1, <2>2, <2>3 DEF ResetInv, At, Cap
  <2> QED
    BY <1>a, <2>2, <2>3 DEF ResetInv, Can
<1>3. CASE ~ClaimToken(c) /\ ~SetPasswordHash(c)
  <2>1. UNCHANGED reset
    BY <1>3
    DEF ClientStep, WrongPassword, IncrementFailed, LockUntil, RightPassword, ResetFailed,
        Mint, LoadUser, BeginRefresh, Logout
  <2>2. session_pc[c] # "hash" /\ session_pc'[c] # "hash"
    <3>1. CASE WrongPassword(c) \/ RightPassword(c) \/ \E r \in Token : BeginRefresh(c, r)
      BY <3>1, <1>a, GoesOn DEF WrongPassword, RightPassword, BeginRefresh
    <3>2. CASE IncrementFailed(c)
      BY <3>2, <1>a, GoesOn DEF IncrementFailed
    <3>3. CASE LockUntil(c) \/ ResetFailed(c) \/ Mint(c) \/ LoadUser(c)
      BY <3>3, <1>a, GoesOn DEF LockUntil, ResetFailed, Mint, LoadUser
    <3>4. CASE \E r \in Token : Logout(c, r)
      BY <3>4 DEF Logout
    <3> QED
      BY <1>3, <3>1, <3>2, <3>3, <3>4 DEF ClientStep
  <2>3. At("hash")' = At("hash")
    BY <1>b, <2>2 DEF At
  <2> QED
    BY <1>a, <2>1, <2>3, ResetUntouched
<1> QED
  BY <1>1, <1>2, <1>3

LEMMA TickReset ==
    ASSUME SessionConstants, SessionTypeOK, ResetInv, TimePasses
    PROVE  ResetInv'
<1>1. UNCHANGED <<session_world, session_pc>> /\ \A c \in Client : session_pc[c] = "idle" /\ session_pc'[c] = "idle"
  BY ActorTyped DEF TimePasses, AllIdle
<1>2. /\ reset \in [left: 0 .. ResetTtl + 1, used: 0 .. ResetTtl + 1, changes: 0 .. 2]
      /\ ResetTtl \in Nat
  BY Constants DEF SessionTypeOK
<1>3. CASE reset.left = 1
  BY <1>1, <1>3 DEF TimePasses, ResetInv, At
<1>4. CASE reset.left # 1
  <2>1. reset' = [reset EXCEPT !.left = Less(reset.left), !.used = Less(reset.used)]
    BY <1>4 DEF TimePasses
  <2>2. /\ reset'.left = Less(reset.left) /\ reset'.used = Less(reset.used)
        /\ reset'.changes = reset.changes
    BY <1>2, <2>1
  <2>3. reset.left \in Nat /\ reset.used \in Nat
    BY <1>2
  <2>4. ASSUME ~Can("restart")
        PROVE  /\ reset'.left = 0 => reset'.used = 0
               /\ reset'.used = 0 => reset.used = 0
               /\ reset'.used # 0 => reset'.left <= reset'.used
    BY <1>4, <2>2, <2>3, <2>4 DEF ResetInv, Less
  <2> QED
    BY <1>1, <2>2, <2>4 DEF ResetInv, Can, At
<1> QED
  BY <1>3, <1>4

LEMMA NextReset ==
    ASSUME SessionConstants
    PROVE  SessionTypeOK /\ ResetInv /\ [SessionNext]_sessionVars => ResetInv'
<1> SUFFICES ASSUME SessionTypeOK, ResetInv, [SessionNext]_sessionVars PROVE ResetInv'
  OBVIOUS
<1>1. CASE UNCHANGED sessionVars
  BY <1>1, ResetUntouched DEF sessionVars, At
<1>2. ASSUME NEW m \in Moderator, ModeratorStep(m) PROVE ResetInv'
  <2>1. /\ UNCHANGED <<session_world, reset>> /\ OthersStay(m) /\ session_pc[m] # "hash" /\ session_pc'[m] # "hash"
    BY <1>2, ModeratorMoves DEF Moderating
  <2>2. At("hash")' = At("hash")
    BY <2>1, ActorTyped DEF OthersStay, At
  <2> QED
    BY <2>1, <2>2, ResetUntouched
<1>3. CASE ForgotPassword
  <2>1. /\ UNCHANGED <<session_world, session_pc>> /\ \A c \in Client : session_pc[c] # "hash"
        /\ reset' = [left |-> ResetTtl + 1, used |-> 0, changes |-> 0]
    BY <1>3 DEF ForgotPassword
  <2> QED
    BY <2>1, Constants DEF ResetInv, At
<1>4. CASE Restart
  BY <1>4 DEF Restart, ResetInv, Can
<1> QED
  BY <1>1, <1>2, <1>3, <1>4, NextSteps, ClientReset, TickReset

(* However logins overlap, fewer wrong passwords are tried between two     *)
(* locks than the limit and the logins in flight, and a mailed reset token *)
(* changes the password once, as long as the process does not restart      *)
(* (login, reset_password).                                                *)
THEOREM CredentialsAlwaysHold ==
    ASSUME SessionConstants
    PROVE  SessionSpec => []CredentialsHold
<1>1. SessionTypeOK /\ GuessInv => GuessesBounded
  <2> SUFFICES ASSUME SessionTypeOK, GuessInv, ~Can("restart")
               PROVE  guesses <= Attempts - 1 + Cardinality(Client)
    BY DEF GuessesBounded
  <2>1. /\ Cardinality(At("lock")) \in Nat /\ Cardinality(At("increment")) \in Nat
        /\ Cardinality(At("lock")) <= Cardinality(Client)
    BY AtFinite
  <2>2. guesses \in Nat /\ Attempts \in Nat /\ Cardinality(Client) \in Nat
    BY Constants DEF SessionTypeOK
  <2>3. CASE locked_until = 0
    BY <2>1, <2>2, <2>3 DEF GuessInv
  <2>4. CASE locked_until # 0
    BY <2>1, <2>2, <2>4 DEF GuessInv
  <2> QED
    BY <2>3, <2>4
<1>2. ResetInv => ResetOnce
  BY DEF ResetInv, ResetOnce
<1>3. GuessesBounded /\ ResetOnce => CredentialsHold
  BY DEF CredentialsHold
<1>4. SessionSpec => [](SessionTypeOK /\ GuessInv /\ ResetInv)
  BY InitTyped, NextTyped, InitGuess, NextGuess, InitReset, NextReset, PTL DEF SessionSpec
<1> QED
  BY <1>1, <1>2, <1>3, <1>4, PTL

================================================================================
