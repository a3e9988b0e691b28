---------------------------------- MODULE Roles ----------------------------------
(***************************************************************************)
(* Who holds which role, and what the middleware believes.                 *)
(*                                                                         *)
(* Sources: RoleUseCase and AdminUseCase (assignments, permissions of a    *)
(* role), the handlers that clear the caches afterwards, resolve_permissions*)
(* of auth_middleware, RolePermissionCache and the repositories.           *)
(*                                                                         *)
(* The middleware keeps a user's assignments in the cache for five minutes *)
(* and the permissions of all roles in memory until the next reload.  Each *)
(* database or cache call is a step.  Permissions come down to what the    *)
(* guards ask for, the keys to manage users and roles, and the rest: the   *)
(* admin role has them all, a moderator's count in one category only, and  *)
(* the third role is one an administrator made, whose keys are set by      *)
(* whoever manages roles.  A tick is a part of the cache's five minutes,   *)
(* and a request takes less.                                               *)
(***************************************************************************)
EXTENDS Integers, FiniteSets

CONSTANTS
    User,
    Worker,     \* requests in flight
    Ttl,        \* USER_ROLES_CACHE_TTL
    Lifetime,   \* of an assignment that expires
    FirstAdmin, \* the user setup made administrator
    Worlds

Role == {"admin", "moderator", "custom"}
Key == {"admin.users", "admin.roles", "rest"}

(***************************************************************************)
(* A world is the roles requests are about, the keys the custom role may   *)
(* be given and what may disturb requests:                                 *)
(*   overlap      two requests in flight at once                           *)
(*   revocations  two of them revoking an administrator                    *)
(*   expiry       assignments that expire                                  *)
(*   cache_error  the cache call that clears an entry fails                *)
(*   db_error     the query for a user's assignments fails                 *)
(***************************************************************************)
World == [roles: SUBSET Role, grants: SUBSET SUBSET Key,
          disturbance: SUBSET {"overlap", "revocations", "expiry", "cache_error",
                                "db_error"}]

ASSUME RoleConstants ==
    /\ Worlds \subseteq World
    /\ Ttl \in Nat \ {0} /\ Lifetime \in Nat \ {0}
    /\ FirstAdmin \in User /\ IsFiniteSet(User)

VARIABLES
    world,
    user_roles,        \* rows: NoRow, or the ticks left until expires_at
    role_permissions,  \* rows: the keys of the custom role
    inner,             \* the same, in RolePermissionCache
    cached,            \* user:roles:<id>, with the ticks it has left
    pc, req,
    lost,              \* history: ticks since the user last held the role
    full               \* history: the custom role has had every key

vars == <<world, user_roles, role_permissions, inner, cached, pc, req, lost, full>>

NoRow == -1
Never == Lifetime + 1
NotCached == [roles |-> {}, ttl |-> 0]
NoRequest == [user |-> FirstAdmin, roles |-> {}, keys |-> {}, target |-> FirstAdmin,
              role |-> "custom", life |-> Never, set |-> {}]
May(kind) == kind \in world.disturbance

Control == {"idle", "query", "fill", "resolve", "handle", "assign", "revoke", "clear",
            "insert", "load", "publish"}
Request == [user: User, roles: SUBSET Role, keys: SUBSET Key, target: User, role: Role,
            life: 1..Never, set: SUBSET Key]

TypeOK ==
    /\ world \in Worlds
    /\ user_roles \in [User -> [Role -> NoRow..Never]]
    /\ role_permissions \subseteq Key /\ inner \subseteq Key /\ full \in BOOLEAN
    /\ cached \in [User -> [roles: SUBSET Role, ttl: 0..Ttl]]
    /\ pc \in [Worker -> Control]
    /\ req \in [Worker -> Request]
    /\ lost \in [User -> [Role -> 0..Ttl + 1]]

Init ==
    /\ world \in Worlds
    /\ user_roles = [u \in User |-> [r \in Role |->
                        IF u = FirstAdmin /\ r = "admin" THEN Never ELSE NoRow]]
    /\ role_permissions = {} /\ inner = {} /\ full = FALSE
    /\ cached = [u \in User |-> NotCached]
    /\ pc = [w \in Worker |-> "idle"]
    /\ req = [w \in Worker |-> NoRequest]
    /\ lost = [u \in User |-> [r \in Role |-> IF user_roles[u][r] > 0 THEN 0 ELSE Ttl + 1]]

-----------------------------------------------------------------------------

Goto(w, label) == pc' = [pc EXCEPT ![w] = label] /\ UNCHANGED req
Go(w, label, r) == pc' = [pc EXCEPT ![w] = label] /\ req' = [req EXCEPT ![w] = r]
Finish(w) == Go(w, "idle", NoRequest)

Idle(W) == \A w \in W : pc[w] = "idle"
Quiet == Idle(Worker)

(* A row that has expired counts as none, but it is still there.           *)
Holds(u, r) == user_roles[u][r] > 0
Effective(u) == {r \in Role : Holds(u, r)}
Admins == {u \in User : Holds(u, "admin")}

-----------------------------------------------------------------------------
(* auth_middleware: resolve_permissions.                                   *)

Arrive(w, u) ==
    /\ pc[w] = "idle"
    /\ May("overlap") \/ Quiet
    /\ IF cached[u].ttl > 0
       THEN Go(w, "resolve", [NoRequest EXCEPT !.user = u, !.roles = cached[u].roles])
       ELSE Go(w, "query", [NoRequest EXCEPT !.user = u])
    /\ UNCHANGED <<world, user_roles, role_permissions, inner, cached, lost, full>>

(* A query that fails gives no assignments, and that is cached too.        *)
Query(w) ==
    /\ pc[w] = "query"
    /\ \/ Go(w, "fill", [req[w] EXCEPT !.roles = Effective(req[w].user)])
       \/ May("db_error") /\ Goto(w, "fill")
    /\ UNCHANGED <<world, user_roles, role_permissions, inner, cached, lost, full>>

Fill(w) ==
    /\ pc[w] = "fill"
    /\ cached' = [cached EXCEPT ![req[w].user] = [roles |-> req[w].roles, ttl |-> Ttl]]
    /\ Goto(w, "resolve")
    /\ UNCHANGED <<world, user_roles, role_permissions, inner, lost, full>>

(* resolve_global: the keys of the roles, as the memory has them.          *)
KeysHeld(roles) ==
    (IF "admin" \in roles THEN Key ELSE {}) \cup (IF "custom" \in roles THEN inner ELSE {})

Resolve(w) ==
    /\ pc[w] = "resolve"
    /\ Go(w, "handle", [req[w] EXCEPT !.keys = KeysHeld(req[w].roles)])
    /\ UNCHANGED <<world, user_roles, role_permissions, inner, cached, lost, full>>

(* Any other request, and one that is refused. *)
Serve(w) ==
    /\ pc[w] = "handle"
    /\ Finish(w)
    /\ UNCHANGED <<world, user_roles, role_permissions, inner, cached, lost, full>>

Manages(w, key) == pc[w] = "handle" /\ key \in req[w].keys

-----------------------------------------------------------------------------
(* Assignments.                                                            *)

(* Granting any role to anybody.                                           *)
AssignUnchecked(w, v, r, n) ==
    /\ Manages(w, "admin.users")
    /\ r \in world.roles \ {"moderator"}
    /\ n = Never \/ May("expiry")
    /\ Go(w, "assign", [req[w] EXCEPT !.target = v, !.role = r, !.life = n])
    /\ UNCHANGED <<world, user_roles, role_permissions, inner, cached, lost, full>>

(* The keys of a role in the database; the admin role's are the seed's.    *)
list_for_role(r) == IF r = "admin" THEN Key ELSE role_permissions

(* assign_role: only a role whose keys the actor has.                      *)
BeginAssign(w, v, r, n) ==
    /\ Manages(w, "admin.users")
    /\ r \in world.roles \ {"moderator"}
    /\ list_for_role(r) \subseteq req[w].keys
    /\ n = Never \/ May("expiry")
    /\ Go(w, "assign", [req[w] EXCEPT !.target = v, !.role = r, !.life = n])
    /\ UNCHANGED <<world, user_roles, role_permissions, inner, cached, lost, full>>

(* A row that is there is a conflict, even if it has expired. *)
Insert(u, r, n) ==
    /\ user_roles[u][r] = NoRow
    /\ user_roles' = [user_roles EXCEPT ![u][r] = n]
    /\ lost' = [lost EXCEPT ![u][r] = 0]

Assign(w) ==
    /\ pc[w] = "assign"
    /\ LET q == req[w] IN
       \/ Insert(q.target, q.role, q.life) /\ Goto(w, "clear")
       \/ user_roles[q.target][q.role] # NoRow /\ Finish(w) /\ UNCHANGED <<user_roles, lost>>
    /\ UNCHANGED <<world, role_permissions, inner, cached, full>>

(* assign_moderator leaves the cache alone. *)
AssignModerator(w, v) ==
    /\ "moderator" \in world.roles
    /\ Manages(w, "admin.users")
    /\ Insert(v, "moderator", Never)
    /\ Finish(w)
    /\ UNCHANGED <<world, role_permissions, inner, cached, full>>

LastAdmin(r) == r = "admin" /\ Cardinality(Admins) <= 1

MayRevoke(w, r) ==
    r = "admin" /\ ~May("revocations")
        => \A x \in Worker \ {w} : ~ (pc[x] = "revoke" /\ req[x].role = "admin")

(* A limit that lets the last administrator go.                            *)
BeginRevokeLast(w, v, r) ==
    /\ Manages(w, "admin.users")
    /\ r \in world.roles \ {"moderator"}
    /\ MayRevoke(w, r)
    /\ r = "admin" => Cardinality(Admins) >= 1
    /\ Go(w, "revoke", [req[w] EXCEPT !.target = v, !.role = r])
    /\ UNCHANGED <<world, user_roles, role_permissions, inner, cached, lost, full>>

BeginRevoke(w, v, r) ==
    /\ Manages(w, "admin.users")
    /\ r \in world.roles \ {"moderator"}
    /\ MayRevoke(w, r)
    /\ ~LastAdmin(r)
    /\ Go(w, "revoke", [req[w] EXCEPT !.target = v, !.role = r])
    /\ UNCHANGED <<world, user_roles, role_permissions, inner, cached, lost, full>>

Delete(u, r) ==
    /\ user_roles[u][r] # NoRow
    /\ user_roles' = [user_roles EXCEPT ![u][r] = NoRow]

Revoke(w) ==
    /\ pc[w] = "revoke"
    /\ LET q == req[w] IN
       \/ Delete(q.target, q.role) /\ Goto(w, "clear")
       \/ user_roles[q.target][q.role] = NoRow /\ Finish(w) /\ UNCHANGED user_roles
    /\ UNCHANGED <<world, role_permissions, inner, cached, lost, full>>

RevokeModerator(w, v) ==
    /\ "moderator" \in world.roles
    /\ Manages(w, "admin.users")
    /\ Delete(v, "moderator")
    /\ Go(w, "clear", [req[w] EXCEPT !.target = v])
    /\ UNCHANGED <<world, role_permissions, inner, cached, lost, full>>

(* Clearing the entry of the wrong user: the one who asks.                 *)
ClearOwn(w) ==
    /\ pc[w] = "clear"
    /\ cached' = [cached EXCEPT ![req[w].user] = NotCached]
    /\ Finish(w)
    /\ UNCHANGED <<world, user_roles, role_permissions, inner, lost, full>>

Clear(w) ==
    /\ pc[w] = "clear"
    /\ \/ cached' = [cached EXCEPT ![req[w].target] = NotCached]
       \/ May("cache_error") /\ UNCHANGED cached
    /\ Finish(w)
    /\ UNCHANGED <<world, user_roles, role_permissions, inner, lost, full>>

-----------------------------------------------------------------------------
(* set_role_permissions deletes, then inserts; the handler reloads.  The   *)
(* permissions of system roles cannot be set.                              *)

SetPermissions(w, keys) ==
    /\ "custom" \in world.roles
    /\ Manages(w, "admin.roles")
    /\ role_permissions' = {}
    /\ Go(w, IF keys = {} THEN "load" ELSE "insert", [req[w] EXCEPT !.set = keys])
    /\ UNCHANGED <<world, user_roles, inner, cached, lost, full>>

(* One statement; a key that another request has inserted meanwhile ends   *)
(* it with an error, and nothing is loaded.                                *)
InsertPermissions(w) ==
    /\ pc[w] = "insert"
    /\ \/ /\ req[w].set \cap role_permissions = {}
          /\ role_permissions' = role_permissions \cup req[w].set
          /\ full' = (full \/ role_permissions' = Key)
          /\ Goto(w, "load")
       \/ /\ req[w].set \cap role_permissions # {}
          /\ Finish(w)
          /\ UNCHANGED <<role_permissions, full>>
    /\ UNCHANGED <<world, user_roles, inner, cached, lost>>

Load(w) ==
    /\ pc[w] = "load"
    /\ Go(w, "publish", [req[w] EXCEPT !.set = role_permissions])
    /\ UNCHANGED <<world, user_roles, role_permissions, inner, cached, lost, full>>

Publish(w) ==
    /\ pc[w] = "publish"
    /\ inner' = req[w].set
    /\ Finish(w)
    /\ UNCHANGED <<world, user_roles, role_permissions, cached, lost, full>>

-----------------------------------------------------------------------------

Older(n) == IF n \in {NoRow, 0, Never} THEN n ELSE n - 1

Tick ==
    /\ Quiet
    /\ lost' = [u \in User |-> [r \in Role |->
                   IF Holds(u, r) THEN (IF user_roles[u][r] = 1 THEN 1 ELSE 0)
                   ELSE IF lost[u][r] > Ttl THEN Ttl + 1 ELSE lost[u][r] + 1]]
    /\ user_roles' = [u \in User |-> [r \in Role |-> Older(user_roles[u][r])]]
    /\ cached' = [u \in User |-> IF cached[u].ttl <= 1 THEN NotCached
                                 ELSE [cached[u] EXCEPT !.ttl = @ - 1]]
    /\ UNCHANGED <<world, role_permissions, inner, pc, req, full>>

Next ==
    \/ \E w \in Worker :
        \/ Query(w) \/ Fill(w) \/ Resolve(w) \/ Serve(w) \/ Assign(w) \/ Revoke(w) \/ Clear(w)
        \/ InsertPermissions(w) \/ Load(w) \/ Publish(w)
        \/ \E keys \in world.grants : SetPermissions(w, keys)
        \/ \E u \in User :
            \/ Arrive(w, u) \/ AssignModerator(w, u) \/ RevokeModerator(w, u)
            \/ \E r \in Role : BeginRevoke(w, u, r)
            \/ \E r \in Role, n \in {Lifetime, Never} : BeginAssign(w, u, r, n)
    \/ Tick

Spec == Init /\ [][Next]_vars

-----------------------------------------------------------------------------

(* There is always an administrator, however requests overlap, as long as  *)
(* no two of them revoke one and no assignment expires: "Prevent removing  *)
(* the admin role when this is the last global admin assignment".          *)
AlwaysAnAdmin == ~May("revocations") /\ ~May("expiry") => Admins # {}

(* The same whatever overlaps or expires, which revoke_role does not keep.  *)
AdminLeft == Admins # {}

(* Whatever overlaps or fails, nobody is served with a role that has been  *)
(* gone for as long as the cache keeps an entry: also a role that expired *)
(* and an entry that was filled while the role was being revoked.          *)
StaleForTtlAtMost ==
    \A w \in Worker : pc[w] # "idle" =>
        \A r \in req[w].roles : lost[req[w].user][r] < Ttl

(* Between requests that come one at a time a user's entry never says more *)
(* than the rows, nor less but for a moderator just made.                  *)
CacheSettles ==
    world.disturbance = {} /\ Quiet =>
        \A u \in User : cached[u].ttl > 0 =>
            /\ cached[u].roles \subseteq Effective(u)
            /\ Effective(u) \ {"moderator"} \subseteq cached[u].roles

(* What a request is served with is never older than a cache entry may be, *)
(* and settles to what the rows say.                                       *)
RolesServed == TypeOK /\ StaleForTtlAtMost /\ CacheSettles

(* As long as the custom role has never had every key, only a request of   *)
(* somebody who was an administrator within the last five minutes makes an *)
(* administrator: the keys to manage users and roles are not enough.  Once *)
(* it has had them all, a request of somebody who held that role within    *)
(* the last five minutes may, too: assign_role compares keys, not roles.   *)
AdminsMakeAdmins ==
    [][\A u \in User : ~Holds(u, "admin") /\ Holds(u, "admin")'
         => \E w \in Worker : /\ pc[w] = "assign"
                              /\ \/ lost[req[w].user]["admin"] < Ttl
                                 \/ full /\ lost[req[w].user]["custom"] < Ttl]_vars

=============================================================================
