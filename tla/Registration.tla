------------------------------ MODULE Registration ------------------------------
(***************************************************************************)
(* How an account comes into being: the registration with its look-ups,    *)
(* the plugins that may refuse it, the row, the default roles and the link *)
(* that verifies the address, and the level of trust that goes with it.    *)
(*                                                                         *)
(* Nothing here is a transaction: a request may fail or be cut off between *)
(* any two statements, and requests overlap.  Mail is a job without a      *)
(* retry; its link works for an hour, as often as it is followed.          *)
(***************************************************************************)
EXTENDS Naturals, FiniteSets

CONSTANTS
    Name, Address,
    Role,               \* the roles with is_default
    Worker,
    RegistrationWorlds,
    NoAccount

(* Trust levels: those above Regular act like it.                           *)
New == 0
Basic == 1
Regular == 2
Level == {New, Basic, Regular}

Requests == {"register", "verify", "resend", "set_level", "verify_user"}
Events == {"overlap", "db_error", "mail_error", "expiry", "restart", "early"}

Account == [name : Name, verified : BOOLEAN, level : Level, roles : SUBSET Role]
Request == [name : Name, to : Address, left : SUBSET Role, verified : BOOLEAN]

RegistrationConstants ==
    /\ NoAccount \notin Account
    /\ \A x \in RegistrationWorlds : /\ x.requests \subseteq Requests /\ x.auto \in BOOLEAN
                                     /\ x.events \subseteq Events

VARIABLES
    registration_world,
    account,            \* by address: NoAccount, or the row with its roles
    mail,               \* addresses with a link still to be sent
    link,               \* addresses that have a link that works
    granted,            \* by address: the last level an administrator set, if any
    registration_pc, registration_req

rowVars == <<account, granted>>
mailVars == <<mail, link>>
registrationVars == <<registration_world, rowVars, mailVars,
                      registration_pc, registration_req>>

Disturbed(event) == event \in registration_world.events

TypeOK ==
    /\ registration_world \in RegistrationWorlds
    /\ account \in [Address -> Account \cup {NoAccount}]
    /\ mail \subseteq Address /\ link \subseteq Address
    /\ granted \in [Address -> SUBSET Level]
    /\ \A w \in Worker : registration_pc[w] # "idle" => registration_req[w] \in Request

NoRequest == NoAccount

Init ==
    /\ registration_world \in RegistrationWorlds
    /\ account = [a \in Address |-> NoAccount]
    /\ mail = {} /\ link = {}
    /\ granted = [a \in Address |-> {}]
    /\ registration_pc = [w \in Worker |-> "idle"]
    /\ registration_req = [w \in Worker |-> NoRequest]

-----------------------------------------------------------------------------

Go(w, place, request) ==
    /\ registration_pc' = [registration_pc EXCEPT ![w] = place]
    /\ registration_req' = [registration_req EXCEPT ![w] = request]
Goto(w, place) == Go(w, place, registration_req[w])
Finish(w) == Go(w, "idle", NoRequest)

Idle(w, request) ==
    /\ registration_pc[w] = "idle" /\ request \in registration_world.requests
    /\ Disturbed("overlap") \/ \A v \in Worker : registration_pc[v] = "idle"

(* A database call that fails ends the request with the error.             *)
Fails(w) == Disturbed("db_error") /\ Finish(w)

(* A statement about the row of a request's account.                       *)
Write(w, changed, next) ==
    LET a == registration_req[w].to
    IN  /\ \/ account' = [account EXCEPT ![a] = changed] /\ next
           \/ Fails(w) /\ UNCHANGED account
        /\ UNCHANGED <<registration_world, granted, mailVars>>
Row(w) == account[registration_req[w].to]

Unchanged == UNCHANGED <<registration_world, rowVars, mailVars>>

-----------------------------------------------------------------------------
(* register.                                                               *)

(* With the site's registration closed nothing begins.                     *)
BeginRegister(w) ==
    /\ Idle(w, "register")
    /\ \E n \in Name, a \in Address :
          Go(w, "email", [name |-> n, to |-> a, left |-> {}, verified |-> FALSE])
    /\ Unchanged

(* Two look-ups, one after the other.                                      *)
find_by_email(w) ==
    /\ registration_pc[w] = "email"
    /\ IF Row(w) # NoAccount THEN Finish(w) ELSE (Goto(w, "name") \/ Fails(w))
    /\ Unchanged

Named(n) == {a \in Address : account[a] # NoAccount /\ account[a].name = n}

find_by_username(w) ==
    /\ registration_pc[w] = "name"
    /\ IF Named(registration_req[w].name) # {} THEN Finish(w) ELSE (Goto(w, "hook") \/ Fails(w))
    /\ Unchanged

(* A plugin may refuse.                                                    *)
BeforeHook(w) ==
    /\ registration_pc[w] = "hook"
    /\ Goto(w, "create") \/ Finish(w)
    /\ Unchanged

(* The row, under the unique keys of the name and the address; it is read  *)
(* back, and if that fails the row stays.                                  *)
Create(w) ==
    LET r == registration_req[w]
    IN  /\ registration_pc[w] = "create"
        /\ IF Row(w) # NoAccount \/ Named(r.name) # {}
           THEN Finish(w) /\ Unchanged
           ELSE Write(w, [name |-> r.name, verified |-> FALSE, level |-> New, roles |-> {}],
                      Goto(w, "roles") \/ Fails(w))

list_default(w) ==
    /\ registration_pc[w] = "roles"
    /\ Go(w, "assign", [registration_req[w] EXCEPT !.left = Role]) \/ Fails(w)
    /\ Unchanged

(* An assignment that fails is left out.                                   *)
Assign(w) ==
    LET r == registration_req[w]
        a == r.to
    IN  /\ registration_pc[w] = "assign"
        /\ \E role \in r.left :
              /\ Go(w, "assign", [r EXCEPT !.left = @ \ {role}])
              /\ \/ account' = [account EXCEPT ![a].roles = @ \cup {role}]
                 \/ Disturbed("db_error") /\ UNCHANGED account
        /\ UNCHANGED <<registration_world, granted, mailVars>>

(* auto_verify_email, or a link.                                           *)
Assigned(w) ==
    /\ registration_pc[w] = "assign" /\ registration_req[w].left = {}
    /\ Goto(w, IF registration_world.auto THEN "verified" ELSE "mail")
    /\ Unchanged

(* Mints a token and enqueues the mail.                                    *)
SendEmailVerification(w) ==
    /\ registration_pc[w] = "mail"
    /\ mail' = mail \cup {registration_req[w].to}
    /\ Finish(w)
    /\ UNCHANGED <<registration_world, rowVars, link>>

(* The job: what cannot be sent is not sent again.                         *)
Send(a) ==
    /\ a \in mail
    /\ mail' = mail \ {a}
    /\ \/ link' = link \cup {a}
       \/ Disturbed("mail_error") /\ UNCHANGED link
    /\ UNCHANGED <<registration_world, rowVars, registration_pc,
                   registration_req>>

(* The hour of every link sent to an address is over.                      *)
Expire(a) ==
    /\ Disturbed("expiry") /\ a \in link
    /\ link' = link \ {a}
    /\ UNCHANGED <<registration_world, rowVars, mail, registration_pc,
                   registration_req>>

-----------------------------------------------------------------------------
(* verify_email and resend_verification_email.                             *)

About(w, a, place) ==
    Go(w, place, [name |-> account[a].name, to |-> a, left |-> {},
                  verified |-> account[a].verified])

(* A token says who; the account is read.                                  *)
BeginVerify(w) ==
    /\ Idle(w, "verify")
    /\ \E a \in link : About(w, a, "found")
    /\ Unchanged

(* A link that works anew each time it is followed.                        *)
VerifyAnew(w) ==
    /\ registration_pc[w] = "found"
    /\ Goto(w, "verified")
    /\ Unchanged

Verify(w) ==
    /\ registration_pc[w] = "found"
    /\ IF registration_req[w].verified THEN Finish(w) ELSE (Goto(w, "verified") \/ Fails(w))
    /\ Unchanged

(* Of a registration or of a link.                                         *)
set_email_verified(w) ==
    /\ registration_pc[w] = "verified"
    /\ Write(w, [Row(w) EXCEPT !.verified = TRUE], Goto(w, "basic"))

set_trust_level(w) ==
    /\ registration_pc[w] = "basic"
    /\ Write(w, [Row(w) EXCEPT !.level = Basic], Finish(w))

(* A registered address that is not verified gets another link.            *)
BeginResend(w) ==
    /\ Idle(w, "resend")
    /\ \E a \in Address : /\ account[a] # NoAccount /\ ~account[a].verified
                          /\ About(w, a, "mail")
    /\ Unchanged

-----------------------------------------------------------------------------
(* Administrators.                                                         *)

(* Raises no level.                                                        *)
VerifyUserEmail ==
    /\ "verify_user" \in registration_world.requests
    /\ Disturbed("overlap") \/ \A w \in Worker : registration_pc[w] = "idle"
    /\ \E a \in Address : /\ account[a] # NoAccount
                          /\ account' = [account EXCEPT ![a].verified = TRUE]
    /\ UNCHANGED <<registration_world, granted, mailVars, registration_pc,
                   registration_req>>

SetTrustLevel ==
    /\ "set_level" \in registration_world.requests
    /\ Disturbed("overlap") \/ \A w \in Worker : registration_pc[w] = "idle"
    /\ \E a \in Address, l \in Level :
          /\ account[a] # NoAccount
          /\ account[a].verified \/ Disturbed("early")
          /\ account' = [account EXCEPT ![a].level = l]
          /\ granted' = [granted EXCEPT ![a] = {l}]
    /\ UNCHANGED <<registration_world, mailVars, registration_pc,
                   registration_req>>

(* A restart loses the requests and the mail.                              *)
Restart ==
    /\ Disturbed("restart")
    /\ registration_pc' = [w \in Worker |-> "idle"]
    /\ registration_req' = [w \in Worker |-> NoRequest]
    /\ mail' = {}
    /\ UNCHANGED <<registration_world, rowVars, link>>

Register(w) ==
    \/ BeginRegister(w) \/ find_by_email(w) \/ find_by_username(w) \/ BeforeHook(w)
    \/ Create(w) \/ list_default(w) \/ Assign(w) \/ Assigned(w) \/ SendEmailVerification(w)
Verification(w) ==
    BeginVerify(w) \/ Verify(w) \/ set_email_verified(w) \/ set_trust_level(w) \/ BeginResend(w)

Next ==
    \/ \E w \in Worker : Register(w) \/ Verification(w)
    \/ \E a \in Address : Send(a) \/ Expire(a)
    \/ VerifyUserEmail \/ SetTrustLevel \/ Restart

Spec == Init /\ [][Next]_registrationVars

-----------------------------------------------------------------------------

Without(events) == registration_world.events \cap events = {}
Settled(a) ==
    account[a] # NoAccount /\ \A w \in Worker : registration_pc[w] # "idle" =>
                                                    registration_req[w].to # a

(* However registrations overlap, a name is one account's, and nobody      *)
(* takes over an account: its name stays.                                  *)
OneAccountEach == \A n \in Name : Cardinality(Named(n)) <= 1

(* An account has every default role once its registration is over, unless *)
(* a database call failed or the process stopped: nothing gives it the     *)
(* roles afterwards.                                                       *)
RolesGiven ==
    Without({"db_error", "restart"}) =>
        \A a \in Address : Settled(a) => account[a].roles = Role

(* A verified account is above New, unless an administrator says otherwise *)
(* or a failure came between the two statements: no later verification     *)
(* makes up for it.                                                        *)
VerifiedIsBasic ==
    Without({"db_error", "restart"}) /\ "verify_user" \notin registration_world.requests =>
        \A a \in Address : Settled(a) /\ account[a].verified /\ granted[a] = {} =>
            account[a].level # New

(* The level an administrator gave a verified account stays, however often *)
(* the link is followed; one that was given before, or while a link is     *)
(* followed, may be lost.                                                  *)
LevelStands ==
    Without({"overlap", "early"}) =>
        \A a \in Address : granted[a] # {} => granted[a] = {account[a].level}

RegistrationHolds ==
    TypeOK /\ OneAccountEach /\ RolesGiven /\ VerifiedIsBasic /\ LevelStands

=============================================================================
