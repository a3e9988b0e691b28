-------------------------------- MODULE Sessions --------------------------------
(***************************************************************************)
(* One account: its lockout, its ban, its sessions and its password reset. *)
(*                                                                         *)
(* Sources: AuthUseCase (login, refresh, logout, reset), AdminUseCase and  *)
(* ModerationUseCase (ban, temp_ban, unban), auth_middleware, the user     *)
(* repository and the two caches.  The ban is written twice: the row, which *)
(* login and refresh read, and the key user:banned:<id>, which every       *)
(* request with an access token looks up.  Each database or cache call is  *)
(* a step.                                                                 *)
(*                                                                         *)
(* An instant is the ticks left until it.  A tick is minutes and a request *)
(* takes less, so time passes between requests.  Access tokens are not     *)
(* told apart but by their age, since login and refresh mint none for an   *)
(* account they read as banned.                                            *)
(***************************************************************************)
EXTENDS Naturals, FiniteSets

CONSTANTS
    Client,      \* requests of the account's user in flight
    Moderator,   \* requests that ban or unban it
    Token,       \* refresh tokens
    AccessTtl,   \* lives of the tokens, with the leeway of their verification
    RefreshTtl,
    ResetTtl,
    Attempts,    \* account_lockout_attempts
    LockTime,    \* account_lockout_duration
    BanTime,     \* length of a temporary ban
    SessionWorlds,      \* the worlds a behaviour may be in
    NoToken

(***************************************************************************)
(* A world is the requests that are sent and what may disturb them:        *)
(*   overlap      two moderators at work at once                           *)
(*   cache_error  a cache call fails                                       *)
(*   restart      the process restarts and loses the in-memory cache       *)
(*   past         a ban may end before it begins (the admin's may)         *)
(***************************************************************************)
SessionWorld == [requests: SUBSET {"wrong", "right", "refresh", "ban", "unban", "reset"},
                 disturbance: SUBSET {"overlap", "cache_error", "restart", "past"}]

SessionConstants ==
    /\ SessionWorlds \subseteq SessionWorld
    /\ {AccessTtl, RefreshTtl, ResetTtl, Attempts, LockTime, BanTime} \subseteq Nat \ {0}
    /\ IsFiniteSet(Client) /\ Client # {}
    /\ NoToken \notin Token

VARIABLES
    session_world,               \* chosen once
    failed_login_count,  \* users
    locked_until,
    banned_until,        \* 0 for an account that is not banned now
    flag,                \* the key user:banned:<id>
    keys,                \* the keys refresh:<id>:<token>
    life,                \* refresh tokens given out
    access,              \* access tokens given out
    reset,               \* the mailed reset token, and its key used_token:...
    session_pc, session_req

row == <<failed_login_count, locked_until, banned_until>>
tokens == <<keys, life, access>>

VARIABLES      \* history, for the properties
    guesses,   \* wrong passwords since the last right one or the last lock
    since,     \* ticks the account has been banned, up to AccessTtl
    late       \* tokens given out while the account was banned

history == <<guesses, since, late>>
sessionVars == <<session_world, row, flag, tokens, reset, session_pc, session_req, history>>

Forever == BanTime + 1
MaxGuesses == Attempts + Cardinality(Client)
Banned == banned_until # 0
With(kind) == kind \in session_world.requests
Can(kind) == kind \in session_world.disturbance
Cap(n, limit) == IF n < limit THEN n ELSE limit

Actor == Client \cup Moderator
NoErrand == [token |-> NoToken, until |-> 0, op |-> "none"]

SessionStage == {"idle", "increment", "lock", "reset", "mint", "load", "hash", "flag", "sweep",
                 "unflag"}
Errand == [token: Token \cup {NoToken}, until: 0..Forever, op: {"none", "ban", "temp_ban"}]

SessionTypeOK ==
    /\ session_world \in SessionWorlds
    /\ failed_login_count \in 0..Attempts
    /\ locked_until \in 0..LockTime
    /\ banned_until \in 0..Forever /\ flag \in 0..Forever
    /\ keys \in [Token -> 0..RefreshTtl] /\ life \in [Token -> 0..RefreshTtl]
    /\ access \subseteq 1..AccessTtl
    /\ reset \in [left: 0..ResetTtl + 1, used: 0..ResetTtl + 1, changes: 0..2]
    /\ session_pc \in [Actor -> SessionStage] /\ session_req \in [Actor -> Errand]
    /\ guesses \in 0..MaxGuesses /\ since \in 0..AccessTtl /\ late \subseteq Token

SessionInit ==
    /\ session_world \in SessionWorlds
    /\ failed_login_count = 0 /\ locked_until = 0 /\ banned_until = 0
    /\ flag = 0
    /\ keys = [r \in Token |-> 0] /\ life = [r \in Token |-> 0]
    /\ access = {}
    /\ reset = [left |-> 0, used |-> 0, changes |-> 0]
    /\ session_pc = [x \in Actor |-> "idle"]
    /\ session_req = [x \in Actor |-> NoErrand]
    /\ guesses = 0 /\ since = 0 /\ late = {}

-----------------------------------------------------------------------------

Move(x, label) == session_pc' = [session_pc EXCEPT ![x] = label] /\ UNCHANGED session_req
Settle(x) == /\ session_pc' = [session_pc EXCEPT ![x] = "idle"]
             /\ session_req' = [session_req EXCEPT ![x] = NoErrand]
Begin(x, label, r) == /\ session_pc[x] = "idle"
                      /\ session_pc' = [session_pc EXCEPT ![x] = label]
                      /\ session_req' = [session_req EXCEPT ![x] = r]

(* login.  What it looks at of the row, it looks at as read here.          *)
WrongPassword(c) ==
    /\ With("wrong")
    /\ locked_until = 0
    /\ Begin(c, "increment", NoErrand)
    /\ UNCHANGED <<session_world, row, flag, tokens, reset, history>>

(* Bound: a login starts only while there is a token left to give out.     *)
TokenLeft == Cardinality({r \in Token : life[r] = 0})
                > Cardinality({c \in Client : session_pc[c] \in {"reset", "mint"}})

RightPassword(c) ==
    /\ With("right")
    /\ TokenLeft
    /\ locked_until = 0 /\ ~Banned
    /\ Begin(c, "reset", NoErrand)
    /\ UNCHANGED <<session_world, row, flag, tokens, reset, history>>

(* One UPDATE ... RETURNING; a count above Attempts acts like Attempts.    *)
IncrementFailed(c) ==
    /\ session_pc[c] = "increment"
    /\ failed_login_count' = Cap(failed_login_count + 1, Attempts)
    /\ guesses' = Cap(guesses + 1, MaxGuesses)
    /\ IF failed_login_count' >= Attempts THEN Move(c, "lock") ELSE Settle(c)
    /\ UNCHANGED <<session_world, locked_until, banned_until, flag, tokens, reset, since, late>>

LockUntil(c) ==
    /\ session_pc[c] = "lock"
    /\ locked_until' = LockTime
    /\ Settle(c)
    /\ UNCHANGED <<session_world, failed_login_count, banned_until, flag, tokens, reset, history>>

ResetFailed(c) ==
    /\ session_pc[c] = "reset"
    /\ failed_login_count' = 0 /\ locked_until' = 0
    /\ guesses' = 0
    /\ Move(c, "mint")
    /\ UNCHANGED <<session_world, banned_until, flag, tokens, reset, since, late>>

(* The tokens are given out once the key is in the cache; the claims are   *)
(* those of the row as it was read.                                        *)
Mint(c) ==
    /\ session_pc[c] = "mint"
    /\ \/ \E r \in Token :
            /\ life[r] = 0
            /\ keys' = [keys EXCEPT ![r] = RefreshTtl]
            /\ life' = [life EXCEPT ![r] = RefreshTtl]
            /\ access' = access \cup {AccessTtl}
            /\ late' = IF Banned THEN late \cup {r} ELSE late \ {r}
       \/ Can("cache_error") /\ UNCHANGED <<tokens, late>>
    /\ Settle(c)
    /\ UNCHANGED <<session_world, row, flag, reset, guesses, since>>

BeginRefresh(c, r) ==
    /\ With("refresh")
    /\ life[r] # 0 /\ keys[r] # 0
    /\ Begin(c, "load", [NoErrand EXCEPT !.token = r])
    /\ UNCHANGED <<session_world, row, flag, tokens, reset, history>>

LoadUser(c) ==
    /\ session_pc[c] = "load"
    /\ access' = IF Banned THEN access ELSE access \cup {AccessTtl}
    /\ Settle(c)
    /\ UNCHANGED <<session_world, row, flag, keys, life, reset, history>>

Logout(c, r) ==
    /\ With("refresh") /\ session_pc[c] = "idle"
    /\ life[r] # 0 /\ access # {}
    /\ keys' = [keys EXCEPT ![r] = 0]
    /\ UNCHANGED <<session_world, row, flag, life, access, reset, session_pc, session_req, history>>

-----------------------------------------------------------------------------
(* forgot_password and reset_password.                                     *)

ForgotPassword ==
    /\ With("reset")
    /\ reset = [left |-> 0, used |-> 0, changes |-> 0]
    /\ \A c \in Client : session_pc[c] # "hash"
    /\ reset' = [reset EXCEPT !.left = ResetTtl + 1]
    /\ UNCHANGED <<session_world, row, flag, tokens, session_pc, session_req, history>>

(* A claim that lasts as long as the token is good without leeway.         *)
ClaimTokenExactly(c) ==
    /\ reset.left # 0 /\ reset.used = 0
    /\ reset' = [reset EXCEPT !.used = ResetTtl]
    /\ Begin(c, "hash", NoErrand)
    /\ UNCHANGED <<session_world, row, flag, tokens, history>>

(* set_nx: a minute longer than the token lives.                           *)
ClaimToken(c) ==
    /\ reset.left # 0 /\ reset.used = 0
    /\ reset' = [reset EXCEPT !.used = ResetTtl + 1]
    /\ Begin(c, "hash", NoErrand)
    /\ UNCHANGED <<session_world, row, flag, tokens, history>>

SetPasswordHash(c) ==
    /\ session_pc[c] = "hash"
    /\ reset' = [reset EXCEPT !.changes = Cap(@ + 1, 2)]
    /\ Settle(c)
    /\ UNCHANGED <<session_world, row, flag, tokens, history>>

-----------------------------------------------------------------------------
(* ban, temp_ban and unban.                                                *)

MayModerate(m) ==
    Can("overlap") \/ \A x \in Moderator \ {m} : session_pc[x] = "idle"

BanRow(m, op, until) ==
    /\ With("ban") /\ MayModerate(m)
    /\ banned_until' = until
    /\ since' = IF Banned /\ until # 0 THEN since ELSE 0
    /\ Begin(m, "flag", [NoErrand EXCEPT !.until = until, !.op = op])
    /\ UNCHANGED <<session_world, failed_login_count, locked_until, flag, tokens, reset,
                   guesses, late>>

(* The administrator's, with or without an end, and the moderator's.       *)
Ban(m) ==
    \/ \E until \in {BanTime, Forever} : BanRow(m, "ban", until)
    \/ Can("past") /\ BanRow(m, "ban", 0)
TempBan(m) == BanRow(m, "temp_ban", BanTime)

(* Redis refuses a key that lives no time.                                 *)
SetFlag(m) ==
    /\ session_pc[m] = "flag"
    /\ \/ flag' = session_req[m].until
       \/ (Can("cache_error") \/ session_req[m].until = 0) /\ UNCHANGED flag
    /\ Move(m, "sweep")
    /\ UNCHANGED <<session_world, row, tokens, reset, history>>

(* A ban that leaves the sessions to expire.                               *)
SweepNothing(m) ==
    /\ session_pc[m] = "sweep"
    /\ Settle(m)
    /\ UNCHANGED <<session_world, row, flag, tokens, reset, history>>

(* del_prefix. *)
SweepSessions(m) ==
    /\ session_pc[m] = "sweep"
    /\ \/ keys' = [r \in Token |-> 0]
       \/ Can("cache_error") /\ UNCHANGED keys
    /\ Settle(m)
    /\ UNCHANGED <<session_world, row, flag, life, access, reset, history>>

UnbanRow(m) ==
    /\ With("unban") /\ MayModerate(m)
    /\ banned_until' = 0
    /\ since' = 0
    /\ Begin(m, "unflag", NoErrand)
    /\ UNCHANGED <<session_world, failed_login_count, locked_until, flag, tokens, reset,
                   guesses, late>>

DropFlag(m) ==
    /\ session_pc[m] = "unflag"
    /\ \/ flag' = 0
       \/ Can("cache_error") /\ UNCHANGED flag
    /\ Settle(m)
    /\ UNCHANGED <<session_world, row, tokens, reset, history>>

-----------------------------------------------------------------------------

AllIdle == \A x \in Actor : session_pc[x] = "idle"
Less(n) == IF n = 0 THEN 0 ELSE n - 1

TimePasses ==
    /\ AllIdle
    /\ locked_until' = Less(locked_until)
    /\ guesses' = IF locked_until = 1 THEN 0 ELSE guesses
    /\ banned_until' = IF banned_until = Forever THEN Forever ELSE Less(banned_until)
    /\ since' = IF banned_until' # 0 THEN Cap(since + 1, AccessTtl) ELSE 0
    /\ flag' = IF flag = Forever THEN Forever ELSE Less(flag)
    /\ keys' = [r \in Token |-> Less(keys[r])]
    /\ life' = [r \in Token |-> Less(life[r])]
    /\ late' = {r \in late : life[r] > 1}
    /\ access' = {n - 1 : n \in access \ {1}}
    /\ reset' = IF reset.left = 1 THEN [left |-> 0, used |-> 0, changes |-> 0]
                ELSE [reset EXCEPT !.left = Less(@), !.used = Less(@)]
    /\ UNCHANGED <<session_world, failed_login_count, session_pc, session_req>>

(* The in-memory cache starts empty; requests in flight are gone. *)
Restart ==
    /\ Can("restart")
    /\ flag' = 0
    /\ keys' = [r \in Token |-> 0]
    /\ reset' = [reset EXCEPT !.used = 0]
    /\ session_pc' = [x \in Actor |-> "idle"]
    /\ session_req' = [x \in Actor |-> NoErrand]
    /\ UNCHANGED <<session_world, row, life, access, history>>

SessionNext ==
    \/ \E c \in Client :
        \/ WrongPassword(c) \/ IncrementFailed(c) \/ LockUntil(c)
        \/ RightPassword(c) \/ ResetFailed(c) \/ Mint(c)
        \/ LoadUser(c) \/ ClaimToken(c) \/ SetPasswordHash(c)
        \/ \E r \in Token : BeginRefresh(c, r) \/ Logout(c, r)
    \/ \E m \in Moderator :
        \/ Ban(m) \/ TempBan(m) \/ SetFlag(m) \/ SweepSessions(m) \/ UnbanRow(m) \/ DropFlag(m)
    \/ ForgotPassword
    \/ TimePasses
    \/ Restart

SessionSpec == SessionInit /\ [][SessionNext]_sessionVars

-----------------------------------------------------------------------------

Calm == session_world.disturbance = {}

(* Between moderations that come one at a time, the flag every request is  *)
(* checked against says what the row says, until the same instant: a       *)
(* banned user is refused and no other is.                                 *)
FlagFollowsBan ==
    Calm /\ (\A m \in Moderator : session_pc[m] = "idle") => flag = banned_until

(* ... and the sessions the account had are over.  Only a login that had   *)
(* read the account before the ban leaves one.                             *)
BanEndsSessions ==
    Calm /\ AllIdle /\ Banned => \A r \in Token \ late : keys[r] = 0

(* Whatever fails, overlaps or restarts: a user who stays banned for as    *)
(* long as an access token lives has none any more, since nothing gives a  *)
(* banned user a new one.                                                  *)
BanTakesHold == AllIdle /\ Banned /\ since = AccessTtl => access = {}

(* However logins overlap, fewer wrong passwords are tried between two     *)
(* locks than the limit and the requests in flight, as long as no restart  *)
(* comes between a count that reaches the limit and its lock.              *)
GuessesBounded == ~Can("restart") => guesses <= Attempts - 1 + Cardinality(Client)

(* A reset token changes the password once, as long as the cache keeps     *)
(* what it is told: the key outlives the token.                            *)
ResetOnce == ~Can("restart") => reset.changes <= 1

(* Between moderations one at a time, the flag in the cache lasts exactly  *)
(* as long as the ban in the row and the sessions from before the ban are  *)
(* over; and whatever fails, a ban holds once an access token's life has   *)
(* passed.                                                                 *)
BansHold == SessionTypeOK /\ FlagFollowsBan /\ BanEndsSessions /\ BanTakesHold

(* Wrong passwords between two locks are bounded, however logins overlap,  *)
(* and a reset token changes the password once.                            *)
CredentialsHold == GuessesBounded /\ ResetOnce

(* The flag and the row agree between requests, in every world.            *)
FlagAgrees == AllIdle => (flag = 0 <=> banned_until = 0)

=============================================================================
