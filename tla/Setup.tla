-------------------------------- MODULE Setup --------------------------------
(***************************************************************************)
(* The first run of ferum-board: the request that makes the first          *)
(* administrator, the same run from the environment when the server        *)
(* starts, the guard that sends visitors to /setup, and the example data   *)
(* that run may ask for.                                                   *)
(*                                                                         *)
(* A run holds a mutex, but it is no transaction: each of its statements   *)
(* is committed, and any may fail or be the last one of the process.  The  *)
(* site is quiet while the example data is written.                        *)
(***************************************************************************)
EXTENDS Naturals, Sequences, FiniteSetsExt, Functions, TLC

CONSTANTS
  Worker,          \* runs in flight
  Boot,            \* the one the server starts for itself
  Name,            \* user name and e-mail address, which are taken together
  Moderator, Alice, Bob,                      \* the names of the example users
  BulkUsers, BulkThreads, PostsPerThread,     \* how many the seed writes
  BulkReactions, BulkNotices,
  SetupWorlds, Nobody

(* A world: the name in the environment, if any, the names that are sent,  *)
(* whether example data may be asked for, and what may go wrong.           *)
SetupConstants ==
  /\ Boot \in Worker /\ {Moderator, Alice, Bob} \subseteq Name
  /\ Nobody \notin Name \cup Worker
  /\ {BulkUsers, BulkThreads, PostsPerThread, BulkReactions, BulkNotices} \subseteq Nat \ {0}
  /\ \A x \in SetupWorlds :
       /\ x.headless \in Name \cup {Nobody} /\ x.names \subseteq Name
       /\ x.seeds \subseteq BOOLEAN
       /\ x.events \subseteq {"error", "restart"}

VARIABLES
  setup_world,
  server,          \* starting, up, or stopped with an error
  setup_complete,  \* the guard's latch
  setup_lock,      \* who holds it
  stage, form,     \* where each run stands, and what it was sent
  told,            \* what the run of the start answered
  accounts,        \* by id: verified, trust level, roles, and preferences
  site             \* the tables of the example content

setupVars == <<setup_world, server, setup_complete, setup_lock, stage, form, told,
               accounts, site>>

Made(n) == <<"made", n>>
Seeded(n) == <<"seed", n>>
Numbered(i) == <<"bulk", i>>
ExampleUser == {Seeded(n) : n \in {Moderator, Alice, Bob}}

SeedStage == <<"users", "bulk_users", "roles", "preferences", "categories", "threads",
               "posts", "reactions", "tags", "bulk_threads", "bulk_posts", "sync",
               "bulk_reactions", "notices">>
Stage == {"idle", "wait", "check", "find", "create", "verify", "level", "assign",
          "config", "session"} \cup Range(SeedStage)

NoForm == [name |-> Nobody, seed |-> FALSE]
NewAccount == [verified |-> FALSE, level |-> "new", roles |-> {}, preferences |-> FALSE]
NoContent == [categories |-> {}, threads |-> <<>>, posts |-> {}, reactions |-> {},
              tags |-> {}, notices |-> {}, complete |-> FALSE]

TypeOK ==
  /\ setup_world \in SetupWorlds /\ server \in {"starting", "up", "stopped"}
  /\ setup_complete \in BOOLEAN /\ setup_lock \in Worker \cup {Nobody}
  /\ stage \in [Worker -> Stage]
  /\ told \in {"nothing", "ok", "done", "taken", "error"}
  /\ \A u \in DOMAIN accounts :
       accounts[u].roles \subseteq {"admin", "moderator", "member"}

Init ==
  /\ setup_world \in SetupWorlds
  /\ server = "starting" /\ setup_complete = FALSE /\ setup_lock = Nobody
  /\ stage = [w \in Worker |-> "idle"]
  /\ form = [w \in Worker |-> NoForm] /\ told = "nothing"
  /\ accounts = <<>> /\ site = NoContent

Administrators == {u \in DOMAIN accounts : "admin" \in accounts[u].roles}
needs_setup == Administrators = {}

(* Rows join those there are, which stay.                                  *)
With(rows, new) ==
  [k \in DOMAIN rows \cup DOMAIN new |-> IF k \in DOMAIN rows THEN rows[k] ELSE new[k]]

NameOf(u) == u[2]
Taken(n) == \E u \in DOMAIN accounts : NameOf(u) = n

-----------------------------------------------------------------------------
(* A run                                                                   *)

Start(w, n, seed) ==
  /\ stage[w] = "idle"
  /\ stage' = [stage EXCEPT ![w] = "wait"]
  /\ form' = [form EXCEPT ![w] = [name |-> n, seed |-> seed]]

AcquireFree(w) ==
  /\ stage[w] = "wait"
  /\ setup_lock' = w
  /\ stage' = [stage EXCEPT ![w] = "check"]
  /\ UNCHANGED <<setup_world, server, setup_complete, form, told, accounts, site>>

Acquire(w) ==
  /\ stage[w] = "wait" /\ setup_lock = Nobody
  /\ setup_lock' = w
  /\ stage' = [stage EXCEPT ![w] = "check"]
  /\ UNCHANGED <<setup_world, server, setup_complete, form, told, accounts, site>>

(* A run ends: the lock is dropped, and the server that waited for the run *)
(* of its own start goes on, or stops.                                     *)
Answer(w, answer) ==
  /\ stage' = [stage EXCEPT ![w] = "idle"]
  /\ setup_lock' = IF setup_lock = w THEN Nobody ELSE setup_lock
  /\ form' = [form EXCEPT ![w] = NoForm]
  /\ IF w = Boot
     THEN told' = answer /\ server' = IF answer = "ok" THEN "up" ELSE "stopped"
     ELSE UNCHANGED <<told, server>>
  /\ UNCHANGED <<setup_world, setup_complete>>

Goto(w, s) ==
  /\ stage' = [stage EXCEPT ![w] = s]
  /\ UNCHANGED <<setup_world, server, setup_complete, setup_lock, form, told>>

Refused(w) ==
  /\ \/ stage[w] = "check" /\ ~needs_setup /\ Answer(w, "done")
     \/ stage[w] = "find" /\ Taken(form[w].name) /\ Answer(w, "taken")
  /\ UNCHANGED <<accounts, site>>

Checked(w) ==
  /\ \/ stage[w] = "check" /\ needs_setup /\ Goto(w, "find")
     \/ stage[w] = "find" /\ ~Taken(form[w].name) /\ Goto(w, "create")
  /\ UNCHANGED <<accounts, site>>

Self(w) == Made(form[w].name)

CreateAdmin(w) ==
  /\ stage[w] = "create"
  /\ accounts' = With(accounts, [u \in {Self(w)} |-> NewAccount])
  /\ Goto(w, "verify")
  /\ UNCHANGED site

Verify(w) ==
  /\ stage[w] = "verify"
  /\ accounts' = [accounts EXCEPT ![Self(w)].verified = TRUE]
  /\ Goto(w, "level")
  /\ UNCHANGED site

SetTrustLevel(w) ==
  /\ stage[w] = "level"
  /\ accounts' = [accounts EXCEPT ![Self(w)].level = "member"]
  /\ Goto(w, "assign")
  /\ UNCHANGED site

AssignAdmin(w) ==
  /\ stage[w] = "assign"
  /\ accounts' = [accounts EXCEPT ![Self(w)].roles = @ \cup {"admin"}]
  /\ Goto(w, "config")
  /\ UNCHANGED site

WriteConfig(w) ==
  /\ stage[w] = "config"
  /\ Goto(w, IF form[w].seed THEN SeedStage[1] ELSE "session")
  /\ UNCHANGED <<accounts, site>>

OpenSession(w) ==
  /\ stage[w] = "session"
  /\ Answer(w, "ok")
  /\ UNCHANGED <<accounts, site>>

(* A statement of the run fails.  What was written before stays.           *)
Fails(w) ==
  /\ "error" \in setup_world.events
  /\ stage[w] \notin {"idle", "wait"}
  /\ Answer(w, "error")
  /\ UNCHANGED <<accounts, site>>

Run(w) ==
  Acquire(w) \/ Refused(w) \/ Checked(w) \/ CreateAdmin(w) \/ Verify(w)
  \/ SetTrustLevel(w) \/ AssignAdmin(w) \/ WriteConfig(w) \/ OpenSession(w) \/ Fails(w)

-----------------------------------------------------------------------------
(* The example data                                                        *)

After(w) ==
  LET at == CHOOSE k \in DOMAIN SeedStage : SeedStage[k] = stage[w]
  IN  IF at = Len(SeedStage) THEN "session" ELSE SeedStage[at + 1]

(* A statement of the seed: INSERT ... ON CONFLICT DO NOTHING skips rows   *)
(* whose key is there, and fails as a whole for a row whose user is not.   *)
SeedStep(w, s, users) ==
  /\ stage[w] = s
  /\ users \subseteq DOMAIN accounts
  /\ Goto(w, After(w))

NoUser(w) ==
  /\ stage[w] = "roles"
  /\ ~ExampleUser \subseteq DOMAIN accounts
  /\ Answer(w, "error")
  /\ UNCHANGED <<accounts, site>>

Vacant(users) == {u \in users : u \notin DOMAIN accounts /\ ~Taken(NameOf(u))}
Member(l) == [verified |-> TRUE, level |-> l, roles |-> {}, preferences |-> FALSE]

SeedUsers(w) ==
  /\ SeedStep(w, "users", {})
  /\ accounts' = With(accounts, [u \in Vacant(ExampleUser) |->
                                    Member(IF u = Seeded(Bob) THEN "basic" ELSE "member")])
  /\ UNCHANGED site

SeedBulkUsers(w) ==
  /\ SeedStep(w, "bulk_users", {})
  /\ accounts' = With(accounts,
       [u \in Vacant({Numbered(i) : i \in 1 .. BulkUsers}) |->
          Member(<<"new", "basic", "basic", "member", "member">>[((u[2] - 1) % 5) + 1])])
  /\ UNCHANGED site

BulkIds == {Numbered(i) : i \in 1 .. BulkUsers} \cap DOMAIN accounts

SeedUserRoles(w) ==
  /\ SeedStep(w, "roles", ExampleUser)
  /\ accounts' = [u \in DOMAIN accounts |->
       IF u \in ExampleUser \cup BulkIds
       THEN [accounts[u] EXCEPT
               !.roles = @ \cup {IF u = Seeded(Moderator) THEN "moderator" ELSE "member"}]
       ELSE accounts[u]]
  /\ UNCHANGED site

SeedPreferences(w) ==
  /\ SeedStep(w, "preferences", ExampleUser)
  /\ accounts' = [u \in DOMAIN accounts |->
       IF u \in ExampleUser \cup BulkIds \cup {Self(w)}
       THEN [accounts[u] EXCEPT !.preferences = TRUE] ELSE accounts[u]]
  /\ UNCHANGED site

Public == {"general", "introductions", "off-topic", "technology", "programming",
           "hardware", "site-feedback"}

Write(w, s, content) ==
  /\ SeedStep(w, s, ExampleUser)
  /\ site' = content
  /\ UNCHANGED accounts

SeedCategories(w) == Write(w, "categories", [site EXCEPT !.categories = Public \cup {"staff-only"}])

(* By example thread: its category, the replies the row is written with,   *)
(* and the authors of its posts in order; its own author writes the first. *)
Example(admin) ==
  [welcome |-> [category |-> "general", replies |-> 2,
                authors |-> <<admin, Seeded(Alice), Seeded(Bob)>>],
   intro |-> [category |-> "introductions", replies |-> 1,
              authors |-> <<Seeded(Moderator), Seeded(Alice)>>],
   language |-> [category |-> "programming", replies |-> 2,
                 authors |-> <<Seeded(Alice), Seeded(Bob), Seeded(Moderator)>>],
   rust_vs_go |-> [category |-> "programming", replies |-> 2,
                   authors |-> <<Seeded(Bob), Seeded(Alice), admin>>],
   dark_mode |-> [category |-> "site-feedback", replies |-> 1,
                  authors |-> <<Seeded(Alice), admin>>]]

Row(category, author, replies, last) ==
  [category |-> category, author |-> author, replies |-> replies, last |-> last]
PostRow(t, author, n, age) == [thread |-> t, author |-> author, n |-> n, age |-> age]

SeedThreads(w) ==
  LET example == Example(Self(w)) IN
  Write(w, "threads", [site EXCEPT !.threads =
    [t \in {<<"example", x>> : x \in DOMAIN example} |->
       Row(example[t[2]].category, Head(example[t[2]].authors), example[t[2]].replies, 0)]])

SeedPosts(w) ==
  LET example == Example(Self(w)) IN
  Write(w, "posts", [site EXCEPT !.posts = UNION
    {{PostRow(<<"example", x>>, example[x].authors[n], n, Len(example[x].authors) - n) :
        n \in DOMAIN example[x].authors} : x \in DOMAIN example}])

SeedReactions(w) ==
  Write(w, "reactions", [site EXCEPT !.reactions =
    {<<<<"example", r[1]>>, r[2], r[3], r[4]>> :
       r \in {<<"welcome", 1, Seeded(Alice), "like">>, <<"welcome", 1, Seeded(Bob), "helpful">>,
              <<"welcome", 2, Self(w), "like">>, <<"rust_vs_go", 1, Seeded(Alice), "insightful">>,
              <<"rust_vs_go", 2, Seeded(Bob), "like">>,
              <<"dark_mode", 1, Seeded(Moderator), "like">>,
              <<"language", 1, Seeded(Bob), "helpful">>}}])

SeedTags(w) ==
  Write(w, "tags", [site EXCEPT !.tags =
    {<<<<"example", x[1]>>, x[2]>> :
       x \in {<<"welcome", "community">>, <<"intro", "community">>, <<"language", "question">>,
              <<"language", "rust">>, <<"rust_vs_go", "rust">>, <<"rust_vs_go", "question">>,
              <<"dark_mode", "webdev">>}}])

InSomeOrder(S) == FoldSet(LAMBDA x, rest : Append(rest, x), <<>>, S)
Users == InSomeOrder(DOMAIN accounts)
Turn(sequence, i) == sequence[(i % Len(sequence)) + 1]
BulkThread == {<<"bulk", i>> : i \in 1 .. BulkThreads}

(* Thread i was created 2 * i minutes ago.                                 *)
SeedBulkThreads(w) ==
  Write(w, "bulk_threads", [site EXCEPT !.threads = With(@,
    [t \in BulkThread |->
       Row(Turn(InSomeOrder(site.categories \cap Public), t[2] - 1), Turn(Users, t[2] - 1), 0,
           2 * t[2])])])

(* Threads are taken from the oldest on, and each gets the minutes before  *)
(* the next one's for its posts.                                           *)
AgeOf(position, n) ==
  (BulkThreads - 1 - position) * (PostsPerThread + 2) + PostsPerThread - n

SeedBulkPosts(w) ==
  Write(w, "bulk_posts", [site EXCEPT !.posts = @ \cup UNION
    {LET position == BulkThreads - t[2]
     IN  {PostRow(t, IF n = 0 THEN site.threads[t].author
                     ELSE Turn(Users, position * PostsPerThread + n),
                  n + 1, AgeOf(position, n)) : n \in 0 .. PostsPerThread - 1}
       : t \in BulkThread}])

PostsOf(t) == {p \in site.posts : p.thread = t}
Newest(posts) == Min({p.age : p \in posts})

SyncThreadStats(w) ==
  Write(w, "sync", [site EXCEPT !.threads = [t \in DOMAIN site.threads |->
    IF t \in BulkThread
    THEN [site.threads[t] EXCEPT !.replies = Cardinality(PostsOf(t)) - 1,
                                 !.last = Newest(PostsOf(t))]
    ELSE site.threads[t]]])

OldestFirst(posts) == SortSeq(InSomeOrder(posts), LAMBDA p, q : p.age > q.age)

SeedBulkReactions(w) ==
  LET posts == OldestFirst({p \in site.posts : p.thread \in BulkThread})
  IN  Write(w, "bulk_reactions", [site EXCEPT !.reactions = @ \cup
        {<<Turn(posts, i * 7).thread, Turn(posts, i * 7).n, Turn(Users, i * 11),
           <<"like", "helpful", "insightful", "funny">>[((i - 1) % 4) + 1]>> :
           i \in 1 .. BulkReactions}])

SeedNotifications(w) ==
  Write(w, "notices", [site EXCEPT
    !.notices = {<<i, Turn(Users, i * 3), i % 3 = 0>> : i \in 1 .. BulkNotices},
    !.complete = TRUE])

Seed(w) ==
  SeedUsers(w) \/ SeedBulkUsers(w) \/ SeedUserRoles(w) \/ SeedPreferences(w)
  \/ SeedCategories(w) \/ SeedThreads(w) \/ SeedPosts(w) \/ SeedReactions(w) \/ SeedTags(w)
  \/ SeedBulkThreads(w) \/ SeedBulkPosts(w) \/ SyncThreadStats(w) \/ SeedBulkReactions(w)
  \/ SeedNotifications(w) \/ NoUser(w)

-----------------------------------------------------------------------------
(* The server                                                              *)

RunSetup(w) ==
  /\ server = "up" /\ w # Boot
  /\ \E n \in setup_world.names, seed \in setup_world.seeds : Start(w, n, seed)
  /\ UNCHANGED <<setup_world, server, setup_complete, setup_lock, told, accounts, site>>

maybe_run_headless_setup ==
  /\ server = "starting" /\ stage[Boot] = "idle"
  /\ \/ /\ setup_world.headless # Nobody /\ needs_setup
        /\ Start(Boot, setup_world.headless, FALSE)
        /\ server' = server
     \/ /\ setup_world.headless = Nobody \/ ~needs_setup
        /\ server' = "up" /\ UNCHANGED <<stage, form>>
     \/ /\ setup_world.headless # Nobody /\ "error" \in setup_world.events
        /\ server' = "stopped" /\ UNCHANGED <<stage, form>>
  /\ UNCHANGED <<setup_world, setup_complete, setup_lock, told, accounts, site>>

(* A page is asked for: the latch is set by an answer of the database      *)
(* only, and an error sets nothing.                                        *)
setup_guard(answered) ==
  /\ server = "up" /\ ~setup_complete
  /\ answered \/ "error" \in setup_world.events
  /\ setup_complete' = (answered /\ ~needs_setup)
  /\ UNCHANGED <<setup_world, server, setup_lock, stage, form, told, accounts, site>>

Restart ==
  /\ "restart" \in setup_world.events
  /\ server' = "starting" /\ setup_complete' = FALSE /\ setup_lock' = Nobody
  /\ stage' = [w \in Worker |-> "idle"] /\ form' = [w \in Worker |-> NoForm]
  /\ told' = "nothing"
  /\ UNCHANGED <<setup_world, accounts, site>>

Next ==
  \/ \E w \in Worker : RunSetup(w) \/ Run(w) \/ Seed(w)
  \/ maybe_run_headless_setup \/ Restart
  \/ \E answered \in BOOLEAN : setup_guard(answered)

Spec == Init /\ [][Next]_setupVars

-----------------------------------------------------------------------------

(* However many runs are sent, fail or are cut off, they make one          *)
(* administrator, who is verified and a member from the moment the role is *)
(* held: the runs take turns, and the role is the last thing given.        *)
OneWholeAdministrator ==
  /\ Cardinality(Administrators) <= 1
  /\ \A u \in Administrators : accounts[u].verified /\ accounts[u].level = "member"

(* The guard stops sending visitors to /setup for good only once there is  *)
(* an administrator: an error of the database never closes /setup.         *)
LatchedOnceSetUp == setup_complete => ~needs_setup

(* Example data that was written to the end is a forum as members would    *)
(* have made it: each thread counts its posts but the first, which is its  *)
(* author's and the oldest, the posts of two bulk threads do not mix, the  *)
(* newest dates the thread, and every example user has a role and          *)
(* preferences.                                                            *)
SeedAgrees ==
  site.complete =>
    /\ \A t \in DOMAIN site.threads :
         LET posts == PostsOf(t) IN
         /\ site.threads[t].replies = Cardinality(posts) - 1
         /\ \A p \in posts : (\A q \in posts : p.age >= q.age) =>
              p.author = site.threads[t].author /\ (\A q \in posts \ {p} : p.age > q.age)
         /\ t \in BulkThread => site.threads[t].last = Newest(posts)
    /\ \A t, u \in BulkThread : t[2] < u[2] =>
         \A p \in PostsOf(t), q \in PostsOf(u) : p.age < q.age
    /\ \A u \in ExampleUser \cup BulkIds : accounts[u].roles # {} /\ accounts[u].preferences

SetupHolds == OneWholeAdministrator /\ LatchedOnceSetUp /\ SeedAgrees

(* A server given a name for its first administrator can make it: no       *)
(* earlier start of its own has taken the name and left no administrator.  *)
BootIsNotRefused == told # "taken"

=============================================================================
