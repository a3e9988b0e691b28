# Specifications of ferum-board

TLA+ models of the forum server in `src/backend`, the TLC configurations that
check them, and TLAPS proofs of most of what they check. Paths below are
relative to `src/backend/crates` unless they begin with `docs/` or `migration/`;
file names without a directory are unique there.

## The system

ferum-board is one process (axum on a multi-threaded tokio runtime) in front of
Postgres, and of Redis where it is configured. It is layered: `ferum-web`
(handlers, middleware) calls the use cases of `ferum-application`, which reach
the world through traits (`ports.rs`, the repositories of `ferum-domain`) that
`ferum-infrastructure` implements. What makes it hard is one habit: a use case
is a sequence of awaited calls - read a row, check it, write it, adjust a
counter, invalidate a key, publish an event - **with no transaction and no row
lock** around them. Two requests interleave at every await, any call after the
first can fail, and the process can stop between two of them.

| Component | State | Operations | Talks to |
|---|---|---|---|
| post lifecycle (`post_usecase.rs`, `post_repository.rs`) | `posts`: status, `is_deleted`, content | create, edit, delete, approve, reject, upload | `stored_files`, thread and author counters, event bus, hooks |
| threads (`thread_usecase.rs`, `thread_repository.rs`) | `threads`: status, `deleted_at`, `reply_count`, category, tags | create with first post, delete, lock, unlock, move, retag, mark solved | posts, `stored_files`, trust score |
| content-addressed files (`stored_file_repository.rs`, `uploads.rs`) | `stored_files`: key, `ref_count` | upload, increment, decrement, serve | everything that embeds or points to an image |
| avatars, covers, thumbnails; favicon and logo | `user_avatars`, `user_covers`, `thread_thumbnails`; `site_config` and its copy | set, remove | `stored_files`, jobs |
| background jobs (`inline_runner.rs`) | tasks spawned and not finished | collect a file, send mail, deliver a webhook | storage, `stored_files` |
| plugins (`plugin_usecase.rs`, `plugin_repository.rs`, `package_extractor.rs`) | `plugins`, hooks, slots, webhooks, elements, media, a directory | review, install, configure, activate, deactivate, uninstall | registry, schema gateway, files |
| plugin registry and runtimes (`registry.rs`, `script_runtime.rs`) | dispatch table, a thread and a channel per script plugin | load, reload, dispatch before-hook, after-event, RPC | plugin threads, circuit breakers |
| circuit breaker (`circuit_breaker.rs`) | a counter and two instants | `is_open`, `record_success`, `record_failure` | the dispatch of hooks |
| registration, sessions (`auth_usecase.rs`, `middleware/auth.rs`) | `users`: verified, level, failures, lock, ban; refresh, ban and reset keys; claims in tokens | register, verify, login, refresh, logout, reset password | cache, roles, mail |
| bans (`admin_usecase.rs`, `moderation_usecase.rs`) | the same row and keys | ban, temporary ban, unban | cache, hooks, event bus |
| roles (`role_usecase.rs`, `role_permission_cache.rs`) | `user_roles`, `role_permissions`, `user:roles:<id>`, the map in memory | assign, revoke, set permissions, resolve | the authentication middleware |
| listings and pages (`thread_usecase.rs`, `category_usecase.rs`, `handlers/pages`) | cached categories, policies and totals | list, count, page, locate a post | preferences, permissions |
| preferences, follows, bookmarks | three tables and `user:prefs:<id>`; `follows`, `bookmarks` | save, watch, mute, follow, bookmark, list | notices |
| reactions, trust, moderation | `reactions`, `users.trust_score`, `reports`, audit log, the cached dashboard | react, mark solved, warn, promote, report, resolve | event bus |
| statistics (`stats_repository.rs`, view buffer) | a buffer, `threads.view_count`, `daily_stats`, snapshots | view, flush, snapshot, backfill | two loops |
| event bus, server-sent events, webhooks | senders by user, `notifications`, failure counts | publish, subscribe, evict, deliver | notifications, audit log, plugins |
| cache, rate limiters | keys with expiry, windows | get, set, set_nx, sweep; check | Redis or memory |
| structure (`admin_usecase.rs`, `tag_repository.rs`) | `categories`, `tags` | create, change, delete, move | threads |
| setup and seed data (`setup_usecase.rs`, `bulk_seed_service.rs`) | the first administrator, example rows | run, guard, seed | roles, configuration |
| themes (`theme_usecase.rs`, the engine) | `themes`, directories, the engine, the active theme and its chain in memory | upload, activate, delete, preview, render | files, visitors |

### What makes each of them correct

* An image is served to everybody exactly while some visible post embeds it:
  its reference count equals the posts that hold it. Counts may drift when a
  call fails, but only in the direction the code says.
* Reply counts equal the visible published posts of a thread; the two ways of
  saying that a thread is deleted agree; a thread nobody works on has a first
  post; it is in a category and categories are two levels deep.
* A pointer never leads to a deleted file; a file nobody points to is collected.
* An active plugin is dispatched once per event, an inactive one not at all,
  with the configuration saved last, through every error and restart; its
  directory, elements and media are whole while it is installed and gone after.
* A circuit opens for failures close together, lets calls through again, and
  opens again when they still fail. A hook call returns whatever the plugin
  does, and is answered by the handler or the timer, never by a reload.
* A banned user is refused and gets no new token; wrong passwords between two
  locks are bounded; a reset token works once; a name is one account's.
* There is always an administrator; only who has every permission makes one; a
  role that is gone stops counting. A site has one first administrator.
* What a page shows settles to what the tables say once the entries it was made
  from are over; a link to a post lands on the page that shows it; a button is
  offered to whom the server obeys.
* A trust score at rest is what reactions, answers and warnings explain; a
  decided report has its one entry in the audit log.
* A view is counted once a day; a connected member hears every notice; a webhook
  is disabled for failures in a row and for nothing else.
* A limiter lets through at most its limit in a window and refuses for requests
  under the same key only, which is the client's own; a key is claimed once.
* Whatever is uploaded, the default theme is served.

`PROJECT.json` lists the hazards at the lines where they bite.

## Modules

| Module | Models | Abstracts |
|---|---|---|
| `PostLifecycle` | posts, threads, attachment references, reply counters | a post's content is the set of keys `extract_attachment_keys` finds in it |
| `PostLifecycleProof` | theorems about `PostLifecycle` | |
| `BlobPointers` | avatars, covers, thumbnails, the collecting job | one kind of image per behaviour: the kinds have different key prefixes and so never share a row |
| `SiteImages` | favicon and logo: row, copy in memory, file | one of the two per behaviour; an image is its format and size |
| `CircuitBreaker` | one breaker and the calls that share it | an instant is its age, kept up to the point where more makes no difference |
| `HookWorkers` | hook dispatches and reloads on the worker threads | a task is where it stands and what it holds |
| `ScriptRuntime` | the thread of a script plugin, its channel, what handlers may call | what a handler computes is one of a dozen deeds |
| `PluginLifecycle` | one slug: rows, directory, dispatch table, runtime | a manifest declares one hook, slot and webhook; a runtime is the configuration it was started with |
| `Packages` | archives reviewed and installed by both front ends, elements, media | an archive is a sequence of entries; a file is its name |
| `Sessions` | one account: lockout, ban, tokens, password reset | an instant is the ticks left until it; access tokens are told apart by their age only |
| `Roles` | assignments, a category moderator, a role made by an administrator, both caches | keys come down to managing users, managing roles, and the rest |
| `Registration` | accounts from registration to verification | a link is the account and address it was sent for |
| `Marks` | follows, bookmarks and their lists | a list is paged through by one reader, two queries a page |
| `Preferences` | one user's preferences and their entry | columns of one row are one value |
| `Listings` | lists of threads and the entries they are made from | a list is the set of the rows on its pages |
| `ThreadPages` | the page of a thread, its links and buttons | writes are one step: they interleave in `PostLifecycle` |
| `Trust` | score, level, and the tasks that add to the score | one author, whom others react to |
| `Reports` | reports, queues, audit log, dashboard | one moderator per scope |
| `Statistics` | views, buffer, snapshots, days | views are the one metric that is not a plain count |
| `Events` | a publication, connections, inbox, webhooks | an event is its kind and recipient |
| `RateLimits` | the proxies, the middleware and both limiters | a window is the ticks left of it; a header is its addresses and whether it is text |
| `RateWindow` | what a limiter promises (the abstract specification) | |
| `Caches` | the cache in memory and in Redis | values are who wrote them |
| `Structure` | categories, threads in them, tags | a slug is a model value |
| `Setup` | the first run and the seed data | rows of a table by number |
| `Themes` | rows, directories, engine, copies in memory, visitors | a template is what it needs |
| `CircuitBreakerProof` | theorems about the module of that name | |
| `PluginLifecycleProof` | theorems about `PluginLifecycle` and about the packages of `MCPlugins` | |
| `AccessProof` | theorems about `Roles` and `Sessions` | |
| `AccountsProof` | theorems about the images, the registrations, the follows and the lists of `MCAccounts` | |
| `CommunityProof` | theorems about the sides of `MCCommunity` | |
| `PlatformProof` | theorems about structure, events, scripts, first run and themes of `MCPlatform` | |
| `CountersProof` | theorems about limits, caches and statistics of `MCPlatform` | |
| `MCPostLifecycle`, `MCPluginLifecycle` | instances for TLC | |
| `MCPlugins` | `PluginLifecycle` and `Packages` | |
| `MCHookDispatch` | `CircuitBreaker`, `HookWorkers`, `ScriptRuntime`, `PluginLifecycle`: the sides of a hook call | |
| `MCAccounts` | `Roles` and `Sessions`, which it extends, `BlobPointers`, `SiteImages`, `Registration`, `Marks` | |
| `MCCommunity` | `Preferences`, `Listings`, `ThreadPages`, `Trust`, `Reports` | |
| `MCPlatform` | `Structure`, which it extends, `Statistics`, `Events`, `RateLimits`, `Caches`, `Setup`, `Themes`, `ScriptRuntime` | |

### How state and actions correspond to the code

In all modules but `CircuitBreaker`, `HookWorkers` and `ScriptRuntime` a request
is served by a `Worker` (`Admin`, `Client`, `Moderator`, `Author`, ...): a control
variable (`pc`, `errand`, ...) says which database or cache call it makes next,
`req` holds the handler's local variables. An action is the code from one such
call to the next, since only there can another request run; guards that look at
what was read are in the `Begin...` action that reads it. So `PostUseCase::delete`
is `BeginDelete` (find the post, check, remember its content), `SoftDelete`,
`SyncDecrement` once per key, `UpdateReplyStats`; and `AdminUseCase::ban` is
`Ban`, `SetFlag`, `SweepSessions`. `Finish` (`Settle`, `Leave`) ends the request
and clears its variables. Reads whose answer nothing depends on are left out. An action that
several requests share (`SyncDecrement`, `Clear`) is one action; it is mapped to
one of the places that call it.

In `CircuitBreaker` the unit is finer: one access to the atomic counter or to
one of the two mutexes, because there the threads really run in parallel. In
`ScriptRuntime` it is one message sent or received and one call of a handler
into the server, since the plugin has a thread of its own.

What the environment may do beyond well-separated requests is named: a variable
that is chosen once (`disturbance`, `world`, `..._world`, `environment`) from a
set given by the configuration. It says which requests are sent and whether they
overlap on one row, calls fail, the
process restarts, assignments expire. Each property is conditioned on what it can
stand, and the disturbance that breaks it is listed below. Without this, one early
flaw would hide every other property.

One run so covers several components: parts that share no state are *sides* of
one composition, the variable `side` says which of them a behaviour is about and
the others stay as they began, so that their state spaces are added and not
multiplied. Where parts share state, one module holds them: the row, the flag and
the sessions of a ban in `Sessions`, the references of posts, threads and uploads
in `PostLifecycle`, the publication, the inbox, the connections and the webhooks
of an event in `Events`, categories, threads and tags in `Structure`. What is
shared between modules is small: the cache entry `user:roles:<id>`, which a ban
clears and which only repeats what the rows say; a thread's deletion, which
`Marks`, `Listings` and `ThreadPages` see as one step; a plugin's status, which
`PluginLifecycle` changes row by row and `Packages` reads.

History variables - `guesses`, `since`, `late`, `lost`, `full`, `streak`, `earned`,
`overlapped`, `told`, `home`, `asked`, `admitted`, and `failed` in a thread of
`Structure` - record what the properties speak of and guard no
action but the bounds.

## Runs

| Run | Asks | Answer |
|---|---|---|
| `posts_isolated` | Are references and reply counts exact, whatever the order of steps of requests on different posts? | yes |
| `posts_drift` | When an increment or a decrement fails, which way do the counts drift? Do the two deletion flags survive a crash between any two steps? | as the comment on `sync_attachment_refs` says: hidden too early, or leaked; yes |
| `posts_finish` | Does every request end, and a delete take effect, though all its bookkeeping fails and others overlap it? | yes |
| `posts_tombstone` | Is an embedded image served, if posts of a deleted thread can be addressed? | **no** |
| `dispatch` | Does the circuit open for close failures in a row and only then, does it let calls through again? Does a hook call or an RPC return, do replaced runtimes end? Does an uninstallation complete whatever overlaps it? | yes, with more worker threads than reloads |
| `breaker_half_open` | Does a failing probe open the circuit again? | **no** |
| `plugins` | Do the table, the runtime and the webhooks follow a plugin's status, one request at a time and through restarts? Are directories, elements and media those of the installed plugins, whatever archive is uploaded, whatever fails and whatever overlaps? | yes; only a restart in the middle of an installation leaves a directory behind |
| `plugin_reinstall` | Does an installed plugin keep its files? | **no** |
| `accounts` | Do bans, lockouts and resets hold against what overlaps them? How stale can a role be, who can make an administrator? Can a pointer lead to a deleted file? Is a name one account's, is a follow told once, does a list that is read to its end show everything? | yes; for the life of a cache entry; administrators, and holders of a role that was given every key; no (the foreign key sees to it); yes, but for members pushed beyond the end between a page's count and its rows |
| `community` | Do preferences and lists settle, and how soon? Do links land, do buttons agree with the checks? Is a score explained, a decision recorded, a promotion by one level? | yes: preferences and rows within the life of their entry, totals half a minute after the rows |
| `preferences_mark` | Does saving preferences keep what the request does not set? | **no** |
| `platform` | Is a view counted once, does an open connection hear every notice, is a webhook disabled for failures in a row? Do limits, claims and sweeps hold, whose requests are counted together? Are categories two levels, which threads are left without a post, is there one first administrator, is a call answered by handler or timer, is the default theme served? | yes; those of one client, but for headers named below; those whose tags or deletion failed and those of dropped requests |

A composition's property is the conjunction of what its modules state (`BansHold`,
`StoresHold`, `ThemesHold`, ...); each part is stated with its reason in its module.

### Known disagreements

Four runs of `PROJECT.json` show disagreements between the code and what its
comments, documents and handlers say. The other configurations below reach more:
where one names several invariants each of them is violated, and TLC stops at the
first, so leave one in at a time (`tlc -config <file> <module>`).

| Configuration | Property | What happens |
|---|---|---|
| `PostLifecycle_tombstone.cfg` (run) | `EmbeddedIsServed` | deleting a post of a deleted thread gives its references back a second time, so another post's image is un-published (`thread_usecase.rs:844`) |
| `PostLifecycle_overlap.cfg` | `ReleasedOnce` | two overlapping deletes of one post both pass the check and release its references twice ("guarded against a repeat", `post_usecase.rs:547`) |
| | `GoneIsNotServed` | a delete that overtakes the increments of a creation leaves the image public (`uploads.rs:83`) |
| | `DeletedIsRejected` | locking writes the status it read: overlapping a deletion it un-deletes half of the thread (`thread_usecase.rs:861`, `917`) |
| `PostLifecycle_stale_queue.cfg` | `RejectedStaysPending` | a post rejected meanwhile can still be approved (`post_usecase.rs:690`) |
| `HookDispatch_half_open.cfg` (run) | `FailureAtThresholdOpens` | after the first opening the circuit never opens again until a success (`circuit_breaker.rs:71`) |
| `PluginLifecycle_reinstall.cfg` (run) | `InstalledHasFiles` | a refused upload for an installed slug removes its directory (`handlers/admin/api/plugins.rs:150`) |
| `PluginLifecycle_overlap.cfg` | `InactiveIsSilent` | an inactive plugin is still dispatched after overlapping reloads (`registry.rs:455`) |
| | `HookOnceEver` | overlapping activations register a hook twice (`plugin_usecase.rs:464`) |
| | `GoneIsSilent` | a reload that overlaps an uninstallation keeps the plugin in the table (`plugin_usecase.rs:303`) |
| `Accounts_overlap.cfg` | `AdminLeft` | two overlapping revocations both count two administrators (`role_usecase.rs:200`) |
| | `FlagAgrees` | an unban that overlaps a ban leaves the flag: the user is refused though the row says otherwise (`admin_usecase.rs:414`) |
| | `CopyFollowsRow` | overlapping uploads of a favicon write row and copy in different orders: pages show the older one until a restart (`handlers/admin/api/config.rs:139`) |
| `Accounts_expired_admin.cfg` | `AdminLeft` | the last permanent administrator can go while another's assignment is about to expire |
| `Community_mark.cfg` (run) | `SavePreserves` | a category watched from its page is forgotten at the next save of the preferences (`handlers/api/categories.rs:41`) |

Other properties are stated in the modules for worlds without the disturbance
that breaks them. What the disturbance brings about:

* **Images.** Removing an avatar spawns the collecting job before it clears the
  pointer; the foreign key keeps the file, for good (`user_usecase.rs:320`,
  `StoredIsUsed`). The job decrements what is already 0 and deletes a file that a
  request has just taken a reference on (`inline_runner.rs:80`,
  `FreshReferenceKept`).
* **Hooks and runtimes.** A success overlapping the failure that reaches the
  threshold undoes the opening; the window is measured from the last failure, not
  from the first. `dispatch_before_hook` holds a map guard across an await
  (`registry.rs:260`): as many reloads as worker threads block them all. An error
  leaves an inactive plugin dispatched, or its webhook in place
  (`plugin_usecase.rs:260`, `268`). A shutdown message is lost when the channel is
  full; an RPC that timed out runs all the same, so a retry runs it twice; two
  runtimes of one plugin overlap after a reload and lose updates of its storage; a call
  that comes after a runtime was removed and before the next one is there is answered
  without a handler, a hook as allowed, an RPC as an error (`registry.rs:502`);
  after-events are unordered tasks, dropped when the channel is full.
* **Packages.** The page's review and both installations leave the temporary
  directory when an entry is refused, both installations when the manifest is
  invalid. An installation that overlaps the end of an uninstallation of the same
  slug loses its directory. A file uploaded twice through a plugin is never
  collected; a job pending from an earlier uninstallation can delete a file that
  was uploaded again; an activation overlapping an uninstallation sets the plugin
  active while its media go; an error at the DELETE of its row leaves it
  "uninstalling" without media. What was reviewed and what is installed are two
  uploads.
* **Accounts.** The attempt that reaches the limit counts in one statement and
  locks in another: a crash between them leaves the account open and the count at
  the limit, and each such crash grants one more guess (`GuessesBounded`). Two
  overlapping `set_role_permissions` can publish the older state
  ("so changes take effect immediately", `handlers/admin/api/roles.rs:110`);
  `assign_role` compares keys, and nothing keeps a manager of roles from giving a role
  he holds all of them: with `admin.users` he may then make himself administrator, and
  so may whoever holds that role (`role_usecase.rs:170`, `125`; `full` in
  `AdminsMakeAdmins`); `assign_moderator` leaves cached roles in place for up to five
  minutes; the row
  of an expired assignment makes assigning the role again a conflict. The
  administrators' `verify_user_email` does not raise the level and nothing later
  does, nor after an error or a crash between `set_email_verified` and
  `set_trust_level`; a level given before or during verification is overwritten
  with Basic; when `list_default` fails the account has no roles and the retry is
  a conflict. A crash between a follow and its notice means the member is never
  told, and following again after unfollowing tells twice. Totals of bookmarks
  count deleted threads: the last pages are empty. A page's count and its rows are two
  queries on two connections (`follow_repository.rs:160`, `bookmark_repository.rs:165`):
  whoever is inserted between them pushes others beyond what the count says is the last
  page, and they are not seen (`late` in `ReadsAll`).
* **Lists and pages.** A list's rows settle a minute after the last write, but its
  total can be made from categories a minute old and be kept for half a minute
  more (`ListingsSettle`). `list_by_tag` (`thread_repository.rs:439`) does not treat
  an empty allowlist as "match nothing", as `post_repository.rs:261` asks. With
  fewer than 20 posts to a page the handlers show fewer posts than the total says
  (`ThreadPages!EveryPostOffered`).
* **Trust and reports.** Overlapping reactions or marks reward twice or undo what
  was not rewarded (`RewardUndone`, `RewardedOnce`; "only once",
  `thread_usecase.rs:997`), and a promotion overwrites a level an administrator
  sets meanwhile (`PromotionStands`). A report that names a post and a thread in
  different categories is shown to moderators who may not decide it
  (`auth_user.rs:57`, `QueueActionable`); two moderators decide one report
  (`DecidedOnce`). Handlers answer with a page size of up to 100 while the use
  cases stop at 50.
* **Statistics and events.** "Backfills … for all dates before today" leaves days
  between two snapshots without views (`HistoryComplete`); the loop said to run
  every hour runs every 300 s. A connection can be dropped by a publication that
  raced its predecessor's eviction (`CutOnlyWhenClosed`). A webhook that is enabled
  again keeps its failure count; an error of the audit log skips the event's
  webhooks.
* **Limits and caches.** At the seam of two windows twice the limit passes within
  a minute (`PerMinute`), and a crash between INCR and EXPIRE leaves a window
  without an end (`EveryWindowEnds`); an EXPIRE that arrives late lengthens
  another window than the one it was for. `WindowStep` excludes both, and
  `DeniedIsEarned` the window without an end, which refuses for ever. Behind proxies a
  request whose X-Forwarded-For is absent or not text is counted under X-Real-IP
  (`rate_limit.rs:70`): where the proxies remove it, or two of them set it, all such
  requests share the proxy's window, and where they pass it on it is what the client
  wrote, another client's address or a new one each time (`KeyOfClient`). `get` on an
  entry that is over can remove the fresh one set meanwhile (`FreshSurvives`).
* **Structure.** A category that is given another parent can become a third level
  (`README.md:71`, `TwoLevels`); a thread is
  left without a post when a call about its tags fails after it was inserted
  (`thread_usecase.rs:647`: a database error, a name or slug the table refuses, or two
  requests that bring the same new tag), when its deletion after a refused first post
  fails (`let _`, `threads.rs:224`; a plugin's hook may deny it) or when the request is
  dropped or the process stops in between (`NoEmptyThread`);
  overlapping changes of tags add up to more than five (`TagsWithinMax`); a
  category whose threads are all soft-deleted passes the checks and its DELETE
  fails on the foreign key.
* **Setup.** A server that was set up from the environment and restarts with a
  row missing is refused its own run (`config.rs:62`, `BootIsNotRefused`); an
  administrator named alice, moderator or bob makes the seed fail half-way.
* **Themes.** `set_active` is two statements: a crash between, or activating a
  slug that is gone, leaves no theme active; overlapping activations leave two.
  Uploading the active theme again with another parent leaves the chain in memory
  stale until a restart; so does, in a chain of three, installing or deleting the
  theme in its middle. A package that is too large removes the directory of the
  theme it is for, and under the slugs "." and "", which `themes.rs:111` accepts, those
  of all themes, the built-in one's too: the engine in memory goes on, since none can
  be built without the macros the server's own pages import, but a restart is refused,
  and a package for the built-in theme that brings the macros and fewer pages leaves
  the others without a template to fall back to; deleting a theme between a visitor's pick and render is an error page;
  overlapping reloads can install the older engine, without a template that was
  just picked; an error after the extraction leaves files without a reload;
  replaced previews keep their reference; a cycle of parents gives a chain without
  the default theme.

### Bounds

Two requests in flight suffice for nearly every race found, since each is between
two steps of one handler and one step of another; a third worker adds no new pair.
Where three parties matter (a success between two failures in the breaker, two
calls and a reload of a runtime, two authors and an administrator in `Structure`)
there are enough. Two or three posts are needed so that a post can lose a
reference another one holds; two keys so that an edit can swap them; two users so
that an administrator can revoke the other; two categories so that one can become
the other's parent; three bookmarks on pages of two so that a list has a second
page; two clients behind one proxy, one of whom writes the other's address into his
headers, so that one could be refused, or be counted, for the other; three authors for
one thread and one tag, two of whom may make tags, so that the same tag is brought
twice and a post is refused meanwhile. `MaxRef`, `MaxJobs`, `MaxWebhooks`, `MaxAdded`, `MaxRuntimes` and their like
only keep new requests from starting, they never block a step that is under way;
`TokenLeft` keeps a login from starting when every refresh token of the instance
is in use. In `CircuitBreaker` the threshold and the window are 2 or 3: enough
for a failure just inside and just outside the window at every position. A
channel holds one or two messages instead of 32, so that it is full in some state.
Thresholds of the code (the limit of a window, the failures that disable a
webhook, the size of a page) are constants of 1 to 3.

In the modules with time a life is one to three ticks and a tick is longer than a
request (minutes against the seconds of a handler): time passes only while no
request is in flight, so what expires during a request is not examined, except in
`RateLimits` and `Caches`, where it is the point. The lives in `Sessions` include
the leeway of token verification, 60 seconds in `jsonwebtoken`, which is why the
claim on a reset token must live a minute longer than the token; the key of a
permanent ban, which lives a year, never ends in the model. Counters of failures
above the limit behave like the limit and are kept there. Symmetry in the
identifiers is used where instances are large; never in runs with a liveness
property.

### Fairness

Liveness is checked under weak fairness of the steps of requests that have
started: tokio polls a task that is ready, and nothing in the code waits for a
client once a handler runs. Starting a request is never fair. Time passes
(`WF(Tick)`), timers fire, and a lock that stays free is taken. A plugin need not
answer: only the timeout bounds it, though a thread that is not stuck in a handler
goes on to its next message. Deadlock checking is off throughout: a server with
nothing to do is idle.

## Proofs

Eight modules hold the theorems; each extends the module it is about, or the
composition whose sides it is about, and proves for all values of the constants
what the runs check on small instances. A theorem about a composition says what
its property says, `side = ...` included. `PROJECT.json` lists the theorems. The
pattern is the same throughout: the type invariant, then an inductive invariant
that says, for each point a handler can be at, what its local variables know of
the tables, one lemma for each action, and the property as a consequence. Why the
properties are not inductive as they stand is the content of the proofs:

**`PostLifecycleProof`.** Between the write of a post and the last of its
increments a count is wrong, by what the request still owes. `RefsInv` adds
`ControlInv` (what each request has read is still so, only the syncing labels owe
anything, requests stay apart) and `OwedIsDue` (what is to be incremented belongs
to a post that holds the key, what is to be decremented to one that no longer
does, each at most once). It needs no more than requests that do not share a row:
it survives lost calls, foreign URLs and crashes, whence `DeletedFlagsConsistent`
under all of these. `RefsExact` then says that a count is the number of holders,
less the increments and plus the decrements owed (`ReferencesExact`,
`ServedExactly`); with lost increments it is at most that, with lost decrements at
least (`IncrementsOnlyHide`, `DecrementsOnlyLeak`; the latter also needs that every
embedded key was uploaded). `RepliesCounted` is the same argument for reply
counts, which are only written from a query. Cardinalities change by one, through
the library's facts about finite sets.

**`CircuitBreakerProof`.** `StreakInv`: the failures counted are the latest in a
row and no two of them further apart than the window; the instant of the last
failure is not older than the last one counted unless a failure is noted and not
counted yet. It makes `OpeningIsEarned` hold for every interleaving of the atomic
accesses. `ThresholdAlwaysOpens` is for results recorded one at a time
(`SerialInv`), and false otherwise.

**`AccessProof`.** `FreshInv`: the time a role has been gone and the life its cache
entry has left add up to no more than that life. From it follow the bound on stale
roles and, with `KeysInv` - a request that has every key has a role that has had them
all, and so has one that was found to have all keys of the role it is about to
assign - `AdminsAreMadeByAdmins`. `AdministratorLeft`: who revokes after counting
two is alone in doing so, and another administrator stays (`AdminInv`).
`RolesServedAlways` adds that undisturbed entries agree with the rows. Of sessions,
`BansAlwaysHold` from three invariants: row and flag follow
each other through the steps of one moderation, whoever banned and has not swept
is at it still, and an access token is no younger than the ban (`HoldInv`), since
time passes between requests only. `CredentialsAlwaysHold`: past the limit each
guess has a login on its way to lock (`GuessInv`), and the key of a claimed reset
token outlives the token (`ResetInv`).

**`PluginLifecycleProof`.** `Knows` says at each label what status, hooks, slots
and webhooks the request may rely on; with it `RegistryUpToDate` and
`WebhooksUpToDate` hold between requests one at a time and after restarts.
`HookDispatchedOnce` and `NoFilesAstray` hold whatever fails (`HookInv`,
`FilesInv`: a directory without a plugin is that of an installation under way,
even when requests overlap). `PackagesAlwaysHold` is about archives of any length with any entries, one after
another. A temporary directory is one request's (`TempsInv`); where no installed
slug is installed again, nobody else works on a slug while it is being installed,
the directory holds the entries read so far, and a plugin that is there has all of
them (`WholeInv`). Of requests one at a time each component gets one element, since
an activation makes only what is left to make (`SingleInv`). A directory that no
request and no plugin accounts for is that of a refused archive (`LeftInv`). A
medium that a member was given is stored and no job is to delete it (`GivenInv`);
a stored one has one reference or a job, and those of a plugin being uninstalled
are among the ones its request has left to release (`ReclaimInv`).

**`AccountsProof`.** `ImagesAlwaysKept`: a thumbnail's count is at most the slots
that point to it, the requests that bring it and those about to give it up
(`HeldCounts`), and a row without references is wanted by a job (`AllWanted`);
favicon and logo have an invariant of each step of the one request. In
`RegistrationsAlwaysHold` (`JoinInv`) whoever lacks a role is still being given it
and whoever is verified and new is about to be raised. In `MembersAlwaysHold` each
follow that began is told or owed (`FollowInv`); of the list a member reads, all
rows that were there when the reading began still are, at or below the place they
had, those above the offset reached have been seen, and a row that joins meanwhile
only moves the others down (`ReadTo`, `ReadInv`); since the total counts all that were
there at first, the last page falls short of them by no more than joined since it was
counted (`Missed`). What the list is, `Among` of the
rows, follows from its recursive equation by an induction on its length:
`CountingUp` states induction with the set of the numbers for which a fact holds
in place of an operator, so that it can be cited.

**`CommunityProof`.** `DecisionsAlwaysAgree`: a decided report is in the log
unless its request is about to write it, and the dashboard counts no decided
report except between the decision and the removal of the entry.
`AlwaysDecidesOwnQueue` and `PromotionAlwaysStands` are about steps,
`PagesAlwaysAgree` is mostly arithmetic of pages. `ScoreAlwaysExplained`: the score,
with what spawned tasks will add and what requests that have written their row are
still to spawn (`Owed`), is what reactions, best answers and warnings come to
(`Explained`), for any number of them; a request that writes still finds what it
read (`Informed`). `ReadsAlwaysSettle` gives every cached value an age and every
lister the age of what it has read: an entry's life and the age of what it says
add up to no more than the bound (`CachesAge`, `AtWork`).

**`PlatformProof`.** `BoardAlwaysHolds`: the category a request was given is at
the top or gone, identifiers are not used again (`LevelsInv`), and a thread
without a post is one whose request is still to write it, or gave up (`OpeningInv`).
It covers every world, also those in which categories are given other parents, of
which the run has none: there `Housing` is proved and `TwoLevels` does not hold.
`NoticesAlwaysHeard`: an open connection has its sender in the entry
and its missed notices are in the inbox. `DisabledForFailuresOnly`: a count in a
row is the failures since a success. `CallsAlwaysHeard`: a call that is
queued is in the channel of its runtime once, a Shutdown only in that of a runtime
that was let go. `SetupAlwaysHolds`: only the holder of the lock is inside, and
until it assigns the role there is no administrator, so that its seed runs once and
in the order of its statements, and nobody writes beside it. `SeedWritten` says
what each statement finds: users before their roles and preferences, the example
rows with the counts their posts will have, the bulk threads' posts each in the
minutes of its own thread, then the counts and dates. It needs no fact about the
order `Users` puts the users in or about what the reactions sort: `Column` lists a
thread's posts whoever wrote them. `ActiveThemeInPlace`:
where the one request stands in `set_active` says which rows and copies are
already the new theme's (`Phase`), and a theme that has a row has the color of its
packages.

**`CountersProof`.** The sums in the properties are `MapThenSumSet`s, which are
recursive functions over subsets. What such a function computes cannot be had by
induction here, but its equation determines it: `Total`, the number of points
under the function, solves it, and two solutions that differ would differ on a
smallest set, so there is only the one (`SumsUp`, `TheSum`). What the proofs need of
sums are then facts about cardinalities. `WindowsKept` is the refinement of
`RateWindow` by both limiters, step by step: in Redis a window without an end is
new and its request is about to set it (`LimitInv`). `StoresAlwaysHold`: of what was
let through under a key lately, its present window accounts for at most the lesser
of its count and the limit, and what came before it for at most the limit, whence
twice the limit (`QuotaInv`, without restarts); what a window has counted was asked
for since it began, so a refusal has more requests than the limit behind it
(`EarnedInv`); the n-th last address of a readable X-Forwarded-For that n proxies
have appended to is the client's (`ForwardedTo`, `OnesKey`); and what a sweep of the cache has been through holds no key that was
there before. `ViewsAlwaysCounted` has three parts. The days of a viewer differ and
none is to come (`DedupInv`), which bounds what it can add. What is stored,
buffered, being flushed or about to be counted is the recorded days, exactly so
unless a restart or an error loses some (`CountInv`). And what the rows of all days
report, plus what the threads have gained over the latest snapshot, is within the
views ever counted (`DayInv`): the property alone does not say what the next
snapshot will take its difference from. Deleting a thread takes its views out of
the total and never adds to a later difference, as the subtraction saturates.

### Assumptions

Every assumption on a constant is named in the module that declares it
(`SessionConstants`, `RegistrationConstants`, `CacheConstants`, ...;
`PlatformConstants` collects those of the sides) and evaluated by the runs.
They say that identifiers of different kinds differ, that no absent-value (`NoRow`,
`NoTheme`, ...) is a value, that limits and lives are positive, that two lives which
the code sets together are in the order it sets them in, and that the sets whose
members are counted (posts, users, slots, workers, reports, script calls, threads,
viewers) are finite.

### What the proofs changed

* `ReadsAll` was checked with a page's count and rows read at once. They are two
  queries, and between them members can join: the bound is now by how many.
* `AdminsMakeAdmins` was stated for a role named admin. What the code compares are
  keys, which a role made by an administrator may have, all of them included.
* `AdmittedBounded` and `DeniedIsEarned` were stated per client. What is counted is a
  key, and `KeyOfClient` says when that is the client's.
* `DeniedIsEarned` was stated for every world. It fails after a restart between
  INCR and EXPIRE: the key has no end and goes on refusing a client that asks once
  in a while. It is now stated without such restarts (`Uninterrupted`), as
  `WindowStep` is.
* `GuessesBounded`: not inductive because of a restart between the count that
  reaches the limit and the lock. It is now stated without restarts.
* `WindowStep`: not true of a step that sets the end of a window which is over and
  replaced, nor after a crash that leaves one without an end. Both are excluded; the
  run has a world with Redis in which neither happens.
* `ListingsSettle`: totals settle half a minute after rows, which may have been
  made from categories that were a minute old themselves.
* `NoStrayFiles` was stated for requests one at a time; that is not needed.
* `DeletedFlagsAgree` and the reply counts were stated for undisturbed requests;
  the first needs only that no two share a row, the second also that the counter's
  own update is not lost.
* `ThemesHold`: the default theme's pages can go after an oversize package for the
  built-in slug or for all slugs at once, a long chain is not refreshed by what happens in its middle, and
  overlapping uploads can bring back an older engine. The parts now say so, and the
  run has worlds in which these cases occur.
* The lists of `Marks` were taken with `SelectSeq`, about which the provers know
  nothing; they are now taken with `Among`, a recursive function of the same rows.
* Guards of two CASE expressions overlapped, so that the value was TLC's choice.

### What stays with TLC

* Liveness and everything about ENABLED: `RequestsFinish`, `DeleteTakesEffect`,
  `Recovers`, `HookReturns`, `RuntimesEnd`, `UninstallCompletes` and the others that
  use `<>`. The proof system has no rules for fairness that the installed provers
  can use.
* What the engine's passes and the chain of `Themes` compute (`DefaultServed`,
  `VisitsServed`, `EngineComplete`, `ChainAgrees`).

So `ThemesHold` is proved but for these parts; every other invariant and action
property of the passing runs is a theorem.

## Plan

1. `PostLifecycle` with its proofs, `BlobPointers`, `CircuitBreaker`,
   `HookWorkers`, `PluginLifecycle`, `Sessions`, `Roles`: done.
2. Community (`Trust`, `Reports`, `Preferences`, `Listings`, `ThreadPages`),
   accounts (`Registration`, `Marks`), plugins (`ScriptRuntime`, `Packages`),
   platform (`Statistics`, `Events`, `RateLimits`, `Caches`, `Structure`, `Setup`,
   `Themes`, `SiteImages`): done.
3. Proofs of the invariants and action properties of the runs, component by
   component: done but for what stays with TLC.

## Not modelled

Rendering and routing, the order of lists and the matching of a search, the
JavaScript engine, the text-level validation of names, manifests and plugin
schemas, single external calls (mail, object storage, the marketplace), profile
text, titles, pins and password changes: they keep no state of their own or write
one row. Migrations appear as the keys and constraints the modules rely on.
Cryptography and password hashing are outside TLC's reach. Each is listed in
`PROJECT.json` with its reason.
