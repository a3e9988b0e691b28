------------------------------ MODULE MCCommunity ------------------------------
(***************************************************************************)
(* What members and moderators do, for TLC: Preferences, Listings,         *)
(* ThreadPages, Trust and Reports.  The five share no state the others     *)
(* depend on: a muted category, a list, a page, a score and a report are   *)
(* each read from tables of their own.  So a behaviour is about one of     *)
(* them, and the variables of the others are Absent.                       *)
(***************************************************************************)
EXTENDS Naturals, TLC

CONSTANTS
    Worker, Lister,                                         \* requests in flight
    Category, Watchable, Top, Thread, Shown, Post, Ttl, NoEntry,
    Theme, PreferenceWorlds,
    Reader, Access, CategoryTtl, CountTtl, ListWorlds,
    User, Guest, Rights, TrustLevel, PerPage, MaxPosts, Limits,
    Reactor, Reaction, Meaningful, Standings, TrustWorlds, MaxChanges, PostCounts,
    VisitDays, MaxTasks, None,
    Report, PostThread, Moderator, Scope, Everywhere, ReportWorlds, Nobody,
    Absent,
    c1, c2, g, m, s, u1, m1, m2, t1, t2, p1, p2             \* model values

VARIABLES
    side,
    world, table, entry, pc, req, quiet,
    list_world, policy, thread, watched, muted, categories, totals, list_pc, list,
    still, since,
    post_policy, starter, locked, posts, max_posts,
    trust_world, reactions, deleted, best_answer, warn_count, account, seen_today,
    tasks, duty, order, start, clipped, changes,
    report_world, home, reports, audit, dashboard, desk, brief

Changes == {"watched" :> {c1}, "watched" :> {}, "muted" :> {c1}}

Preferences == INSTANCE Preferences WITH
    Category <- Watchable, Change <- Changes, Worlds <- PreferenceWorlds
Listings == INSTANCE Listings WITH Worker <- Lister, Thread <- Shown, Level <- Access
Pages == INSTANCE ThreadPages WITH Trust <- TrustLevel
Trust == INSTANCE Trust WITH Kind <- Reaction
Reports == INSTANCE Reports

ASSUME CommunityConstants ==
    /\ Preferences!PreferenceConstants
    /\ Listings!ListingConstants
    /\ Pages!PageConstants
    /\ Trust!TrustConstants
    /\ Reports!ReportConstants

preferenceVars == <<world, table, entry, pc, req, quiet>>
listVars == <<list_world, policy, thread, watched, muted, categories, totals, list_pc,
              list, still, since>>
pageVars == <<post_policy, starter, locked, posts, max_posts>>
trustVars == <<trust_world, reactions, deleted, best_answer, warn_count, account,
               seen_today, tasks, duty, order, start, clipped, changes>>
reportVars == <<report_world, home, reports, audit, dashboard, desk, brief>>
communityVars == <<side, preferenceVars, listVars, pageVars, trustVars, reportVars>>

NoPreferences ==
    /\ world = Absent /\ table = Absent /\ entry = Absent /\ pc = Absent
    /\ req = Absent /\ quiet = Absent
NoListings ==
    /\ list_world = Absent /\ policy = Absent /\ thread = Absent /\ watched = Absent
    /\ muted = Absent /\ categories = Absent /\ totals = Absent /\ list_pc = Absent
    /\ list = Absent /\ still = Absent /\ since = Absent
NoPages ==
    /\ post_policy = Absent /\ starter = Absent /\ locked = Absent /\ posts = Absent
    /\ max_posts = Absent
NoTrust ==
    /\ trust_world = Absent /\ reactions = Absent /\ deleted = Absent
    /\ best_answer = Absent /\ warn_count = Absent /\ account = Absent
    /\ seen_today = Absent /\ tasks = Absent /\ duty = Absent /\ order = Absent
    /\ start = Absent /\ clipped = Absent /\ changes = Absent
NoReports ==
    /\ report_world = Absent /\ home = Absent /\ reports = Absent /\ audit = Absent
    /\ dashboard = Absent /\ desk = Absent /\ brief = Absent

CommunityInit ==
    /\ side \in {"preferences", "listings", "pages", "trust", "reports"}
    /\ IF side = "preferences" THEN Preferences!Init ELSE NoPreferences
    /\ IF side = "listings" THEN Listings!Init ELSE NoListings
    /\ IF side = "pages" THEN Pages!Init ELSE NoPages
    /\ IF side = "trust" THEN Trust!Init ELSE NoTrust
    /\ IF side = "reports" THEN Reports!Init ELSE NoReports

CommunityNext ==
    /\ side' = side
    /\ IF side = "preferences" THEN Preferences!Next ELSE UNCHANGED preferenceVars
    /\ IF side = "listings" THEN Listings!Next ELSE UNCHANGED listVars
    /\ IF side = "pages" THEN Pages!Next ELSE UNCHANGED pageVars
    /\ IF side = "trust" THEN Trust!Next ELSE UNCHANGED trustVars
    /\ IF side = "reports" THEN Reports!Next ELSE UNCHANGED reportVars

CommunitySpec == CommunityInit /\ [][CommunityNext]_communityVars

(* Saving preferences leaves what the request does not set (see            *)
(* Preferences, where this fails).                                         *)
SavePreserves == [][side = "preferences" => Preferences!SavingStep]_preferenceVars

(* What a page shows of the preferences settles to what is stored, a list  *)
(* to what its reader is entitled to, and a category that was closed is    *)
(* hidden within a minute (see Preferences and Listings).                  *)
ReadsSettle ==
    /\ side = "preferences" => Preferences!TypeOK /\ Preferences!PreferencesSettle
    /\ side = "listings" => /\ Listings!TypeOK
                            /\ Listings!ListingsSettle /\ Listings!ClosedSoonHidden

(* A link to a post lands on the page that shows it, and a page offers     *)
(* what the request behind the button allows (see ThreadPages).            *)
PagesAgree == side = "pages" => Pages!TypeOK /\ Pages!LinksLand /\ Pages!FlagsMirror

(* A score at rest is what the reactions, answers and warnings explain     *)
(* (see Trust).                                                            *)
ScoreExplained == side = "trust" => Trust!TypeOK /\ Trust!ScoreExplained

(* A login promotes by one level at most, and only whom the administrator  *)
(* has not set otherwise (see Trust).                                      *)
PromotionStands == [][side = "trust" => Trust!PromotionStep]_trustVars

(* A decided report has its one entry in the audit log (see Reports).      *)
DecisionsAgree == side = "reports" => Reports!TypeOK /\ Reports!DecisionsAgree

(* A moderator decides only reports of its own queue (see Reports).        *)
DecidesOwnQueue == [][side = "reports" => Reports!DecidingStep]_reportVars

-----------------------------------------------------------------------------

World(changes_, closing, readers, sort) ==
    [changes |-> changes_, closing |-> closing, readers |-> readers, sort |-> sort]
Levels == (g :> "guest") @@ (m :> "basic") @@ (s :> "staff")
Lists == {World("policies", {c1}, {g, m}, "latest"), World("policies", {}, {s}, "latest"),
          World("threads", {}, {g}, "unanswered"), World("marks", {}, {m}, "latest")}

Saves == {{}, {"overlap", "cache_error"}, {"mark"}}

MemberRights == {"post.create", "post.edit_own", "post.delete_own"}
StaffRights == {"post.create", "thread.edit_any", "post.delete_any", "thread.delete_any",
                "thread.lock", "moderation.warn", "moderation.view_reports"}
UserRights == (u1 :> MemberRights) @@ (m1 :> StaffRights)
Trusted == (u1 :> 1) @@ (m1 :> 4)

NearPromotion == {[level |-> 2, posts |-> 30, days |-> 14, score |-> 50],
                  [level |-> 3, posts |-> 500, days |-> 99, score |-> 98]}
Rewards == {{"react"}, {"answer"}, {"account", "restart"}}

Homes == p1 :> t1 @@ p2 :> t2
Scopes == m1 :> {c1} @@ m2 :> Everywhere
Queues == {{}, {"mixed", "audit_error"}}

Watched == {{"mark"}}

Symmetry == Permutations(Worker)

=============================================================================
