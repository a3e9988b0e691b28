-------------------------------- MODULE Listings --------------------------------
(***************************************************************************)
(* The lists of threads: by category, feed, tag, author, for moderators,   *)
(* and the forum index.  What they are made from is read in pieces: the    *)
(* categories through the entry forum:categories:all, which no write ever  *)
(* clears, the totals through entries of their own, the rows from the      *)
(* tables.                                                                 *)
(*                                                                         *)
(* Sources: ThreadUseCase, CategoryUseCase, PermissionChecker, the thread  *)
(* and category repositories.  Each database or cache call is a step.  A   *)
(* list is the set of the rows on all its pages; their order is left out.  *)
(* A tick is a part of an entry's life and longer than a request.          *)
(***************************************************************************)
EXTENDS Naturals, FiniteSets

CONSTANTS
    Worker,
    Category,
    Top,            \* the categories without a parent
    Thread,
    Reader,
    Level,          \* a reader's standing: "guest", "new", "basic" or "staff"
    CategoryTtl,    \* of forum:categories:all, 60 s
    CountTtl,       \* COUNT_CACHE_TTL, 30 s
    ListWorlds,
    NoEntry

Policy == {"public", "members_only", "staff_only"}
Sort == {"latest", "unanswered", "solved"}
Status == {"absent", "open", "locked", "deleted"}

(* What a behaviour is about: what changes (the policy of which            *)
(* categories), who asks, and in which order.                              *)
ListWorld == [changes: {"policies", "threads", "marks"}, closing: SUBSET Category,
              readers: SUBSET Reader, sort: Sort]

ListingConstants ==
    /\ ListWorlds \subseteq ListWorld
    /\ Top \subseteq Category
    /\ Level \in [Reader -> {"guest", "new", "basic", "staff"}]
    /\ CategoryTtl \in Nat \ {0} /\ CountTtl \in Nat \ {0}
    /\ IsFiniteSet(Thread) /\ "guest" \notin Category

VARIABLES
    list_world,
    policy,         \* categories.view_policy
    thread,         \* threads: category, status, replied to, solved
    watched, muted, \* of each reader
    categories,     \* forum:categories:all: policies and ticks left, or NoEntry
    totals,         \* the cached totals, each with the ticks it has left
    list_pc, list,
    still,          \* history: ticks since anything was last written
    since           \* history: ticks since a category last had a policy

listVars == <<list_world, policy, thread, watched, muted, categories, totals,
              list_pc, list, still, since>>
tables == <<list_world, policy, thread, watched, muted, still, since>>

Threads == [category: Category, status: Status, replied: BOOLEAN, solved: BOOLEAN]

(* The keys threads:count:cat:<id>:<sort> and threads:count:feed:guest:<sort>. *)
CountKey == (Category \cup {"guest"}) \X Sort

(* A total may have been taken over categories that were as old as their   *)
(* entry gets: it can be as old as the two together.                       *)
Longest == CategoryTtl + CountTtl

(* A request that has read nothing yet.                                    *)
Asking(kind, r, sort, of) ==
    [kind |-> kind, reader |-> r, sort |-> sort, of |-> of, seen |-> {}, known |-> NoEntry,
     rows |-> {}, places |-> {}, total |-> 0]

Nothing == Asking("none", CHOOSE r \in Reader : TRUE, "latest", {})

Kind == {"none", "category", "feed", "tag", "author", "mod", "index"}

TypeOK ==
    /\ list_world \in ListWorlds
    /\ policy \in [Category -> Policy]
    /\ thread \in [Thread -> Threads]
    /\ watched \in [Reader -> SUBSET Category] /\ muted \in [Reader -> SUBSET Category]
    /\ categories \in [policies: [Category -> Policy], ttl: 1..CategoryTtl] \cup {NoEntry}
    /\ totals \in [CountKey -> [total: Nat, ttl: 1..CountTtl] \cup {NoEntry}]
    /\ list_pc \in [Worker -> {"idle", "categories", "list_all", "fill", "marks",
                               "count", "query", "put", "shown"}]
    /\ \A w \in Worker : list[w].kind \in Kind /\ list[w].rows \subseteq Thread
    /\ still \in 0..Longest
    /\ since \in [Category -> [Policy -> 0..CategoryTtl]]

Init ==
    /\ list_world \in ListWorlds
    /\ policy \in [Category -> IF list_world.changes = "marks" THEN {"public", "staff_only"}
                               ELSE {"public"}]
    /\ \E place \in [Thread -> Category] :
          thread = [t \in Thread |->
                       [category |-> place[t], replied |-> FALSE, solved |-> FALSE,
                        status |-> IF list_world.changes = "threads" THEN "absent" ELSE "open"]]
    /\ watched = [r \in Reader |-> {}] /\ muted = [r \in Reader |-> {}]
    /\ categories = NoEntry
    /\ totals = [k \in CountKey |-> NoEntry]
    /\ list_pc = [w \in Worker |-> "idle"]
    /\ list = [w \in Worker |-> Nothing]
    /\ still = Longest
    /\ since = [c \in Category |->
                   [p \in Policy |-> IF p = policy[c] THEN 0 ELSE CategoryTtl]]

-----------------------------------------------------------------------------
(* Who may see what.                                                       *)

(* A guest has no permissions; a member's POST_CREATE or trust level opens *)
(* the categories for members, the right to view reports those for staff.  *)
CanView(r, p) ==
    \/ p = "public"
    \/ p = "members_only" /\ Level[r] \in {"basic", "staff"}
    \/ p = "staff_only" /\ Level[r] = "staff"

Visible(r, policies) == {c \in Category : CanView(r, policies[c])}

(* deleted_at IS NULL.                                                     *)
Live == {t \in Thread : thread[t].status \in {"open", "locked"}}

(* sort_clauses and sort_condition: what a sort adds to WHERE.             *)
Sorted(sort) ==
    {t \in Thread :
        /\ sort = "unanswered" => ~thread[t].replied /\ thread[t].status = "open"
        /\ sort = "solved" => thread[t].solved}

In(cs) == {t \in Thread : thread[t].category \in cs}

(* Muting all that is watched falls back to everything.                    *)
FeedCategoriesFallback(r, seen) ==
    LET filtered == (IF watched[r] # {} THEN watched[r] \cap seen ELSE seen) \ muted[r]
    IN  IF filtered = {} THEN seen ELSE filtered

(* list_feed's choice of categories: what is watched before all that is    *)
(* visible, never what is muted; watching only what one can no longer see  *)
(* counts as not watching.                                                 *)
FeedCategories(r, seen) ==
    LET base     == IF watched[r] # {} THEN watched[r] \cap seen ELSE seen
        filtered == base \ muted[r]
    IN  IF filtered = {} /\ ~(watched[r] # {} /\ base # {}) THEN seen \ muted[r]
        ELSE filtered

-----------------------------------------------------------------------------
(* A list, call by call.                                                   *)

Goto(w, label) == list_pc' = [list_pc EXCEPT ![w] = label]

Begin(w, label, request) ==
    /\ list_pc[w] = "idle"
    /\ Goto(w, label)
    /\ list' = [list EXCEPT ![w] = request]
    /\ UNCHANGED <<tables, categories, totals>>

(* Reads the category, not the entry, and refuses what may not be viewed.  *)
ListByCategory(w, r, c, sort) ==
    /\ CanView(r, policy[c])
    /\ Begin(w, "count", Asking("category", r, sort, {c}))

ListFeed(w, r, sort) ==
    Begin(w, "categories", Asking("feed", r, sort, {}))

(* The tag and the author are the same for all threads of the instance.    *)
ListByTag(w, r, sort) ==
    Begin(w, "categories", Asking("tag", r, sort, {}))

ListByAuthor(w, r) == Begin(w, "categories", Asking("author", r, "latest", {}))

(* Moderators and administrators see every category here.                  *)
ListThreadsForMod(w, r) ==
    /\ Level[r] = "staff"
    /\ Begin(w, "categories", Asking("mod", r, "latest", {}))

(* get_forum_index reads the categories from the table each time.          *)
GetForumIndex(w, r) == Begin(w, "list_all", Asking("index", r, "latest", {}))

(* What follows once the visible categories are known.                     *)
AfterCategories(w) ==
    IF list[w].kind # "feed" THEN "query"
    ELSE IF Level[list[w].reader] = "guest" THEN "count" ELSE "marks"

VisibleCategoryMap(w) ==
    /\ list_pc[w] = "categories"
    /\ IF categories = NoEntry
       THEN Goto(w, "list_all") /\ UNCHANGED list
       ELSE /\ Goto(w, AfterCategories(w))
            /\ list' = [list EXCEPT ![w].seen = Visible(list[w].reader, categories.policies)]
    /\ UNCHANGED <<tables, categories, totals>>

(* The rows as they are now; `seen` waits for the entry to be written.     *)
ListAll(w) ==
    /\ list_pc[w] = "list_all"
    /\ list' = [list EXCEPT ![w].seen = Visible(list[w].reader, policy),
                            ![w].known = policy]
    /\ Goto(w, IF list[w].kind = "index" THEN "query" ELSE "fill")
    /\ UNCHANGED <<tables, categories, totals>>

FillCategories(w) ==
    /\ list_pc[w] = "fill"
    /\ categories' = [policies |-> list[w].known, ttl |-> CategoryTtl]
    /\ list' = [list EXCEPT ![w].known = NoEntry]
    /\ Goto(w, AfterCategories(w))
    /\ UNCHANGED <<tables, totals>>

ReadMarks(w) ==
    /\ list_pc[w] = "marks"
    /\ list' = [list EXCEPT ![w].of = FeedCategories(list[w].reader, list[w].seen)]
    /\ Goto(w, "query")
    /\ UNCHANGED <<tables, categories, totals>>

Key(w) == <<IF list[w].kind = "feed" THEN "guest" ELSE CHOOSE c \in list[w].of : TRUE,
            list[w].sort>>

ReadCachedCount(w) ==
    /\ list_pc[w] = "count"
    /\ list' = [list EXCEPT ![w].known = totals[Key(w)],
                            ![w].of = IF list[w].kind = "feed" THEN list[w].seen ELSE @]
    /\ Goto(w, "query")
    /\ UNCHANGED <<tables, categories, totals>>

(* The threads each query returns, over all its pages.                     *)
ByCategory(q) == Live \cap In(q.of) \cap Sorted(q.sort)
ByFeed(q)     == Live \cap In(q.of) \cap Sorted(q.sort)
ByTag(q)      == Live \cap Sorted(q.sort)
                      \cap (IF q.seen = {} THEN Thread ELSE In(q.seen))
ByAuthor(q)   == Live \cap In(q.seen)
ListAdminThreads(q) == Live
ListRecentByCategories(q) == Live \cap In(q.seen \cap Top)

Rows(w) ==
    LET q == list[w] IN
    CASE q.kind = "category" -> ByCategory(q)
      [] q.kind = "feed"     -> ByFeed(q)
      [] q.kind = "tag"      -> ByTag(q)
      [] q.kind = "author"   -> ByAuthor(q)
      [] q.kind = "mod"      -> ListAdminThreads(q)
      [] q.kind = "index"    -> ListRecentByCategories(q)

(* The index counts in the subcategories as well.                          *)
CountThreadsByCategories(q) == Cardinality(Live \cap In(q.seen))

Counted(w) == IF list[w].kind = "index" THEN CountThreadsByCategories(list[w])
              ELSE Cardinality(Rows(w))

Uncached(w) ==
    /\ list[w].known = NoEntry
    /\ \/ list[w].kind = "category"
       \/ list[w].kind = "feed" /\ Level[list[w].reader] = "guest"

RunQuery(w) ==
    /\ list_pc[w] = "query"
    /\ list' = [list EXCEPT ![w].rows = Rows(w), ![w].known = NoEntry,
                            ![w].places = {thread[t].category : t \in Rows(w)},
                            ![w].total = IF list[w].known # NoEntry
                                            /\ list[w].kind \in {"category", "feed"}
                                         THEN list[w].known.total ELSE Counted(w)]
    /\ Goto(w, IF Uncached(w) THEN "put" ELSE "shown")
    /\ UNCHANGED <<tables, categories, totals>>

WriteCachedCount(w) ==
    /\ list_pc[w] = "put"
    /\ totals' = [totals EXCEPT ![Key(w)] = [total |-> list[w].total, ttl |-> CountTtl]]
    /\ Goto(w, "shown")
    /\ UNCHANGED <<tables, categories, list>>

Done(w) ==
    /\ list_pc[w] = "shown"
    /\ Goto(w, "idle")
    /\ list' = [list EXCEPT ![w] = Nothing]
    /\ UNCHANGED <<tables, categories, totals>>

-----------------------------------------------------------------------------
(* What changes meanwhile.  Each is one statement, and none clears an      *)
(* entry.                                                                  *)

Caches == <<categories, totals, list_pc, list>>

SetPolicy(c, p) ==
    /\ list_world.changes = "policies" /\ c \in list_world.closing
    /\ policy[c] # p
    /\ policy' = [policy EXCEPT ![c] = p]
    /\ still' = 0
    /\ since' = [since EXCEPT ![c][p] = 0]
    /\ UNCHANGED <<list_world, thread, watched, muted, Caches>>

WriteThread(t, row) ==
    /\ list_world.changes = "threads"
    /\ thread' = [thread EXCEPT ![t] = row]
    /\ still' = 0
    /\ UNCHANGED <<list_world, policy, watched, muted, since, Caches>>

CreateThread(t) ==
    /\ thread[t].status = "absent"
    /\ WriteThread(t, [thread[t] EXCEPT !.status = "open"])

(* update's patch: a status, another category, or that it is solved; the   *)
(* reply statistics are written beside it.                                 *)
UpdateThread(t, row) ==
    /\ thread[t].status \notin {"absent", "deleted"}
    /\ \/ \E s \in Status \ {"absent"} : row = [thread[t] EXCEPT !.status = s]
       \/ \E c \in Category : row = [thread[t] EXCEPT !.category = c]
       \/ row = [thread[t] EXCEPT !.solved = TRUE]
       \/ \E b \in BOOLEAN : row = [thread[t] EXCEPT !.replied = b]
    /\ row # thread[t]
    /\ WriteThread(t, row)

Mark(r, wanted, unwanted) ==
    /\ list_world.changes = "marks"
    /\ Level[r] # "guest"
    /\ <<wanted, unwanted>> # <<watched[r], muted[r]>>
    /\ watched' = [watched EXCEPT ![r] = wanted]
    /\ muted' = [muted EXCEPT ![r] = unwanted]
    /\ still' = 0
    /\ UNCHANGED <<list_world, policy, thread, since, Caches>>

Older(entry) ==
    IF entry = NoEntry \/ entry.ttl = 1 THEN NoEntry ELSE [entry EXCEPT !.ttl = @ - 1]

Tick ==
    /\ \A w \in Worker : list_pc[w] = "idle"
    /\ categories' = IF categories = NoEntry THEN NoEntry ELSE Older(categories)
    /\ totals' = [k \in CountKey |-> IF totals[k] = NoEntry THEN NoEntry ELSE Older(totals[k])]
    /\ still' = IF still = Longest THEN still ELSE still + 1
    /\ since' = [c \in Category |-> [p \in Policy |->
                    IF p = policy[c] THEN 0
                    ELSE IF since[c][p] = CategoryTtl THEN since[c][p] ELSE since[c][p] + 1]]
    /\ UNCHANGED <<list_world, policy, thread, watched, muted, list_pc, list>>

Step(w) ==
    \/ VisibleCategoryMap(w) \/ ListAll(w) \/ FillCategories(w) \/ ReadMarks(w)
    \/ ReadCachedCount(w) \/ RunQuery(w) \/ WriteCachedCount(w) \/ Done(w)

Ask(w, r) ==
    \/ ListFeed(w, r, list_world.sort) \/ ListByTag(w, r, list_world.sort)
    \/ \E c \in Category : ListByCategory(w, r, c, list_world.sort)
    \/ ListByAuthor(w, r) \/ ListThreadsForMod(w, r) \/ GetForumIndex(w, r)

Next ==
    \/ \E w \in Worker : Step(w) \/ \E r \in list_world.readers : Ask(w, r)
    \/ \E c \in Category, p \in Policy : SetPolicy(c, p)
    \/ \E t \in Thread : CreateThread(t) \/ \E row \in Threads : UpdateThread(t, row)
    \/ \E r \in list_world.readers, wanted, unwanted \in SUBSET Category : Mark(r, wanted, unwanted)
    \/ Tick

Spec == Init /\ [][Next]_listVars

-----------------------------------------------------------------------------

(* What a list should hold, from the tables alone.  A feed is what the     *)
(* reader watches and can see, or all there is to see when there is no     *)
(* such category, and in both cases nothing muted.                         *)
Entitled(w) ==
    LET q == list[w]
        seen == {c \in Category : CanView(q.reader, policy[c])}
        feed == IF watched[q.reader] \cap seen # {} THEN watched[q.reader] \cap seen ELSE seen
    IN  {t \in Thread :
            /\ thread[t].status \in {"open", "locked"}
            /\ \/ q.kind = "mod"
               \/ q.kind = "category" /\ thread[t].category \in q.of \cap seen
               \/ q.kind = "feed" /\ thread[t].category \in feed \ muted[q.reader]
               \/ q.kind \in {"tag", "author"} /\ thread[t].category \in seen
               \/ q.kind = "index" /\ thread[t].category \in seen \cap Top
            /\ q.sort = "unanswered" => ~thread[t].replied /\ thread[t].status = "open"
            /\ q.sort = "solved" => thread[t].solved}

(* Nothing here tells the caches of a write, so lists may be stale; but a  *)
(* minute after the last write every list is exactly what its reader is    *)
(* entitled to, and half a minute later its total is the number of its     *)
(* rows.  (A reader who can see no category at all is left out: see Rows.) *)
ListingsSettle ==
    \A w \in Worker :
        list_pc[w] = "shown" /\ still >= CategoryTtl
          /\ (list[w].kind = "tag" => Visible(list[w].reader, policy) # {}) =>
            /\ list[w].rows = Entitled(w)
            /\ still = Longest /\ list[w].kind # "index" =>
                  list[w].total = Cardinality(list[w].rows)

(* However writes and lists interleave, a list shows a thread only if its  *)
(* reader could view the category within the life of the entry: closing a  *)
(* category takes effect within a minute for every list at once, though    *)
(* other categories keep changing.                                         *)
ClosedSoonHidden ==
    \A w \in Worker :
        list_pc[w] = "shown" /\ list[w].kind # "mod"
          /\ (list[w].kind = "tag" => list[w].seen # {}) =>
            \A c \in list[w].places : \E p \in Policy :
                CanView(list[w].reader, p) /\ since[c][p] < CategoryTtl

=============================================================================
