------------------------------- MODULE Trust -------------------------------
(***************************************************************************)
(* The standing of one user of ferum-board, the author: the trust score    *)
(* that reactions, best answers and warnings move, and the trust level     *)
(* that a login promotes and an administrator sets.                        *)
(*                                                                         *)
(* A score is never written by the handler that earns it. The handler      *)
(* finishes its rows, publishes an event and spawns a task that adds to    *)
(* the score; tasks run in any order, each is one clamped UPDATE, and a    *)
(* restart loses those that have not run.                                  *)
(***************************************************************************)
EXTENDS Integers, FiniteSets, FiniteSetsExt, Sequences

CONSTANTS
  Worker,        \* requests in flight at once
  Reactor,       \* users other than the author
  Post,          \* the author's posts, all in one thread of another user's
  Kind,          \* kinds of reaction
  Meaningful,    \* those that carry weight: helpful, insightful
  Standings,     \* rows of the author's that a behaviour may start from
  TrustWorlds,   \* what may happen in a behaviour: sets of TrustEvents
  MaxChanges,    \* bound on the changes of the best answer and on the warnings
  PostCounts,    \* the counts of posts the author may reach
  VisitDays,     \* the counts of days visited
  MaxTasks,      \* bound on the tasks of a kind, at which no request starts
  None

(* "overlap" and "restart" disturb, the others say what the requests do.   *)
TrustEvents == {"overlap", "restart", "react", "answer", "account"}

Levels == <<"new", "basic", "member", "regular", "leader">>
Level == 1 .. 5
MaxScore == 100

Accounts == [level : Level, posts : Nat, days : Nat, score : 0 .. MaxScore]

TrustConstants ==
  /\ Meaningful \subseteq Kind
  /\ None \notin Post
  /\ \A s \in TrustWorlds : s \subseteq TrustEvents
  /\ Standings \subseteq Accounts

VARIABLES
  trust_world,
  reactions,     \* rows of reactions: post, user and kind are unique
  deleted,       \* posts that are soft-deleted
  best_answer,   \* of the thread; it is solved exactly when there is one
  warn_count,
  account,       \* the author's row: level, posts, days, score
  seen_today,    \* last_seen_at is of today
  tasks,         \* spawned and not run: a bag of them
  duty,          \* where each worker stands
  order,         \* its local variables
  start, clipped, changes  \* history: the first score, whether an addition was
                           \* cut off at 0 or 100, how often best_answer changed

trustVars == <<trust_world, reactions, deleted, best_answer, warn_count, account,
               seen_today, tasks, duty, order, start, clipped, changes>>

Row == [post : Post, user : Reactor, kind : Kind]
Idle == [target |-> <<>>]

(* A task adds to the score, or it counts a visit.                         *)
Visit == 0
Tasks == {-5, -2, Visit, 2, 5}

TypeOK ==
  /\ trust_world \in TrustWorlds
  /\ reactions \subseteq Row /\ deleted \subseteq Post
  /\ best_answer \in Post \cup {None}
  /\ warn_count \in Nat
  /\ account \in Accounts
  /\ tasks \in [Tasks -> Nat]
  /\ seen_today \in BOOLEAN /\ clipped \in BOOLEAN
  /\ start \in 0 .. MaxScore /\ changes \in Nat
  /\ \A w \in Worker : duty[w] = "idle" <=> order[w] = Idle

(* What the promotion at login looks at, kept around the two thresholds.   *)
Init ==
  /\ trust_world \in TrustWorlds
  /\ account \in Standings
  /\ reactions = {} /\ deleted = {} /\ best_answer = None /\ warn_count = 0
  /\ seen_today = TRUE
  /\ tasks = [t \in Tasks |-> 0]
  /\ duty = [w \in Worker |-> "idle"]
  /\ order = [w \in Worker |-> Idle]
  /\ start = account.score /\ clipped = FALSE /\ changes = 0

rows == <<reactions, deleted, best_answer, warn_count>>
history == <<start, clipped, changes>>

Goto(w, label) == duty' = [duty EXCEPT ![w] = label]

(* Apart from overlaps, no two requests in flight work on the same thing.  *)
Start(w, label, fields) ==
  /\ duty[w] = "idle"
  /\ \A t \in Tasks : tasks[t] < MaxTasks
  /\ "overlap" \in trust_world
       \/ \A v \in Worker : duty[v] = "idle" \/ order[v].target # fields.target
  /\ Goto(w, label)
  /\ order' = [order EXCEPT ![w] = fields]

Leave(w) ==
  /\ Goto(w, "idle")
  /\ order' = [order EXCEPT ![w] = Idle]

(* tokio::spawn.                                                           *)
Spawn(t) == tasks' = [tasks EXCEPT ![t] = @ + 1]

---------------------------------------------------------------------------
(* Reactions.                                                              *)

(* find_active_post: a deleted post takes no reactions, and gives none     *)
(* back.                                                                   *)
BeginReaction(w, r, label) ==
  /\ "react" \in trust_world
  /\ r.post \notin deleted
  /\ Start(w, label, [target |-> <<"reaction", r>>, row |-> r])
  /\ UNCHANGED <<trust_world, rows, account, seen_today, tasks, history>>

BeginAdd(w, r) == BeginReaction(w, r, "add_find")
BeginRemove(w, r) == BeginReaction(w, r, "remove_find")

(* An existing reaction ends the request; otherwise a plugin may refuse.   *)
FindForAdd(w) ==
  /\ duty[w] = "add_find"
  /\ \/ order[w].row \in reactions /\ Leave(w)
     \/ order[w].row \notin reactions /\ Goto(w, "add_insert") /\ UNCHANGED order
     \/ order[w].row \notin reactions /\ Leave(w)
  /\ UNCHANGED <<trust_world, rows, account, seen_today, tasks, history>>

(* The unique index answers a second insertion with a conflict.            *)
InsertReaction(w) ==
  /\ duty[w] = "add_insert"
  /\ IF order[w].row \in reactions
       THEN Leave(w)
       ELSE Goto(w, "add_reward") /\ UNCHANGED order
  /\ reactions' = reactions \cup {order[w].row}
  /\ UNCHANGED <<trust_world, deleted, best_answer, warn_count, account, seen_today,
                 tasks, history>>

RewardReaction(w) ==
  /\ duty[w] = "add_reward"
  /\ IF order[w].row.kind \in Meaningful THEN Spawn(2) ELSE UNCHANGED tasks
  /\ Leave(w)
  /\ UNCHANGED <<trust_world, rows, account, seen_today, history>>

FindForRemove(w) ==
  /\ duty[w] = "remove_find"
  /\ Goto(w, "remove_delete")
  /\ order' = [order EXCEPT ![w] =
                 [target |-> @.target, row |-> @.row, existed |-> @.row \in reactions]]
  /\ UNCHANGED <<trust_world, rows, account, seen_today, tasks, history>>

(* A mutant of DeleteReaction that takes back what the row before the      *)
(* removal was not found to give.                                          *)
DeleteReactionBlind(w) ==
  /\ duty[w] = "remove_delete"
  /\ reactions' = reactions \ {order[w].row}
  /\ Goto(w, "remove_undo") /\ UNCHANGED order
  /\ UNCHANGED <<trust_world, deleted, best_answer, warn_count, account, seen_today,
                 tasks, history>>

(* The deletion says nothing of how many rows it deleted: what was found   *)
(* before decides whether the reward is taken back.                        *)
DeleteReaction(w) ==
  /\ duty[w] = "remove_delete"
  /\ reactions' = reactions \ {order[w].row}
  /\ IF order[w].existed
       THEN Goto(w, "remove_undo") /\ UNCHANGED order
       ELSE Leave(w)
  /\ UNCHANGED <<trust_world, deleted, best_answer, warn_count, account, seen_today,
                 tasks, history>>

UndoReaction(w) ==
  /\ duty[w] = "remove_undo"
  /\ IF order[w].row.kind \in Meaningful THEN Spawn(-2) ELSE UNCHANGED tasks
  /\ Leave(w)
  /\ UNCHANGED <<trust_world, rows, account, seen_today, history>>

---------------------------------------------------------------------------
(* Best answers and warnings.                                              *)

(* mark_solved reads the thread and the post - a deleted post will do -    *)
(* and does nothing when that answer is marked already. A plugin may       *)
(* refuse.                                                                 *)
SolveAgain(w, p) == best_answer = p

BeginSolve(w, p) ==
  /\ "answer" \in trust_world /\ changes < MaxChanges
  /\ ~SolveAgain(w, p)
  /\ Start(w, "solve_write", [target |-> <<"thread">>, post |-> p])
  /\ UNCHANGED <<trust_world, rows, account, seen_today, tasks, history>>

SolveWrite(w) ==
  /\ duty[w] = "solve_write"
  /\ \/ /\ best_answer' = order[w].post
        /\ changes' = changes + (IF best_answer # order[w].post THEN 1 ELSE 0)
        /\ Goto(w, "solve_reward") /\ UNCHANGED order
     \/ Leave(w) /\ UNCHANGED <<best_answer, changes>>
  /\ UNCHANGED <<trust_world, reactions, deleted, warn_count, account, seen_today,
                 tasks, start, clipped>>

RewardSolve(w) ==
  /\ duty[w] = "solve_reward"
  /\ Spawn(5)
  /\ Leave(w)
  /\ UNCHANGED <<trust_world, rows, account, seen_today, history>>

(* warn_user: the count is one atomic UPDATE; the notification and the     *)
(* event come before the penalty.                                          *)
BeginWarn(w) ==
  /\ "answer" \in trust_world /\ warn_count < MaxChanges
  /\ Start(w, "warn_penalty", [target |-> <<"warning", warn_count>>])
  /\ warn_count' = warn_count + 1
  /\ UNCHANGED <<trust_world, reactions, deleted, best_answer, account, seen_today,
                 tasks, history>>

Penalty(w) ==
  /\ duty[w] = "warn_penalty"
  /\ Spawn(-5)
  /\ Leave(w)
  /\ UNCHANGED <<trust_world, rows, account, seen_today, history>>

---------------------------------------------------------------------------
(* The account.                                                            *)

increment_trust_score(row, amount) ==
  [row EXCEPT !.score = Max({0, Min({MaxScore, @ + amount})})]

increment_post_count(row, delta) == [row EXCEPT !.posts = Max({0, @ + delta})]

update_last_seen(row) == [row EXCEPT !.days = @ + IF seen_today THEN 0 ELSE 1]

RunTask(t) ==
  /\ tasks[t] > 0
  /\ tasks' = [tasks EXCEPT ![t] = @ - 1]
  /\ IF t = Visit
       THEN /\ account' = update_last_seen(account)
            /\ seen_today' = TRUE
            /\ UNCHANGED clipped
       ELSE /\ account' = increment_trust_score(account, t)
            /\ clipped' = (clipped \/ account.score + t \notin 0 .. MaxScore)
            /\ UNCHANGED seen_today
  /\ UNCHANGED <<trust_world, rows, duty, order, start, changes>>

(* What PostUseCase does to the row when a post of the author's is         *)
(* published (1) and deleted (-1).                                         *)
CountPost(delta) ==
  /\ "account" \in trust_world /\ account.posts + delta \in PostCounts
  /\ account' = increment_post_count(account, delta)
  /\ UNCHANGED <<trust_world, rows, seen_today, tasks, duty, order, history>>

DeletePost(p) ==
  /\ p \notin deleted
  /\ deleted' = deleted \cup {p}
  /\ account' = increment_post_count(account, -1)
  /\ UNCHANGED <<trust_world, reactions, best_answer, warn_count, seen_today, tasks, duty,
                 order, history>>

(* A mutant of evaluate_trust_promotion that promotes to the level earned  *)
(* by the counts alone.                                                    *)
EvaluateByCounts(row) ==
  CASE row.posts >= 500 /\ row.days >= 100 /\ row.score >= 80 -> 4
    [] row.posts >= 30 /\ row.days >= 15 -> 3
    [] OTHER -> row.level

(* evaluate_trust_promotion: the level a row deserves at a login.          *)
evaluate_trust_promotion(row) ==
  CASE Levels[row.level] = "basic" /\ row.posts >= 30 /\ row.days >= 15 -> row.level + 1
    [] Levels[row.level] = "member" /\ row.posts >= 500 /\ row.days >= 100
         /\ row.score >= 80 -> row.level + 1
    [] OTHER -> row.level

(* A login reads the row; the visit is counted by a task, after that.      *)
BeginLogin(w) ==
  /\ "account" \in trust_world
  /\ Start(w, "promote", [target |-> <<"account">>, row |-> account])
  /\ Spawn(Visit)
  /\ UNCHANGED <<trust_world, rows, account, seen_today, history>>

Promote(w) ==
  /\ duty[w] = "promote"
  /\ LET deserved == evaluate_trust_promotion(order[w].row)
     IN  account' = IF deserved # order[w].row.level
                      THEN [account EXCEPT !.level = deserved]
                      ELSE account
  /\ Leave(w)
  /\ UNCHANGED <<trust_world, rows, seen_today, tasks, history>>

(* set_trust_level: the administrator's user is found, then written.       *)
BeginSetLevel(w, l) ==
  /\ "account" \in trust_world
  /\ Start(w, "set_level", [target |-> <<"account">>, level |-> l])
  /\ UNCHANGED <<trust_world, rows, account, seen_today, tasks, history>>

set_trust_level(w) ==
  /\ duty[w] = "set_level"
  /\ account' = [account EXCEPT !.level = order[w].level]
  /\ Leave(w)
  /\ UNCHANGED <<trust_world, rows, seen_today, tasks, history>>

NextDay ==
  /\ "account" \in trust_world /\ account.days + 1 \in VisitDays
  /\ seen_today
  /\ seen_today' = FALSE
  /\ UNCHANGED <<trust_world, rows, account, tasks, duty, order, history>>

(* Requests and tasks live in memory.                                      *)
Restart ==
  /\ "restart" \in trust_world
  /\ \E w \in Worker : duty[w] # "idle"
  /\ duty' = [w \in Worker |-> "idle"]
  /\ order' = [w \in Worker |-> Idle]
  /\ tasks' = [t \in Tasks |-> 0]
  /\ UNCHANGED <<trust_world, rows, account, seen_today, history>>

---------------------------------------------------------------------------
TrustStep(w) ==
  \/ FindForAdd(w) \/ InsertReaction(w) \/ RewardReaction(w)
  \/ FindForRemove(w) \/ DeleteReaction(w) \/ UndoReaction(w)
  \/ SolveWrite(w) \/ RewardSolve(w) \/ Penalty(w)
  \/ Promote(w) \/ set_trust_level(w)

Next ==
  \/ \E w \in Worker : TrustStep(w)
  \/ \E w \in Worker, r \in Row : BeginAdd(w, r) \/ BeginRemove(w, r)
  \/ \E w \in Worker, p \in Post : BeginSolve(w, p)
  \/ \E w \in Worker : BeginWarn(w) \/ BeginLogin(w)
  \/ \E w \in Worker, l \in Level : BeginSetLevel(w, l)
  \/ \E t \in Tasks : RunTask(t)
  \/ \E d \in {-1, 1} : CountPost(d)
  \/ \E p \in Post : DeletePost(p)
  \/ NextDay \/ Restart

Spec == Init /\ [][Next]_trustVars

---------------------------------------------------------------------------
Quiet == (\A w \in Worker : duty[w] = "idle") /\ \A t \in Tasks : tasks[t] = 0

(* The weight of the reactions that are there.                             *)
Liked == 2 * Cardinality({r \in reactions : r.kind \in Meaningful})

(* What the score would be if each change of what is there were rewarded   *)
(* once.                                                                   *)
Seen == start + Liked + 5 * changes - 5 * warn_count

(* When nothing is under way and no addition was cut off, the score is     *)
(* what is there to see: two for each meaningful reaction, five for each   *)
(* change of the best answer, less five for each warning, in whatever      *)
(* order requests on different things and their tasks ran.                 *)
ScoreExplained ==
  Quiet /\ ~clipped /\ {"restart", "overlap"} \cap trust_world = {} => account.score = Seen

(* reaction_usecase.rs: "Undo the trust_score boost when a meaningful      *)
(* reaction is removed." Fails: a removal that found no reaction deletes   *)
(* one added meanwhile, whose reward stays.                                *)
RewardUndone ==
  Quiet /\ ~clipped /\ "restart" \notin trust_world /\ changes = 0 => account.score <= Seen

(* thread_usecase.rs, mark_solved: "avoids double-firing the event and     *)
(* double-rewarding trust score on a client retry". Fails: a retry that    *)
(* overlaps the first request also finds another answer, or none, marked.  *)
RewardedOnce ==
  Quiet /\ ~clipped /\ Liked = 0 /\ reactions = {} /\ "react" \notin trust_world =>
    account.score <= Seen

(* auth_usecase.rs, "Lazy trust level promotion": a login raises the level *)
(* by one and only that of a user who has earned it - the posts and the    *)
(* days may have been taken away since, the level the administrator set    *)
(* last may not: a login that overlaps no change of the account never      *)
(* lowers a level, nor lifts a user past the next one.                     *)
PromotionStep ==
  "overlap" \notin trust_world /\ (\E w \in Worker : Promote(w)) =>
    account'.level \in {account.level, account.level + 1}
PromotionStands == [][PromotionStep]_trustVars
=============================================================================
