------------------------------ MODULE Reports ------------------------------
(***************************************************************************)
(* Reports of posts and threads, the queues of the moderators, the audit   *)
(* log and the cached dashboard of ferum-board.                            *)
(*                                                                         *)
(* A report names a post, a thread or both, and belongs to no category of  *)
(* its own: which queue shows it and who may resolve it follows from where *)
(* its target is now. Resolving reads the report, looks its category up,   *)
(* checks, and then writes the status whatever it has become.              *)
(***************************************************************************)
EXTENDS Integers, FiniteSets

CONSTANTS
  Worker,        \* requests in flight at once
  Report,        \* rows that may come to exist
  Thread, Post, Category,
  PostThread,    \* Post -> Thread
  Moderator,
  Scope,         \* Moderator -> the categories of its role, or Everywhere
  Everywhere,
  Ttl,           \* DASHBOARD_CACHE_TTL in ticks
  ReportWorlds,  \* what may happen in a behaviour
  Nobody

VARIABLES
  report_world,
  home,          \* threads.category_id
  reports,       \* rows; Nobody where there is none yet
  audit,         \* for each report, the decisions written to the audit log
  dashboard,     \* the cached dashboard: how many are pending, for how long
  desk,          \* where each worker stands
  brief          \* its local variables

reportVars == <<report_world, home, reports, audit, dashboard, desk, brief>>

Filed == {r \in Report : reports[r] # Nobody}
Status == {"pending", "resolved", "dismissed"}

Rows == [thread : Thread \cup {Nobody}, post : Post \cup {Nobody}, status : Status,
         by : Moderator \cup {Nobody}]

ReportConstants ==
  /\ PostThread \in [Post -> Thread]
  /\ Scope \in [Moderator -> SUBSET Category \cup {Everywhere}]
  /\ \A s \in ReportWorlds : s \subseteq {"overlap", "mixed", "audit_error"}
  /\ IsFiniteSet(Report)
  /\ Nobody \notin Post \cup Thread /\ Nobody \notin Rows

TypeOK ==
  /\ report_world \in ReportWorlds
  /\ home \in [Thread -> Category]
  /\ reports \in [Report -> Rows \cup {Nobody}]
  /\ audit \in [Report -> SUBSET [decision : Status \ {"pending"}, by : Moderator]]
  /\ dashboard = Nobody \/ dashboard.pending \in 0 .. Cardinality(Report)
  /\ desk \in [Worker -> {"idle", "authorize", "write", "append", "uncache", "fill"}]
  /\ \A w \in Worker : desk[w] = "idle" => brief[w] = Nobody

Init ==
  /\ report_world \in ReportWorlds
  /\ home \in [Thread -> Category]
  /\ reports = [r \in Report |-> Nobody]
  /\ audit = [r \in Report |-> {}]
  /\ dashboard = Nobody
  /\ desk = [w \in Worker |-> "idle"]
  /\ brief = [w \in Worker |-> Nobody]

Goto(w, label, fields) ==
  /\ desk' = [desk EXCEPT ![w] = label]
  /\ brief' = [brief EXCEPT ![w] = fields]

Leave(w) == Goto(w, "idle", Nobody)

Free(w) == desk[w] = "idle" /\ ("overlap" \in report_world \/ \A v \in Worker : desk[v] = "idle")

---------------------------------------------------------------------------
(* Who sees and who resolves.                                              *)

has_perm(m) == Scope[m] = Everywhere
has_perm_in(m, c) == has_perm(m) \/ c \in Scope[m]
has_perm_any_category(m) == has_perm(m) \/ Scope[m] # {}

(* None is written as all the categories there are: it filters nothing.    *)
permitted_category_ids(m) == IF has_perm(m) THEN Category ELSE Scope[m]

(* Either link will do.                                                    *)
scope_to_categories(cats) ==
  {r \in Filed : \/ reports[r].thread # Nobody /\ home[reports[r].thread] \in cats
                 \/ reports[r].post # Nobody /\ home[PostThread[reports[r].post]] \in cats}

list_all(status, target_type, cats) ==
  {r \in scope_to_categories(cats) :
     /\ reports[r].status \in status
     /\ target_type = "post" => reports[r].post # Nobody
     /\ target_type = "thread" => reports[r].thread # Nobody}

count_by_status(cats) ==
  [s \in Status |-> Cardinality({r \in scope_to_categories(cats) : reports[r].status = s})]

list_pending_reports(m, target_type) ==
  IF has_perm_any_category(m)
    THEN list_all({"pending"}, target_type, permitted_category_ids(m))
    ELSE {}

mod_report_status_counts(m) == count_by_status(permitted_category_ids(m))

(* The thread goes before the post. Nothing deletes a row of either.       *)
report_category_id(row) == home[IF row.thread # Nobody THEN row.thread ELSE PostThread[row.post]]

can_resolve_report(m, row) == has_perm_in(m, report_category_id(row))

---------------------------------------------------------------------------
(* Requests.                                                               *)

(* create_report: the handler refuses a report of nothing; a post and a    *)
(* thread that have nothing to do with each other are accepted.            *)
create_report(r, post, thread) ==
  /\ reports[r] = Nobody
  /\ post # Nobody \/ thread # Nobody
  /\ (Nobody \notin {post, thread} /\ "mixed" \notin report_world) => PostThread[post] = thread
  /\ reports' = [reports EXCEPT ![r] =
                   [post |-> post, thread |-> thread, status |-> "pending", by |-> Nobody]]
  /\ UNCHANGED <<report_world, home, audit, dashboard, desk, brief>>

(* resolve_report, up to the first write: the gate, the row, its category, *)
(* and whether it is still pending in the row that was read.               *)
FindReport(w, m, r, decision) ==
  /\ Free(w)
  /\ has_perm_any_category(m)
  /\ r \in Filed
  /\ Goto(w, "authorize", [report |-> r, row |-> reports[r], by |-> m, decision |-> decision])
  /\ UNCHANGED <<report_world, home, reports, audit, dashboard>>

(* A mutant of Authorize that does not look at the category.               *)
AuthorizeAnywhere(w) ==
  /\ desk[w] = "authorize"
  /\ IF brief[w].row.status = "pending" THEN Goto(w, "write", brief[w]) ELSE Leave(w)
  /\ UNCHANGED <<report_world, home, reports, audit, dashboard>>

Authorize(w) ==
  /\ desk[w] = "authorize"
  /\ IF can_resolve_report(brief[w].by, brief[w].row) /\ brief[w].row.status = "pending"
       THEN Goto(w, "write", brief[w])
       ELSE Leave(w)
  /\ UNCHANGED <<report_world, home, reports, audit, dashboard>>

update_status(w) ==
  /\ desk[w] = "write"
  /\ reports' = [reports EXCEPT ![brief[w].report].status = brief[w].decision,
                                ![brief[w].report].by = brief[w].by]
  /\ Goto(w, "uncache", brief[w])
  /\ UNCHANGED <<report_world, home, audit, dashboard>>

(* A mutant of Uncache that leaves the entry to its end.                   *)
UncacheNothing(w) ==
  /\ desk[w] = "uncache"
  /\ Goto(w, "append", brief[w])
  /\ UNCHANGED <<report_world, home, reports, audit, dashboard>>

(* The dashboard's entry goes; whether the entry could be deleted and the  *)
(* log written is not looked at.                                           *)
Uncache(w) ==
  /\ desk[w] = "uncache"
  /\ dashboard' = Nobody
  /\ Goto(w, "append", brief[w])
  /\ UNCHANGED <<report_world, home, reports, audit>>

Append(w) ==
  /\ desk[w] = "append"
  /\ \/ audit' = [audit EXCEPT ![brief[w].report] =
                    @ \cup {[decision |-> brief[w].decision, by |-> brief[w].by]}]
     \/ "audit_error" \in report_world /\ UNCHANGED audit
  /\ Leave(w)
  /\ UNCHANGED <<report_world, home, reports, dashboard>>

(* The dashboard: the entry if there is one, else a count and a new entry. *)
dashboard_counts == count_by_status(Category)["pending"]

ReadDashboard(w) ==
  /\ Free(w) /\ dashboard = Nobody
  /\ Goto(w, "fill", [pending |-> dashboard_counts])
  /\ UNCHANGED <<report_world, home, reports, audit, dashboard>>

FillDashboard(w) ==
  /\ desk[w] = "fill"
  /\ dashboard' = [pending |-> brief[w].pending, left |-> Ttl]
  /\ Leave(w)
  /\ UNCHANGED <<report_world, home, reports, audit>>

(* flush_daily_stats drops the entry every five minutes.                   *)
DropDashboard ==
  /\ dashboard # Nobody /\ dashboard' = Nobody
  /\ UNCHANGED <<report_world, home, reports, audit, desk, brief>>

MoveThread(t, c) ==
  /\ home[t] # c
  /\ home' = [home EXCEPT ![t] = c]
  /\ UNCHANGED <<report_world, reports, audit, dashboard, desk, brief>>

Tick ==
  /\ dashboard # Nobody
  /\ \A w \in Worker : desk[w] = "idle"
  /\ dashboard' = IF dashboard.left = 1 THEN Nobody ELSE [dashboard EXCEPT !.left = @ - 1]
  /\ UNCHANGED <<report_world, home, reports, audit, desk, brief>>

Next ==
  \/ \E r \in Report, p \in Post \cup {Nobody}, t \in Thread \cup {Nobody} :
       create_report(r, p, t)
  \/ \E w \in Worker, m \in Moderator, r \in Report, d \in Status \ {"pending"} :
       FindReport(w, m, r, d)
  \/ \E w \in Worker : \/ Authorize(w) \/ update_status(w) \/ Uncache(w) \/ Append(w)
                       \/ ReadDashboard(w) \/ FillDashboard(w)
  \/ \E t \in Thread, c \in Category : MoveThread(t, c)
  \/ DropDashboard \/ Tick

Spec == Init /\ [][Next]_reportVars

---------------------------------------------------------------------------
Calm == \A w \in Worker : desk[w] = "idle"

(* Deciding is whole: when no request is under way and none overlapped     *)
(* another, a report that is no longer pending has its one entry in the    *)
(* audit log, that of the moderator the row names; and the dashboard,      *)
(* which may not have heard of new reports, counts none that is decided.   *)
DecisionsAgree ==
  Calm /\ "overlap" \notin report_world =>
    /\ "audit_error" \notin report_world =>
         \A r \in Filed : audit[r] = IF reports[r].status = "pending" THEN {}
                                     ELSE {[decision |-> reports[r].status, by |-> reports[r].by]}
    /\ dashboard # Nobody => dashboard.pending <= dashboard_counts

(* domain/auth_user.rs, "a category-scoped moderator cannot see or act on  *)
(* content outside their assigned categories": what a moderator decided    *)
(* was in that moderator's queue when the permission was checked, wherever *)
(* threads are moved, and the decision is of a report that was pending.    *)
DecidingStep ==
  \A w \in Worker :
    (desk[w] = "authorize" /\ desk'[w] = "write") =>
      /\ brief[w].report \in list_all(Status, "any", permitted_category_ids(brief[w].by))
      /\ brief[w].row.status = "pending"
DecidesOwnQueue == [][DecidingStep]_reportVars

(* The same sentence the other way round: a pending report in a queue can  *)
(* be decided from it. Fails for a report of a thread and of a post of     *)
(* another thread: the post's category shows it, the thread's decides.     *)
QueueActionable ==
  \A m \in Moderator : \A r \in list_pending_reports(m, "any") :
    can_resolve_report(m, reports[r])

(* moderation_usecase.rs, "Report has already been resolved": a report is  *)
(* decided once. Fails when two moderators decide at the same time.        *)
DecidedOnce == \A r \in Report : Cardinality(audit[r]) <= 1
=============================================================================
