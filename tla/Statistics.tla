----------------------------- MODULE Statistics -----------------------------
(***************************************************************************)
(* View counters and daily statistics of ferum-board.                      *)
(*                                                                         *)
(* Opening a thread spawns a task that records the viewer, once a day, and *)
(* adds one to a buffer in memory. One loop moves the buffer to the        *)
(* threads' counters every minute, another writes today's row of           *)
(* daily_stats every five minutes: a snapshot of the sum of all counters,  *)
(* and the views since yesterday's snapshot. Starting the server fills in  *)
(* the days that have no row.                                              *)
(***************************************************************************)
EXTENDS Integers, FiniteSets, FiniteSetsExt, Functions

CONSTANTS
  Thread, Viewer,
  LastDay,       \* bound: the days of a behaviour are 0 .. LastDay
  MaxVisits,     \* bound on the tasks a viewer has under way for a thread
  StatWorlds,    \* what may happen in a behaviour
  Never

StatConstants ==
  /\ IsFiniteSet(Thread) /\ IsFiniteSet(Viewer) /\ Never \notin Nat
  /\ LastDay \in Nat /\ MaxVisits \in Nat
  /\ \A s \in StatWorlds : s \subseteq {"restart", "error", "raw", "delete", "missed"}

VARIABLES
  stat_world,
  today,
  view_count,    \* threads.view_count
  born,          \* threads.created_at, Never before
  alive,         \* threads that are not deleted
  dedup,         \* thread_view_dedup: the last day and the number of days
  visits,        \* spawned tasks: how many at which step
  buffer,        \* view_count_buffer: only threads with an entry
  draining,      \* what flush_view_counts took out and has not written
  daily,         \* daily_stats, per day: snapshot, new_views, new_threads
  flushing       \* whether flush_daily_stats has seeded yesterday and is to write

statVars == <<stat_world, today, view_count, born, alive, dedup, visits, buffer, draining,
              daily, flushing>>

Day == 0 .. LastDay
(* The steps of a task: the statements of try_record_view carry the day    *)
(* that it began on.                                                       *)
Steps == ({"insert", "update"} \X Day) \cup {<<"count">>}
Since(d) == <<"insert", d>>
Metric == {"view_count_snapshot", "new_views", "new_threads"}
Nothing == [m \in Metric |-> Never]

TypeOK ==
  /\ stat_world \in StatWorlds
  /\ today \in Day
  /\ view_count \in [Thread -> Nat]
  /\ born \in [Thread -> Day \cup {Never}]
  /\ alive \subseteq {t \in Thread : born[t] # Never}
  /\ dedup \in [Thread \X Viewer -> [last : Day \cup {Never}, total : 0 .. LastDay + 1]]
  /\ visits \in [Thread \X Viewer \X Steps -> Nat]
  /\ DOMAIN buffer \subseteq Thread /\ DOMAIN draining \subseteq Thread
  /\ daily \in [-1 .. LastDay -> [Metric -> Nat \cup {Never}]]
  /\ flushing \in BOOLEAN

Init ==
  /\ stat_world \in StatWorlds
  /\ today = 0
  /\ view_count = [t \in Thread |-> 0]
  /\ born = [t \in Thread |-> Never]
  /\ alive = {}
  /\ dedup = [p \in Thread \X Viewer |-> [last |-> Never, total |-> 0]]
  /\ visits = [v \in Thread \X Viewer \X Steps |-> 0]
  /\ buffer = <<>> /\ draining = <<>>
  /\ daily = [d \in -1 .. LastDay |-> Nothing]
  /\ flushing = FALSE

stored == <<view_count, born, alive, dedup, daily>>
inMemory == <<visits, buffer, draining, flushing>>

---------------------------------------------------------------------------
(* Views.                                                                  *)

CreateThread(t) ==
  /\ born[t] = Never
  /\ born' = [born EXCEPT ![t] = today]
  /\ alive' = alive \cup {t}
  /\ UNCHANGED <<stat_world, today, view_count, dedup, daily, inMemory>>

DeleteThread(t) ==
  /\ "delete" \in stat_world /\ t \in alive
  /\ alive' = alive \ {t}
  /\ UNCHANGED <<stat_world, today, view_count, born, dedup, daily, inMemory>>

Pending(t, v) == MapThenSumSet(LAMBDA s : visits[<<t, v, s>>], Steps)

Entry(f, t) == IF t \in DOMAIN f THEN f[t] ELSE 0

(* get_by_slug, and the task it spawns. Without deduplication the task     *)
(* counts at once.                                                         *)
GetBySlug(t, v) ==
  /\ t \in alive
  /\ Pending(t, v) < MaxVisits
  /\ "raw" \in stat_world => view_count[t] + Entry(buffer, t) + Entry(draining, t) < MaxVisits
  /\ visits' = [visits EXCEPT ![<<t, v, IF "raw" \in stat_world THEN <<"count">> ELSE Since(today)>>] = @ + 1]
  /\ UNCHANGED <<stat_world, today, stored, buffer, draining, flushing>>

Move(t, v, from, to) ==
  visits' = [visits EXCEPT ![<<t, v, from>>] = @ - 1, ![<<t, v, to>>] = @ + 1]

Done(t, v, from) == visits' = [visits EXCEPT ![<<t, v, from>>] = @ - 1]

(* try_record_view, step 1: a viewer who is new to the thread counts.      *)
InsertView(t, v, d) ==
  /\ visits[<<t, v, Since(d)>>] > 0
  /\ IF dedup[<<t, v>>].last = Never
       THEN /\ dedup' = [dedup EXCEPT ![<<t, v>>] = [last |-> d, total |-> 1]]
            /\ Move(t, v, Since(d), <<"count">>)
       ELSE /\ Move(t, v, Since(d), <<"update", d>>)
            /\ UNCHANGED dedup
  /\ UNCHANGED <<stat_world, today, view_count, born, alive, daily, buffer, draining, flushing>>

(* A mutant of UpdateView whose UPDATE does not compare the day.           *)
UpdateViewAlways(t, v, d) ==
  /\ visits[<<t, v, <<"update", d>>>>] > 0
  /\ dedup' = [dedup EXCEPT ![<<t, v>>] = [last |-> d, total |-> @.total + 1]]
  /\ Move(t, v, <<"update", d>>, <<"count">>)
  /\ UNCHANGED <<stat_world, today, view_count, born, alive, daily, buffer, draining, flushing>>

(* Step 2: one UPDATE both compares the day and moves it on.               *)
UpdateView(t, v, d) ==
  /\ visits[<<t, v, <<"update", d>>>>] > 0
  /\ IF dedup[<<t, v>>].last < d
       THEN /\ dedup' = [dedup EXCEPT ![<<t, v>>] = [last |-> d, total |-> @.total + 1]]
            /\ Move(t, v, <<"update", d>>, <<"count">>)
       ELSE /\ Done(t, v, <<"update", d>>)
            /\ UNCHANGED dedup
  /\ UNCHANGED <<stat_world, today, view_count, born, alive, daily, buffer, draining, flushing>>

(* An error of either statement ends the task with a warning.              *)
RecordFails(t, v, s) ==
  /\ "error" \in stat_world /\ s # <<"count">>
  /\ visits[<<t, v, s>>] > 0
  /\ Done(t, v, s)
  /\ UNCHANGED <<stat_world, today, stored, buffer, draining, flushing>>

CountView(t, v) ==
  /\ visits[<<t, v, <<"count">>>>] > 0
  /\ Done(t, v, <<"count">>)
  /\ buffer' = [u \in DOMAIN buffer \cup {t} |-> Entry(buffer, u) + IF u = t THEN 1 ELSE 0]
  /\ UNCHANGED <<stat_world, today, stored, draining, flushing>>

(* flush_view_counts: each entry is taken out whole, then each is written. *)
DrainBuffer ==
  /\ draining = <<>> /\ buffer # <<>>
  /\ draining' = buffer /\ buffer' = <<>>
  /\ UNCHANGED <<stat_world, today, stored, visits, flushing>>

AddViewCount(t) ==
  /\ t \in DOMAIN draining
  /\ \/ view_count' = [view_count EXCEPT ![t] = @ + draining[t]]
     \/ "error" \in stat_world /\ UNCHANGED view_count
  /\ draining' = Restrict(draining, DOMAIN draining \ {t})
  /\ UNCHANGED <<stat_world, today, born, alive, dedup, daily, visits, buffer, flushing>>

---------------------------------------------------------------------------
(* Daily statistics.                                                       *)

view_total == MapThenSumSet(LAMBDA t : view_count[t], alive)

(* The views of today: since yesterday's snapshot, none without one.       *)
new_views(base) == Max({0, view_total - IF base = Never THEN view_total ELSE base})

new_threads == Cardinality({t \in alive : born[t] = today})

dashboard_counts ==
  [threads_total |-> Cardinality(alive),
   new_threads_today |-> new_threads,
   new_views_today |-> new_views(daily[today - 1]["view_count_snapshot"])]

(* flush_daily_stats: a snapshot for yesterday if there is none, then one  *)
(* upsert of all of today's metrics.                                       *)
SeedYesterday ==
  /\ ~flushing /\ flushing' = TRUE
  /\ daily' = IF daily[today - 1]["view_count_snapshot"] = Never
                THEN [daily EXCEPT ![today - 1]["view_count_snapshot"] = view_total]
                ELSE daily
  /\ UNCHANGED <<stat_world, today, view_count, born, alive, dedup, visits, buffer, draining>>

UpsertToday ==
  /\ flushing /\ flushing' = FALSE
  /\ daily' = [daily EXCEPT ![today] =
                 [view_count_snapshot |-> view_total,
                  new_views |-> dashboard_counts.new_views_today,
                  new_threads |-> dashboard_counts.new_threads_today]]
  /\ UNCHANGED <<stat_world, today, view_count, born, alive, dedup, visits, buffer, draining>>

(* backfill_history: days in the past that have rows in the source tables  *)
(* and none in daily_stats.                                                *)
backfill_history ==
  [d \in DOMAIN daily |->
     IF d \in Day /\ d < today /\ daily[d]["new_threads"] = Never
          /\ \E t \in alive : born[t] = d
       THEN [daily[d] EXCEPT !["new_threads"] = Cardinality({t \in alive : born[t] = d})]
       ELSE daily[d]]

(* stats_history: a day without a row is 0.                                *)
stats_history(metric) ==
  [d \in Day |-> IF daily[d][metric] = Never THEN 0 ELSE daily[d][metric]]

(* Midnight finds the loop at work every day, unless the server was down.  *)
NextDay ==
  /\ today < LastDay
  /\ "missed" \in stat_world \/ daily[today]["view_count_snapshot"] # Never
  /\ today' = today + 1
  /\ UNCHANGED <<stat_world, stored, inMemory>>

(* What is in memory is lost; starting fills the history in.               *)
Restart ==
  /\ "restart" \in stat_world
  /\ visits' = [v \in Thread \X Viewer \X Steps |-> 0]
  /\ buffer' = <<>> /\ draining' = <<>> /\ flushing' = FALSE
  /\ daily' = backfill_history
  /\ UNCHANGED <<stat_world, today, view_count, born, alive, dedup>>

Next ==
  \/ \E t \in Thread : CreateThread(t) \/ DeleteThread(t) \/ AddViewCount(t)
  \/ \E t \in Thread, v \in Viewer : GetBySlug(t, v) \/ CountView(t, v)
  \/ \E t \in Thread, v \in Viewer, d \in Day : InsertView(t, v, d) \/ UpdateView(t, v, d)
  \/ \E t \in Thread, v \in Viewer, s \in Steps : RecordFails(t, v, s)
  \/ DrainBuffer \/ SeedYesterday \/ UpsertToday \/ NextDay \/ Restart

Spec == Init /\ [][Next]_statVars

---------------------------------------------------------------------------
(* Days on which viewers were recorded.                                    *)
Recorded(t) == MapThenSumSet(LAMBDA v : dedup[<<t, v>>].total, Viewer)

(* Views on their way to the counter.                                      *)
OnTheWay(t) ==
  Entry(buffer, t) + Entry(draining, t)
    + MapThenSumSet(LAMBDA v : visits[<<t, v, <<"count">>>>], Viewer)

(* get_by_slug counts a viewer of a thread once a day, however many tasks  *)
(* for the same viewer overlap, and what flush_view_counts takes out while *)
(* others count is neither lost nor written twice. Failures and restarts   *)
(* lose views, as flush_view_counts says, and never add any.               *)
ViewsCounted ==
  "raw" \notin stat_world =>
    \A t \in Thread :
      /\ \A v \in Viewer : dedup[<<t, v>>].total <= today + 1
      /\ view_count[t] + OnTheWay(t) <= Recorded(t)
      /\ {"restart", "error"} \cap stat_world = {} => view_count[t] + OnTheWay(t) = Recorded(t)

(* stats_repository.rs, "the delta is 0 rather than the full cumulative    *)
(* sum": over all days, the statistics report no view twice, though        *)
(* threads are deleted, days are missed and baselines seeded late.         *)
NoViewOnTwoDays ==
  MapThenSumSet(LAMBDA d : stats_history("new_views")[d], Day)
    <= MapThenSumSet(LAMBDA t : view_count[t], Thread)

(* Each day that has passed has its row in full. Fails: what is made       *)
(* between the last flush of a day and midnight is never in the history,   *)
(* since backfill_history passes over days that have a row                 *)
(* (admin_stats_usecase.rs: "Backfills historical daily_stats ... for all  *)
(* dates before today").                                                   *)
HistoryComplete ==
  \A d \in Day : d < today /\ "delete" \notin stat_world /\ "missed" \notin stat_world =>
    stats_history("new_threads")[d] = Cardinality({t \in alive : born[t] = d})
=============================================================================
