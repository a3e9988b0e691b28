---------------------------------- MODULE Marks ----------------------------------
(***************************************************************************)
(* What members mark: other members they follow and threads they bookmark. *)
(* Both are rows under a unique key of who and what, looked up before they *)
(* are inserted; whoever is followed is told of it.  The lists of a        *)
(* member's follows, followers and bookmarks are read page by page, newest *)
(* first, while others go on marking.                                      *)
(***************************************************************************)
EXTENDS Naturals, Sequences, FiniteSets, SequencesExt

CONSTANTS
    Member, Thread,
    Worker,
    MaxAdded,      \* bound: insertions of one mark
    MarkWorlds,
    NoMark

(* <<who, what>>                                                           *)
Follow == {m \in Member \X Member : m[1] # m[2]}
Bookmark == Member \X Thread
Mark == Follow \cup Bookmark

Lists == {"following", "followers", "bookmarks"}
Queries == {"total", "rows"}
Events == {"overlap", "remove", "db_error", "restart"}

MarkConstants ==
    /\ Member \cap Thread = {} /\ MaxAdded \in Nat \ {0}
    /\ \A x \in MarkWorlds :
          /\ x.who \subseteq Member /\ x.what \subseteq Member \cup Thread
          /\ x.per_page \in 1 .. 50 /\ x.lists \subseteq Lists /\ x.events \subseteq Events

VARIABLES
    mark_world,
    marks,         \* the rows, in the order of created_at
    deleted,       \* threads with status deleted
    added,         \* by mark: how often its row was inserted
    told,          \* by follow: notices of it
    reader,        \* a list somebody reads: what is listed, which pages, what was seen
    mark_pc, mark_req

markVars == <<mark_world, marks, deleted, added, told, reader, mark_pc, mark_req>>

Disturbed(event) == event \in mark_world.events

NoReader == [list |-> "none"]

TypeOK ==
    /\ mark_world \in MarkWorlds
    /\ marks \in Seq(Mark) /\ Cardinality(ToSet(marks)) = Len(marks)
    /\ deleted \subseteq Thread
    /\ added \in [Mark -> 0 .. MaxAdded] /\ told \in [Follow -> 0 .. MaxAdded]
    /\ mark_req \in [Worker -> Mark \cup {NoMark}]

Init ==
    /\ mark_world \in MarkWorlds
    /\ marks = <<>> /\ deleted = {}
    /\ added = [m \in Mark |-> 0] /\ told = [m \in Follow |-> 0]
    /\ reader = NoReader
    /\ mark_pc = [w \in Worker |-> "idle"] /\ mark_req = [w \in Worker |-> NoMark]

-----------------------------------------------------------------------------
(* Marking.                                                                *)

Go(w, place, m) ==
    /\ mark_pc' = [mark_pc EXCEPT ![w] = place]
    /\ mark_req' = [mark_req EXCEPT ![w] = m]
Finish(w) == Go(w, "idle", NoMark)

Idle(w) ==
    /\ mark_pc[w] = "idle"
    /\ Disturbed("overlap") \/ \A v \in Worker : mark_pc[v] = "idle"
Asked(m) == m[1] \in mark_world.who /\ m[2] \in mark_world.what

Rest == UNCHANGED <<mark_world, deleted, reader>>

(* Nobody follows himself.                                                 *)
BeginFollow(w) ==
    /\ Idle(w)
    /\ \E m \in Follow : Asked(m) /\ Go(w, "find", m)
    /\ UNCHANGED <<marks, added, told>> /\ Rest

(* The thread is looked at once, before the bookmark.                      *)
BeginBookmark(w) ==
    /\ Idle(w)
    /\ \E m \in Bookmark : Asked(m) /\ m[2] \notin deleted /\ Go(w, "find", m)
    /\ UNCHANGED <<marks, added, told>> /\ Rest

(* What is marked already is answered as if it were marked now.            *)
Find(w) ==
    /\ mark_pc[w] = "find"
    /\ IF mark_req[w] \in ToSet(marks) THEN Finish(w) ELSE Go(w, "add", mark_req[w])
    /\ UNCHANGED <<marks, added, told>> /\ Rest

Insert(m) ==
    /\ added[m] < MaxAdded
    /\ marks' = Append(marks, m)
    /\ added' = [added EXCEPT ![m] = @ + 1]

(* The unique key, or an error, ends the request.                          *)
Refused(w) ==
    /\ mark_req[w] \in ToSet(marks) \/ Disturbed("db_error")
    /\ Finish(w) /\ UNCHANGED <<marks, added>>

AddFollow(w) ==
    /\ mark_pc[w] = "add" /\ mark_req[w] \in Follow
    /\ \/ /\ mark_req[w] \notin ToSet(marks)
          /\ Insert(mark_req[w]) /\ Go(w, "publish", mark_req[w])
       \/ Refused(w)
    /\ UNCHANGED told /\ Rest

AddBookmark(w) ==
    /\ mark_pc[w] = "add" /\ mark_req[w] \in Bookmark
    /\ \/ mark_req[w] \notin ToSet(marks) /\ Insert(mark_req[w]) /\ Finish(w)
       \/ Refused(w)
    /\ UNCHANGED told /\ Rest

(* UserFollowed: a notice, whose error is passed over.                     *)
Publish(w) ==
    /\ mark_pc[w] = "publish"
    /\ \/ told' = [told EXCEPT ![mark_req[w]] = @ + 1]
       \/ Disturbed("db_error") /\ UNCHANGED told
    /\ Finish(w)
    /\ UNCHANGED <<marks, added>> /\ Rest

(* Those rows that are in a set, in the order of all.                      *)
Among(rows, some) ==
    LET upto[n \in 0 .. Len(rows)] ==
            IF n = 0 THEN <<>>
            ELSE IF rows[n] \in some THEN Append(upto[n - 1], rows[n]) ELSE upto[n - 1]
    IN  upto[Len(rows)]

(* One DELETE, whether there is anything to delete or not.                 *)
Unmark(m) ==
    /\ Disturbed("remove")
    /\ m \in ToSet(marks)
    /\ marks' = Among(marks, ToSet(marks) \ {m})
    /\ UNCHANGED <<added, told, mark_pc, mark_req>> /\ Rest
Unfollow == \E m \in Follow : Unmark(m)
RemoveBookmark == \E m \in Bookmark : Unmark(m)

(* A thread is deleted; its bookmarks stay.                                *)
DeleteThread ==
    /\ reader = NoReader \/ Disturbed("remove")
    /\ \E t \in (Thread \cap mark_world.what) \ deleted : deleted' = deleted \cup {t}
    /\ UNCHANGED <<mark_world, marks, added, told, reader, mark_pc, mark_req>>

(* A crash between an insertion and its notice.                            *)
Restart ==
    /\ Disturbed("restart")
    /\ mark_pc' = [w \in Worker |-> "idle"] /\ mark_req' = [w \in Worker |-> NoMark]
    /\ UNCHANGED <<marks, added, told>> /\ Rest

-----------------------------------------------------------------------------
(* Lists.                                                                  *)

Newest(some) == Reverse(Among(marks, some))

list_following(u) == Newest({m \in Follow : m[1] = u})
list_followers(u) == Newest({m \in Follow : m[2] = u})
list_for_user(u) == Newest({m \in Bookmark : m[1] = u /\ m[2] \notin deleted})

Listed(list, u) ==
    CASE list = "following" -> list_following(u)
      [] list = "followers" -> list_followers(u)
      [] list = "bookmarks" -> list_for_user(u)

(* The total of a list of bookmarks counts deleted threads, the list does  *)
(* not show them.                                                          *)
CountForUser(list, u) ==
    IF list = "bookmarks" THEN Len(Newest({m \in Bookmark : m[1] = u}))
    ELSE Len(Listed(list, u))

PageOf(s, page) ==
    SubSeq(s, (page - 1) * mark_world.per_page + 1,
           IF page * mark_world.per_page < Len(s) THEN page * mark_world.per_page ELSE Len(s))

BeginRead ==
    /\ reader = NoReader
    /\ \E list \in mark_world.lists, u \in Member :
          /\ Listed(list, u) # <<>>
          /\ reader' = [list |-> list, user |-> u, page |-> 1, left |-> Queries,
                        total |-> 0, seen |-> <<>>, late |-> 0,
                        there |-> ToSet(Listed(list, u)), done |-> FALSE]
    /\ UNCHANGED <<mark_world, marks, deleted, added, told, mark_pc, mark_req>>

(* A page is answered when both of its queries are; then the total tells   *)
(* whether there is a next page.                                           *)
Answered(r) ==
    IF r.left # {} THEN r
    ELSE [r EXCEPT !.page = @ + 1, !.left = Queries,
                   !.done = r.page * mark_world.per_page >= r.total]

(* The two queries run at the same time, in no transaction.                *)
Query(q) ==
    /\ reader # NoReader /\ ~reader.done
    /\ q \in reader.left
    /\ UNCHANGED <<mark_world, marks, deleted, added, told, mark_pc, mark_req>>

ReadTotal ==
    /\ Query("total")
    /\ reader' = Answered([reader EXCEPT !.left = @ \ {"total"},
                                         !.total = CountForUser(reader.list, reader.user)])

(* late: how many have joined since the total was counted.                 *)
ReadRows ==
    /\ Query("rows")
    /\ reader' = Answered([reader EXCEPT
                    !.left = @ \ {"rows"},
                    !.seen = @ \o PageOf(Listed(reader.list, reader.user), reader.page),
                    !.late = IF "total" \in reader.left THEN 0
                             ELSE CountForUser(reader.list, reader.user) - reader.total])

EndRead ==
    /\ reader # NoReader /\ reader.done
    /\ reader' = NoReader
    /\ UNCHANGED <<mark_world, marks, deleted, added, told, mark_pc, mark_req>>

Marking(w) ==
    BeginFollow(w) \/ BeginBookmark(w) \/ Find(w) \/ AddFollow(w) \/ AddBookmark(w) \/ Publish(w)
Reading == BeginRead \/ ReadTotal \/ ReadRows \/ EndRead

Next ==
    \/ \E w \in Worker : Marking(w)
    \/ Unfollow \/ RemoveBookmark \/ DeleteThread \/ Restart
    \/ Reading

Spec == Init /\ [][Next]_markVars

-----------------------------------------------------------------------------

Without(events) == mark_world.events \cap events = {}

(* However requests overlap, a member is told of a follow at most once for *)
(* each time it began, and exactly once unless a failure or a crash comes  *)
(* between the row and the notice: then the next request finds the row and *)
(* tells nobody.                                                           *)
ToldOnce ==
    \A m \in Follow :
        LET owed == Cardinality({w \in Worker : mark_pc[w] = "publish" /\ mark_req[w] = m})
        IN  /\ told[m] + owed <= added[m]
            /\ Without({"db_error", "restart"}) => told[m] + owed = added[m]

(* Whoever reads a list to its end, page by page, while others mark, has    *)
(* seen all that was on it when he began but for as many as joined between *)
(* the last total and the rows that went with it: these push others beyond *)
(* the last page.  When nobody joined he has seen the list as it is, each  *)
(* of it once.  That the total counts bookmarks of deleted threads hides   *)
(* nothing.                                                                *)
ReadsAll ==
    Without({"remove"}) /\ reader # NoReader /\ reader.done =>
        /\ Cardinality(reader.there \ ToSet(reader.seen)) <= reader.late
        /\ reader.there = ToSet(Listed(reader.list, reader.user)) =>
               reader.seen = Listed(reader.list, reader.user)

MarksHold == TypeOK /\ ToldOnce /\ ReadsAll

=============================================================================
