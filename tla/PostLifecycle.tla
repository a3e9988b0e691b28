----------------------------- MODULE PostLifecycle -----------------------------
(***************************************************************************)
(* Posts, threads and the two kinds of bookkeeping that follow them: the   *)
(* reference counts of the images a post embeds (stored_files.ref_count,   *)
(* which decides whether /files/:key serves an image to everybody) and the *)
(* reply counters of threads and authors.                                  *)
(*                                                                         *)
(* Sources: PostUseCase, the deletion and locking parts of ThreadUseCase,  *)
(* the create_thread handler, and the Postgres repositories they call.     *)
(*                                                                         *)
(* A request is served by a Worker.  Every await of the handlers that      *)
(* touches the database is a step of its own, and between two steps any    *)
(* other request may run: the code opens no transaction and takes no row   *)
(* lock.  The content of a post is abstracted to the set of attachment     *)
(* keys extract_attachment_keys finds in it.                               *)
(*                                                                         *)
(* A behaviour's disturbance names what the environment may do beyond      *)
(* well-separated requests.  The properties say which bookkeeping survives *)
(* which of them.                                                          *)
(***************************************************************************)
EXTENDS Integers, FiniteSets

CONSTANTS
    Post,         \* identifiers a post may get
    Thread,       \* identifiers a thread may get
    File,         \* attachment keys (content hashes)
    Worker,       \* requests in flight
    MaxRef,       \* bound: no edit starts while a count is above it
    Worlds,       \* the disturbances a behaviour may be under
    NoPost,
    NoThread

(***************************************************************************)
(*   overlap         two requests on one post, or on a thread and one of   *)
(*                   its posts, may be in flight together                  *)
(*   lost_increment  an increment_ref may fail: it is logged and skipped   *)
(*   lost_decrement  a decrement_ref may fail: it is logged and skipped    *)
(*   lost_stats      update_reply_stats or increment_post_count may fail   *)
(*   crash           the process may stop; requests in flight are lost     *)
(*   foreign_url     a post may embed a key nobody has uploaded yet        *)
(*   stale_queue     a moderator may act on a post already deleted         *)
(*   tombstone       requests may address posts of a deleted thread        *)
(***************************************************************************)
Disturbances ==
    {"overlap", "lost_increment", "lost_decrement", "lost_stats", "crash",
     "foreign_url", "stale_queue", "tombstone"}

ASSUME ConstantsAssumption ==
    /\ Worlds \subseteq SUBSET Disturbances
    /\ NoPost \notin Post
    /\ NoThread \notin Thread
    /\ MaxRef \in Nat

ASSUME PostIsFinite == IsFiniteSet(Post)

VARIABLES
    disturbance, \* what the environment may do, chosen once
    posts,       \* the posts table
    threads,     \* the threads table
    stored,      \* keys with a row in stored_files
    ref_count,   \* stored_files.ref_count (0 for a key without a row)
    post_count,  \* users.post_count of the author
    pc,          \* where each worker's handler is
    req          \* the local variables of each worker's handler

vars == <<posts, threads, stored, ref_count, post_count, pc, req>>

PostStatus == {"absent", "pending", "published"}
ThreadStatus == {"absent", "open", "locked", "deleted"}

PostRow == [status: PostStatus, thread: Thread \cup {NoThread},
            is_deleted: BOOLEAN, content: SUBSET File]
ThreadRow == [status: ThreadStatus, deleted_at: BOOLEAN, reply_count: Int]

(* Requests that act on a whole thread. *)
ThreadOp == {"create_thread", "delete_by_slug", "lock", "unlock"}
PostOp == {"create", "edit", "delete", "approve_post", "reject_post"}

Control == {"idle", "first_post", "create", "compensate", "edit", "delete",
            "reject", "approve", "thread_delete", "release", "lock",
            "sync", "reply_stats", "post_count"}

Request == [op: ThreadOp \cup PostOp \cup {"none"},
            thread: Thread \cup {NoThread},
            post: Post \cup {NoPost},
            old: SUBSET File,             \* content read before the write
            new: SUBSET File,             \* content to be written
            inc: SUBSET ((Post \cup {NoPost}) \X File), \* increments left
            dec: SUBSET ((Post \cup {NoPost}) \X File), \* decrements left
            delta: {-1, 0, 1}]            \* reply-counter change still to make

NoRequest == [op |-> "none", thread |-> NoThread, post |-> NoPost,
              old |-> {}, new |-> {}, inc |-> {}, dec |-> {}, delta |-> 0]

NoRow == [status |-> "absent", thread |-> NoThread,
          is_deleted |-> FALSE, content |-> {}]

TypeOK ==
    /\ disturbance \in Worlds
    /\ posts \in [Post -> PostRow]
    /\ threads \in [Thread -> ThreadRow]
    /\ stored \subseteq File
    /\ ref_count \in [File -> Nat]
    /\ post_count \in Nat
    /\ pc \in [Worker -> Control]
    /\ req \in [Worker -> Request]

Init ==
    /\ disturbance \in Worlds
    /\ posts = [p \in Post |-> NoRow]
    /\ threads = [t \in Thread |->
            [status |-> "absent", deleted_at |-> FALSE, reply_count |-> 0]]
    /\ stored = {}
    /\ ref_count = [k \in File |-> 0]
    /\ post_count = 0
    /\ pc = [w \in Worker |-> "idle"]
    /\ req = [w \in Worker |-> NoRequest]

-----------------------------------------------------------------------------
(***************************************************************************)
(* Starting, continuing and ending a request.                              *)
(***************************************************************************)

(* No other request in flight touches what this one is about to touch. *)
Isolated(w, op, t, p) ==
    \A v \in Worker \ {w} :
        \/ pc[v] = "idle"
        \/ req[v].thread # t
        \/ /\ {op, req[v].op} \cap ThreadOp = {}
           /\ p = NoPost \/ req[v].post # p

Begin(w, label, r) ==
    /\ pc[w] = "idle"
    /\ "overlap" \in disturbance \/ Isolated(w, r.op, r.thread, r.post)
    /\ pc' = [pc EXCEPT ![w] = label]
    /\ req' = [req EXCEPT ![w] = r]

Continue(w, label, r) ==
    /\ pc' = [pc EXCEPT ![w] = label]
    /\ req' = [req EXCEPT ![w] = r]

Finish(w) ==
    /\ pc' = [pc EXCEPT ![w] = "idle"]
    /\ req' = [req EXCEPT ![w] = NoRequest]

Table == <<posts, threads, stored, ref_count, post_count>>

(* Content a client may submit: URLs that upload_attachment returned. *)
Contents == SUBSET (IF "foreign_url" \in disturbance THEN File ELSE stored)

(* A post a client can still reach. *)
Reachable(p) ==
    /\ posts[p].status # "absent"
    /\ \/ "tombstone" \in disturbance
       \/ threads[posts[p].thread].status # "deleted"

OnPost(op, p) == [NoRequest EXCEPT !.op = op, !.post = p,
                                   !.thread = posts[p].thread]
OnThread(op, t) == [NoRequest EXCEPT !.op = op, !.thread = t]

-----------------------------------------------------------------------------
(***************************************************************************)
(* Attachments.                                                            *)
(***************************************************************************)

(* A new row is staged with ref_count 0, an existing row is left alone. *)
UpsertStaged(k) ==
    IF k \in stored THEN UNCHANGED <<stored, ref_count>>
    ELSE /\ stored' = stored \cup {k}
         /\ ref_count' = [ref_count EXCEPT ![k] = 0]

(* upload_attachment, for a request that passes the checks and the quota.  *)
(* It runs beside the workers: the upsert is its only write.               *)
Upload(k) ==
    /\ UpsertStaged(k)
    /\ UNCHANGED <<posts, threads, post_count, pc, req>>

(* increment_ref of a key without a row updates nothing. *)
IncrementRef(k) ==
    ref_count' = IF k \in stored THEN [ref_count EXCEPT ![k] = @ + 1]
                                 ELSE ref_count

(* decrement_ref stops at zero: GREATEST(ref_count - 1, 0). *)
DecrementRef(k) ==
    ref_count' = IF k \in stored /\ ref_count[k] > 0
                 THEN [ref_count EXCEPT ![k] = @ - 1]
                 ELSE ref_count

(* sync_attachment_refs takes the new keys first ...                       *)
SyncIncrement(w) ==
    /\ pc[w] = "sync"
    /\ \E pair \in req[w].inc :
        /\ \/ IncrementRef(pair[2])
           \/ "lost_increment" \in disturbance /\ UNCHANGED ref_count
        /\ Continue(w, "sync", [req[w] EXCEPT !.inc = @ \ {pair}])
    /\ UNCHANGED <<posts, threads, stored, post_count>>

(* A sync that takes a decrement which changed no count for a failure and  *)
(* tries it again.                                                         *)
SyncDecrementRetries(w) ==
    /\ pc[w] = "sync"
    /\ req[w].inc = {}
    /\ \E pair \in req[w].dec :
        /\ ref_count[pair[2]] > 0
        /\ DecrementRef(pair[2])
        /\ Continue(w, "sync", [req[w] EXCEPT !.dec = @ \ {pair}])
    /\ UNCHANGED <<posts, threads, stored, post_count>>

(* ... and then gives the old ones back; release_attachment_refs has only  *)
(* this half.                                                              *)
SyncDecrement(w) ==
    /\ pc[w] = "sync"
    /\ req[w].inc = {}
    /\ \E pair \in req[w].dec :
        /\ \/ DecrementRef(pair[2])
           \/ "lost_decrement" \in disturbance /\ UNCHANGED ref_count
        /\ Continue(w, "sync", [req[w] EXCEPT !.dec = @ \ {pair}])
    /\ UNCHANGED <<posts, threads, stored, post_count>>

FinishSync(w) ==
    /\ pc[w] = "sync"
    /\ req[w].inc = {} /\ req[w].dec = {}
    /\ IF req[w].delta = 0 THEN Finish(w)
                           ELSE Continue(w, "reply_stats", req[w])
    /\ UNCHANGED Table

UpdateReplyStats(w) ==
    /\ pc[w] = "reply_stats"
    /\ \/ threads' = [threads EXCEPT ![req[w].thread].reply_count =
                                        @ + req[w].delta]
       \/ "lost_stats" \in disturbance /\ UNCHANGED threads
    /\ Continue(w, "post_count", req[w])
    /\ UNCHANGED <<posts, stored, ref_count, post_count>>

IncrementPostCount(w) ==
    /\ pc[w] = "post_count"
    /\ \/ post_count' = IF post_count + req[w].delta > 0
                        THEN post_count + req[w].delta ELSE 0
       \/ "lost_stats" \in disturbance /\ UNCHANGED post_count
    /\ Finish(w)
    /\ UNCHANGED <<posts, threads, stored, ref_count>>

-----------------------------------------------------------------------------
(***************************************************************************)
(* PostUseCase: create, edit, delete, approve_post, reject_post.           *)
(***************************************************************************)

BeginCreate(w, t) ==
    /\ threads[t].status \notin {"absent", "locked"}
    /\ ~threads[t].deleted_at
    /\ Begin(w, "create", OnThread("create", t))
    /\ UNCHANGED Table

(* The row is inserted as resolve_post_status decided; a pending post      *)
(* takes its references too but is not counted yet.                        *)
InsertPost(w) ==
    /\ pc[w] = "create"
    /\ \E p \in Post, c \in Contents, s \in {"pending", "published"} :
        /\ posts[p].status = "absent"
        /\ posts' = [posts EXCEPT ![p] =
                [status |-> s, thread |-> req[w].thread,
                 is_deleted |-> FALSE, content |-> c]]
        /\ Continue(w, "sync",
                [req[w] EXCEPT !.post = p, !.new = c, !.inc = {p} \X c,
                               !.delta = IF s = "published" THEN 1 ELSE 0])
    /\ UNCHANGED <<threads, stored, ref_count, post_count>>

(* A plugin denies the post, its content is refused, or the insert fails. *)
RefusePost(w) ==
    /\ pc[w] = "create"
    /\ IF req[w].op = "create_thread" THEN Continue(w, "compensate", req[w])
                                      ELSE Finish(w)
    /\ UNCHANGED Table

BeginEdit(w, p, c) ==
    /\ Reachable(p) /\ ~posts[p].is_deleted
    /\ \A k \in File : ref_count[k] <= MaxRef
    /\ c \in Contents
    /\ Begin(w, "edit", [OnPost("edit", p) EXCEPT !.old = posts[p].content,
                                                  !.new = c])
    /\ UNCHANGED Table

(* An edit that takes a reference for every key of the new content. *)
UpdateContentTakesAll(w) ==
    /\ pc[w] = "edit"
    /\ LET r == req[w] IN
        /\ posts' = [posts EXCEPT ![r.post].content = r.new]
        /\ Continue(w, "sync", [r EXCEPT !.inc = {r.post} \X r.new,
                                         !.dec = {r.post} \X (r.old \ r.new)])
    /\ UNCHANGED <<threads, stored, ref_count, post_count>>

(* An edit that gives back a reference for every key of the old content. *)
UpdateContentGivesAll(w) ==
    /\ pc[w] = "edit"
    /\ LET r == req[w] IN
        /\ posts' = [posts EXCEPT ![r.post].content = r.new]
        /\ Continue(w, "sync", [r EXCEPT !.inc = {r.post} \X (r.new \ r.old),
                                         !.dec = {r.post} \X r.old])
    /\ UNCHANGED <<threads, stored, ref_count, post_count>>

(* update_content writes whatever the row has become; the references are   *)
(* then moved from the content read at the start to the new one.           *)
UpdateContent(w) ==
    /\ pc[w] = "edit"
    /\ LET r == req[w] IN
        /\ posts' = [posts EXCEPT ![r.post].content = r.new]
        /\ Continue(w, "sync", [r EXCEPT !.inc = {r.post} \X (r.new \ r.old),
                                         !.dec = {r.post} \X (r.old \ r.new)])
    /\ UNCHANGED <<threads, stored, ref_count, post_count>>

(* A delete that forgets that pending posts were never counted. *)
BeginDeleteUncounted(w, p) ==
    /\ Reachable(p) /\ ~posts[p].is_deleted
    /\ Begin(w, "delete", [OnPost("delete", p) EXCEPT !.old = posts[p].content,
                                                      !.delta = -1])
    /\ UNCHANGED Table

BeginDelete(w, p) ==
    /\ Reachable(p) /\ ~posts[p].is_deleted
    /\ Begin(w, "delete",
            [OnPost("delete", p) EXCEPT
                !.old = posts[p].content,
                !.delta = IF posts[p].status = "pending" THEN 0 ELSE -1])
    /\ UNCHANGED Table

(* reject_post is a soft delete that leaves the post pending, so it can be *)
(* entered again: then nothing is given back.                              *)
BeginReject(w, p) ==
    /\ Reachable(p) /\ posts[p].status = "pending"
    /\ "stale_queue" \in disturbance \/ ~posts[p].is_deleted
    /\ Begin(w, "reject",
            [OnPost("reject_post", p) EXCEPT
                !.old = IF posts[p].is_deleted THEN {} ELSE posts[p].content])
    /\ UNCHANGED Table

(* A delete whose soft_delete waits for bookkeeping that may fail. *)
SoftDeletePropagates(w) ==
    /\ pc[w] \in {"delete", "reject"}
    /\ LET r == req[w] IN
        \/ /\ posts' = [posts EXCEPT ![r.post].is_deleted = TRUE]
           /\ Continue(w, "sync", [r EXCEPT !.dec = {r.post} \X r.old])
        \/ "lost_decrement" \in disturbance /\ Finish(w) /\ UNCHANGED posts
    /\ UNCHANGED <<threads, stored, ref_count, post_count>>

SoftDelete(w) ==
    /\ pc[w] \in {"delete", "reject"}
    /\ LET r == req[w] IN
        /\ posts' = [posts EXCEPT ![r.post].is_deleted = TRUE]
        /\ Continue(w, "sync", [r EXCEPT !.dec = {r.post} \X r.old])
    /\ UNCHANGED <<threads, stored, ref_count, post_count>>

(* Only the status is checked: a deleted post is still pending. *)
BeginApprove(w, p) ==
    /\ Reachable(p) /\ posts[p].status = "pending"
    /\ "stale_queue" \in disturbance \/ ~posts[p].is_deleted
    /\ Begin(w, "approve", [OnPost("approve_post", p) EXCEPT !.delta = 1])
    /\ UNCHANGED Table

SetPublished(w) ==
    /\ pc[w] = "approve"
    /\ posts' = [posts EXCEPT ![req[w].post].status = "published"]
    /\ Continue(w, "reply_stats", req[w])
    /\ UNCHANGED <<threads, stored, ref_count, post_count>>

-----------------------------------------------------------------------------
(***************************************************************************)
(* Threads: the create_thread handler, delete_by_slug and lock.            *)
(***************************************************************************)

(* The handler inserts the thread row, then asks for the first post. *)
BeginCreateThread(w, t) ==
    /\ threads[t].status = "absent"
    /\ Begin(w, "first_post", OnThread("create_thread", t))
    /\ threads' = [threads EXCEPT ![t].status = "open"]
    /\ UNCHANGED <<posts, stored, ref_count, post_count>>

CheckFirstPost(w) ==
    /\ pc[w] = "first_post"
    /\ LET t == threads[req[w].thread] IN
       IF t.deleted_at \/ t.status = "locked"
       THEN Continue(w, "compensate", req[w])
       ELSE Continue(w, "create", req[w])
    /\ UNCHANGED Table

(* soft_delete by id: no references are released.  The call is best effort *)
(* (a plugin may deny it), its result is ignored.                          *)
Compensate(w) ==
    /\ pc[w] = "compensate"
    /\ \/ /\ ~threads[req[w].thread].deleted_at
          /\ threads' = [threads EXCEPT ![req[w].thread].status = "deleted",
                                        ![req[w].thread].deleted_at = TRUE]
       \/ UNCHANGED threads
    /\ Finish(w)
    /\ UNCHANGED <<posts, stored, ref_count, post_count>>

(* delete_by_slug looks at the status only (find_by_slug does not carry    *)
(* deleted_at).                                                            *)
BeginThreadDelete(w, t) ==
    /\ threads[t].status \in {"open", "locked"}
    /\ Begin(w, "thread_delete", OnThread("delete_by_slug", t))
    /\ UNCHANGED Table

(* A deletion that sets the status and forgets deleted_at. *)
MarkThreadStatusOnly(w) ==
    /\ pc[w] = "thread_delete"
    /\ threads' = [threads EXCEPT ![req[w].thread].status = "deleted"]
    /\ Continue(w, "release", req[w])
    /\ UNCHANGED <<posts, stored, ref_count, post_count>>

MarkThreadDeleted(w) ==
    /\ pc[w] = "thread_delete"
    /\ threads' = [threads EXCEPT ![req[w].thread].status = "deleted",
                                  ![req[w].thread].deleted_at = TRUE]
    /\ Continue(w, "release", req[w])
    /\ UNCHANGED <<posts, stored, ref_count, post_count>>

(* The posts of t that still count as embedding their images. *)
Undeleted(t) == {p \in Post : /\ posts[p].status # "absent"
                              /\ posts[p].thread = t
                              /\ ~posts[p].is_deleted}

(* A thread deletion that leaves its posts' references in place. *)
ReleaseNothing(w) ==
    /\ pc[w] = "release"
    /\ Finish(w)
    /\ UNCHANGED Table

ReleaseAttachmentRefs(w) ==
    /\ pc[w] = "release"
    /\ \/ Continue(w, "sync",
            [req[w] EXCEPT !.dec = {pair \in Post \X File :
                                      /\ pair[1] \in Undeleted(req[w].thread)
                                      /\ pair[2] \in posts[pair[1]].content}])
       \/ "lost_decrement" \in disturbance /\ Finish(w)
    /\ UNCHANGED Table

BeginLock(w, t, op) ==
    /\ threads[t].status # "absent" /\ ~threads[t].deleted_at
    /\ Begin(w, "lock", OnThread(op, t))
    /\ UNCHANGED Table

(* threads.update sets the status column and leaves deleted_at alone. *)
SetLocked(w) ==
    /\ pc[w] = "lock"
    /\ threads' = [threads EXCEPT ![req[w].thread].status =
                        IF req[w].op = "lock" THEN "locked" ELSE "open"]
    /\ Finish(w)
    /\ UNCHANGED <<posts, stored, ref_count, post_count>>

-----------------------------------------------------------------------------
(* The process stops: handlers in flight are lost, the tables are not. *)
Crash ==
    /\ "crash" \in disturbance
    /\ \E w \in Worker : pc[w] # "idle"
    /\ pc' = [w \in Worker |-> "idle"]
    /\ req' = [w \in Worker |-> NoRequest]
    /\ UNCHANGED Table

Arrive(w) ==
    \/ \E t \in Thread : \/ BeginCreate(w, t)
                         \/ BeginCreateThread(w, t)
                         \/ BeginThreadDelete(w, t)
                         \/ \E op \in {"lock", "unlock"} : BeginLock(w, t, op)
    \/ \E p \in Post : \/ BeginDelete(w, p)
                       \/ BeginApprove(w, p)
                       \/ BeginReject(w, p)
                       \/ \E c \in SUBSET File : BeginEdit(w, p, c)

Step(w) ==
    \/ InsertPost(w)
    \/ RefusePost(w)
    \/ UpdateContent(w)
    \/ SoftDelete(w)
    \/ SetPublished(w)
    \/ SyncIncrement(w)
    \/ SyncDecrement(w)
    \/ FinishSync(w)
    \/ UpdateReplyStats(w)
    \/ IncrementPostCount(w)
    \/ CheckFirstPost(w)
    \/ Compensate(w)
    \/ MarkThreadDeleted(w)
    \/ ReleaseAttachmentRefs(w)
    \/ SetLocked(w)

Work ==
    \/ \E k \in File : Upload(k)
    \/ \E w \in Worker : Arrive(w) \/ Step(w)

Next == (Work \/ Crash) /\ UNCHANGED disturbance

Spec == Init /\ [][Next]_<<disturbance, vars>>

(* A handler that has been started is polled until it returns: tokio runs  *)
(* every task that is ready.  Nothing obliges a client to send a request.  *)
FairSpec == Spec /\ \A w \in Worker : WF_vars(Step(w))

-----------------------------------------------------------------------------
(***************************************************************************)
(* Properties.                                                             *)
(***************************************************************************)

(* The thread's images are no longer meant to be served: it is deleted and *)
(* the read that starts their release has been made.                       *)
Released(t) ==
    /\ threads[t].status = "deleted"
    /\ ~ \E w \in Worker : pc[w] = "release" /\ req[w].thread = t

(* Post p embeds file k where readers can see it. *)
Embeds(p, k) ==
    /\ posts[p].status # "absent"
    /\ ~posts[p].is_deleted
    /\ k \in posts[p].content
    /\ ~Released(posts[p].thread)

(* Post p has a reference on k: it embeds it and the increment is done, or *)
(* the decrement that takes it back is still to come.                      *)
Holds(p, k) ==
    \/ \E w \in Worker : <<p, k>> \in req[w].dec
    \/ Embeds(p, k) /\ ~ \E w \in Worker : <<p, k>> \in req[w].inc

Holders(k) == {p \in Post : Holds(p, k)}

(* The /files/:key gate serves k to everybody, not only to its uploader. *)
Public(k) == k \in stored /\ ref_count[k] > 0

(* Every stored image carries exactly one reference per post that embeds   *)
(* it, whatever the interleaving of requests on different posts: the count *)
(* sync_attachment_refs and release_attachment_refs keep is exact.         *)
RefsExact == \A k \in stored : ref_count[k] = Cardinality(Holders(k))

NeverOverPublished ==
    \A k \in stored : ref_count[k] <= Cardinality(Holders(k))

NeverUnderPublished ==
    \A k \in stored : ref_count[k] >= Cardinality(Holders(k))

(* An image that a post embeds, and whose reference it has taken, is       *)
(* served to everybody: no other request may un-publish it (the comment of *)
(* delete: "un-publish an image another post still embeds").               *)
EmbeddedIsServed ==
    \A k \in stored :
        (\E p \in Post : /\ Embeds(p, k)
                         /\ \A w \in Worker : <<p, k>> \notin req[w].inc)
            => Public(k)

(* An image that no post embeds, with no decrement still under way, is     *)
(* served to nobody but its uploader.                                      *)
GoneIsNotServed ==
    \A k \in stored : Holders(k) = {} => ~Public(k)

(* While only increments are lost, an image is never served on behalf of   *)
(* more posts than embed it, and one that no post embeds is not served:    *)
(* the promise of sync_attachment_refs that a missed increment degrades to *)
(* "visible only to its uploader".                                         *)
LostIncrementsOnlyHide ==
    disturbance \cap {"overlap", "lost_decrement", "crash", "tombstone"} = {} =>
        NeverOverPublished /\ GoneIsNotServed

(* While only decrements are lost, no reference that a post holds is       *)
(* missing, and an image a post embeds is served to everybody: the other   *)
(* half of that promise, a missed decrement leaks.                         *)
LostDecrementsOnlyLeak ==
    disturbance \cap {"overlap", "lost_increment", "crash", "foreign_url", "tombstone"} = {} =>
        NeverUnderPublished /\ EmbeddedIsServed

(* Post p has been added to its thread's reply_count and not yet taken     *)
(* off again.                                                              *)
Owes(w, p) == /\ pc[w] \in {"sync", "reply_stats"}
              /\ req[w].post = p
              /\ req[w].delta # 0
Counted(p) ==
    IF \E w \in Worker : Owes(w, p)
    THEN \E w \in Worker : Owes(w, p) /\ req[w].delta = -1
    ELSE posts[p].status = "published" /\ ~posts[p].is_deleted

(* reply_count is the number of published posts of the thread that are not *)
(* deleted; pending posts enter it when they are approved and never before.*)
RepliesExact ==
    \A t \in Thread : threads[t].reply_count =
        Cardinality({p \in Post : posts[p].thread = t /\ Counted(p)})

(* The two columns that say a thread is deleted agree; delete_by_slug and  *)
(* get_by_slug read one of them, find_live_thread the other.               *)
DeletedFlagsAgree ==
    \A t \in Thread : threads[t].deleted_at <=> threads[t].status = "deleted"

(* delete and delete_by_slug say their decrements are guarded against a    *)
(* repeat: at no time do two requests give back the same reference.        *)
ReleasedOnce ==
    \A v, w \in Worker : v # w => req[v].dec \cap req[w].dec = {}

(* delete_by_slug says that it rejects a thread already deleted.  It looks *)
(* at the status, so the status of a thread deleted before must say so.    *)
DeletedIsRejected ==
    \A t \in Thread : threads[t].deleted_at => threads[t].status = "deleted"

(* reject_post says that a rejected post never becomes visible: no step    *)
(* publishes a post that was deleted while pending.                        *)
RejectedStaysPending ==
    [][\A p \in Post : posts[p].status = "pending" /\ posts[p].is_deleted
                          => posts'[p].status = "pending"]_vars

(* Every request comes to an end, whatever else happens. *)
RequestsFinish == \A w \in Worker : pc[w] # "idle" ~> pc[w] = "idle"

(* A delete that was admitted takes effect even when every bookkeeping     *)
(* call fails: failures are logged, never propagated.                      *)
DeleteTakesEffect ==
    \A w \in Worker, p \in Post :
        (pc[w] = "delete" /\ req[w].post = p) ~> posts[p].is_deleted

=============================================================================
