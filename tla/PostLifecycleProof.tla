--------------------------- MODULE PostLifecycleProof ---------------------------
(***************************************************************************)
(* Proofs about PostLifecycle, for every number of posts, threads, files   *)
(* and requests in flight.                                                 *)
(***************************************************************************)
EXTENDS PostLifecycle, FiniteSetTheorems, TLAPS

-----------------------------------------------------------------------------
(***************************************************************************)
(* Type correctness, under every disturbance.                              *)
(***************************************************************************)

(* A handler that goes on to a legal place with legal local variables      *)
(* leaves every handler well typed.                                        *)
LEMMA ContinueTyped ==
    ASSUME TypeOK, NEW w \in Worker, NEW label \in Control, NEW r \in Request,
           Continue(w, label, r)
    PROVE  pc' \in [Worker -> Control] /\ req' \in [Worker -> Request]
  BY DEF TypeOK, Continue

LEMMA BeginTyped ==
    ASSUME TypeOK, NEW w \in Worker, NEW label \in Control, NEW r \in Request,
           Begin(w, label, r)
    PROVE  pc' \in [Worker -> Control] /\ req' \in [Worker -> Request]
  BY DEF TypeOK, Begin

LEMMA NoRequestTyped == NoRequest \in Request
  BY DEF NoRequest, Request

LEMMA FinishTyped ==
    ASSUME TypeOK, NEW w \in Worker, Finish(w)
    PROVE  pc' \in [Worker -> Control] /\ req' \in [Worker -> Request]
  BY NoRequestTyped DEF TypeOK, Finish, Control

(* A reachable post has a row whose thread the type invariant knows. *)
LEMMA OnPostTyped ==
    ASSUME TypeOK, NEW p \in Post, NEW op \in PostOp
    PROVE  OnPost(op, p) \in Request
  BY DEF TypeOK, OnPost, NoRequest, Request, PostRow

LEMMA OnThreadTyped ==
    ASSUME NEW t \in Thread, NEW op \in ThreadOp \cup PostOp
    PROVE  OnThread(op, t) \in Request
  BY DEF OnThread, NoRequest, Request

LEMMA ContentsTyped == ASSUME TypeOK PROVE Contents \subseteq SUBSET File
  BY DEF TypeOK, Contents

(* Writing a legal row keeps the posts table well typed. *)
LEMMA WritePostTyped ==
    ASSUME NEW x, NEW row, x \in Post => row \in PostRow,
           TypeOK, posts' = [posts EXCEPT ![x] = row]
    PROVE  posts' \in [Post -> PostRow]
  BY DEF TypeOK

LEMMA InitTypeOK == Init => TypeOK
  BY NoRequestTyped
  DEF Init, TypeOK, PostRow, PostStatus, ThreadRow, ThreadStatus, NoRow, Control

LEMMA ArriveTypeOK ==
    ASSUME TypeOK, NEW w \in Worker, Arrive(w), UNCHANGED disturbance
    PROVE  TypeOK'
<1>1. CASE \E t \in Thread : BeginCreate(w, t)
  BY <1>1, OnThreadTyped, BeginTyped
  DEF BeginCreate, Table, TypeOK, Control, ThreadOp, PostOp
<1>2. CASE \E t \in Thread : BeginCreateThread(w, t)
  BY <1>2, OnThreadTyped, BeginTyped
  DEF BeginCreateThread, TypeOK, Control, ThreadOp, PostOp, ThreadRow, ThreadStatus
<1>3. CASE \E t \in Thread : BeginThreadDelete(w, t)
  BY <1>3, OnThreadTyped, BeginTyped
  DEF BeginThreadDelete, Table, TypeOK, Control, ThreadOp
<1>4. CASE \E t \in Thread : \E op \in {"lock", "unlock"} : BeginLock(w, t, op)
  BY <1>4, OnThreadTyped, BeginTyped
  DEF BeginLock, Table, TypeOK, Control, ThreadOp
<1>5. CASE \E p \in Post : BeginDelete(w, p)
  <2>1. PICK p \in Post : BeginDelete(w, p)
    BY <1>5
  <2> DEFINE r == [OnPost("delete", p) EXCEPT
                      !.old = posts[p].content,
                      !.delta = IF posts[p].status = "pending" THEN 0 ELSE -1]
  <2>2. posts[p].content \in SUBSET File
    BY DEF TypeOK, PostRow
  <2>3. OnPost("delete", p) \in Request
    BY OnPostTyped DEF PostOp
  <2>4. r \in Request
    BY <2>2, <2>3 DEF Request
  <2>5. Begin(w, "delete", r)
    BY <2>1 DEF BeginDelete
  <2> QED
    BY <2>1, <2>4, <2>5, BeginTyped DEF BeginDelete, Table, TypeOK, Control
<1>6. CASE \E p \in Post : BeginApprove(w, p)
  <2>1. PICK p \in Post : BeginApprove(w, p)
    BY <1>6
  <2> DEFINE r == [OnPost("approve_post", p) EXCEPT !.delta = 1]
  <2>2. OnPost("approve_post", p) \in Request
    BY OnPostTyped DEF PostOp
  <2>3. r \in Request
    BY <2>2 DEF Request
  <2>4. Begin(w, "approve", r)
    BY <2>1 DEF BeginApprove
  <2> QED
    BY <2>1, <2>3, <2>4, BeginTyped DEF BeginApprove, Table, TypeOK, Control
<1>7. CASE \E p \in Post : BeginReject(w, p)
  <2>1. PICK p \in Post : BeginReject(w, p)
    BY <1>7
  <2> DEFINE r == [OnPost("reject_post", p) EXCEPT
                      !.old = IF posts[p].is_deleted THEN {}
                              ELSE posts[p].content]
  <2>2. posts[p].content \in SUBSET File
    BY DEF TypeOK, PostRow
  <2>3. OnPost("reject_post", p) \in Request
    BY OnPostTyped DEF PostOp
  <2>4. r \in Request
    BY <2>2, <2>3 DEF Request
  <2>5. Begin(w, "reject", r)
    BY <2>1 DEF BeginReject
  <2> QED
    BY <2>1, <2>4, <2>5, BeginTyped DEF BeginReject, Table, TypeOK, Control
<1>8. CASE \E p \in Post : \E c \in SUBSET File : BeginEdit(w, p, c)
  <2>1. PICK p \in Post, c \in SUBSET File : BeginEdit(w, p, c)
    BY <1>8
  <2> DEFINE r == [OnPost("edit", p) EXCEPT !.old = posts[p].content, !.new = c]
  <2>2. posts[p].content \in SUBSET File
    BY DEF TypeOK, PostRow
  <2>3. OnPost("edit", p) \in Request
    BY OnPostTyped DEF PostOp
  <2>4. r \in Request
    BY <2>2, <2>3 DEF Request
  <2>5. Begin(w, "edit", r)
    BY <2>1 DEF BeginEdit
  <2> QED
    BY <2>1, <2>4, <2>5, BeginTyped DEF BeginEdit, Table, TypeOK, Control
<1> QED
  BY <1>1, <1>2, <1>3, <1>4, <1>5, <1>6, <1>7, <1>8 DEF Arrive

LEMMA StepTypeOK ==
    ASSUME TypeOK, NEW w \in Worker, Step(w), UNCHANGED disturbance
    PROVE  TypeOK'
<1> DEFINE r == req[w]
<1>r. r \in Request
  BY DEF TypeOK
<1>1. CASE InsertPost(w)
  <2>1. PICK p \in Post, c \in Contents, s \in {"pending", "published"} :
            /\ posts' = [posts EXCEPT ![p] =
                    [status |-> s, thread |-> r.thread,
                     is_deleted |-> FALSE, content |-> c]]
            /\ Continue(w, "sync",
                    [r EXCEPT !.post = p, !.new = c, !.inc = {p} \X c,
                              !.delta = IF s = "published" THEN 1 ELSE 0])
    BY <1>1 DEF InsertPost
  <2>2. c \in SUBSET File
    BY ContentsTyped
  <2>3. {p} \X c \in SUBSET ((Post \cup {NoPost}) \X File)
    BY <2>2
  <2>4. [r EXCEPT !.post = p, !.new = c, !.inc = {p} \X c,
                  !.delta = IF s = "published" THEN 1 ELSE 0] \in Request
    BY <1>r, <2>2, <2>3 DEF Request
  <2>5. posts' \in [Post -> PostRow]
    BY <1>r, <2>1, <2>2 DEF TypeOK, PostRow, PostStatus, Request
  <2> QED
    BY <1>1, <2>1, <2>4, <2>5, ContinueTyped DEF InsertPost, TypeOK, Control
<1>2. CASE RefusePost(w)
  BY <1>2, <1>r, ContinueTyped, FinishTyped DEF RefusePost, Table, TypeOK, Control
<1>3. CASE UpdateContent(w)
  <2> DEFINE s == [r EXCEPT !.inc = {r.post} \X (r.new \ r.old),
                            !.dec = {r.post} \X (r.old \ r.new)]
  <2>1. s \in Request
    BY <1>r DEF Request
  <2>2. Continue(w, "sync", s)
    BY <1>3 DEF UpdateContent
  <2>3. posts' \in [Post -> PostRow]
    <3> DEFINE row == [posts[r.post] EXCEPT !.content = r.new]
    <3>1. r.post \in Post => row \in PostRow
      BY <1>r DEF TypeOK, PostRow, PostStatus, Request
    <3>2. posts' = [posts EXCEPT ![r.post] = row]
      BY <1>3 DEF UpdateContent
    <3> QED
      BY <3>1, <3>2, WritePostTyped
  <2> QED
    BY <1>3, <2>1, <2>2, <2>3, ContinueTyped DEF UpdateContent, TypeOK, Control
<1>4. CASE SoftDelete(w)
  <2> DEFINE s == [r EXCEPT !.dec = {r.post} \X r.old]
  <2>1. s \in Request
    BY <1>r DEF Request
  <2>2. Continue(w, "sync", s)
    BY <1>4 DEF SoftDelete
  <2>3. posts' \in [Post -> PostRow]
    <3> DEFINE row == [posts[r.post] EXCEPT !.is_deleted = TRUE]
    <3>1. r.post \in Post => row \in PostRow
      BY DEF TypeOK, PostRow
    <3>2. posts' = [posts EXCEPT ![r.post] = row]
      BY <1>4 DEF SoftDelete
    <3> QED
      BY <3>1, <3>2, WritePostTyped
  <2> QED
    BY <1>4, <2>1, <2>2, <2>3, ContinueTyped DEF SoftDelete, TypeOK, Control
<1>5. CASE SetPublished(w)
  <2>1. posts' \in [Post -> PostRow]
    <3> DEFINE row == [posts[r.post] EXCEPT !.status = "published"]
    <3>1. r.post \in Post => row \in PostRow
      BY DEF TypeOK, PostRow, PostStatus
    <3>2. posts' = [posts EXCEPT ![r.post] = row]
      BY <1>5 DEF SetPublished
    <3> QED
      BY <3>1, <3>2, WritePostTyped
  <2> QED
    BY <1>5, <1>r, <2>1, ContinueTyped DEF SetPublished, TypeOK, Control
<1>6. CASE SyncIncrement(w)
  <2>1. PICK pair \in r.inc : /\ IncrementRef(pair[2]) \/ UNCHANGED ref_count
                              /\ Continue(w, "sync", [r EXCEPT !.inc = @ \ {pair}])
    BY <1>6 DEF SyncIncrement
  <2>2. [r EXCEPT !.inc = @ \ {pair}] \in Request
    BY <1>r DEF Request
  <2>3. ref_count' \in [File -> Nat]
    BY <2>1 DEF TypeOK, IncrementRef
  <2> QED
    BY <1>6, <2>1, <2>2, <2>3, ContinueTyped DEF SyncIncrement, TypeOK, Control
<1>7. CASE SyncDecrement(w)
  <2>1. PICK pair \in r.dec : /\ DecrementRef(pair[2]) \/ UNCHANGED ref_count
                              /\ Continue(w, "sync", [r EXCEPT !.dec = @ \ {pair}])
    BY <1>7 DEF SyncDecrement
  <2>2. [r EXCEPT !.dec = @ \ {pair}] \in Request
    BY <1>r DEF Request
  <2>3. ref_count' \in [File -> Nat]
    BY <2>1 DEF TypeOK, DecrementRef
  <2> QED
    BY <1>7, <2>1, <2>2, <2>3, ContinueTyped DEF SyncDecrement, TypeOK, Control
<1>8. CASE FinishSync(w)
  BY <1>8, <1>r, ContinueTyped, FinishTyped DEF FinishSync, Table, TypeOK, Control
<1>9. CASE UpdateReplyStats(w)
  <2>1. threads' \in [Thread -> ThreadRow]
    BY <1>9, <1>r DEF UpdateReplyStats, TypeOK, ThreadRow, Request
  <2> QED
    BY <1>9, <1>r, <2>1, ContinueTyped DEF UpdateReplyStats, TypeOK, Control
<1>10. CASE IncrementPostCount(w)
  <2>1. r.delta \in Int
    BY <1>r DEF Request
  <2>2. post_count' \in Nat
    BY <1>10, <2>1 DEF IncrementPostCount, TypeOK
  <2> QED
    BY <1>10, <2>2, FinishTyped DEF IncrementPostCount, TypeOK
<1>11. CASE CheckFirstPost(w)
  BY <1>11, <1>r, ContinueTyped DEF CheckFirstPost, Table, TypeOK, Control
<1>12. CASE Compensate(w)
  <2>1. threads' \in [Thread -> ThreadRow]
    BY <1>12 DEF Compensate, TypeOK, ThreadRow, ThreadStatus
  <2> QED
    BY <1>12, <2>1, FinishTyped DEF Compensate, TypeOK
<1>13. CASE MarkThreadDeleted(w)
  <2>1. threads' \in [Thread -> ThreadRow]
    BY <1>13 DEF MarkThreadDeleted, TypeOK, ThreadRow, ThreadStatus
  <2> QED
    BY <1>13, <1>r, <2>1, ContinueTyped DEF MarkThreadDeleted, TypeOK, Control
<1>14. CASE ReleaseAttachmentRefs(w)
  <2> DEFINE d == {pair \in Post \X File :
                      /\ pair[1] \in Undeleted(r.thread)
                      /\ pair[2] \in posts[pair[1]].content}
  <2>1. d \in SUBSET ((Post \cup {NoPost}) \X File)
    OBVIOUS
  <2>2. [r EXCEPT !.dec = d] \in Request
    BY <1>r, <2>1 DEF Request
  <2>3. Continue(w, "sync", [r EXCEPT !.dec = d]) \/ Finish(w)
    BY <1>14 DEF ReleaseAttachmentRefs
  <2> QED
    BY <1>14, <2>2, <2>3, ContinueTyped, FinishTyped
    DEF ReleaseAttachmentRefs, Table, TypeOK, Control
<1>15. CASE SetLocked(w)
  <2>1. threads' \in [Thread -> ThreadRow]
    BY <1>15 DEF SetLocked, TypeOK, ThreadRow, ThreadStatus
  <2> QED
    BY <1>15, <2>1, FinishTyped DEF SetLocked, TypeOK
<1> QED
  BY <1>1, <1>2, <1>3, <1>4, <1>5, <1>6, <1>7, <1>8, <1>9, <1>10, <1>11, <1>12,
     <1>13, <1>14, <1>15 DEF Step

LEMMA NextTypeOK == TypeOK /\ [Next]_<<disturbance, vars>> => TypeOK'
<1> SUFFICES ASSUME TypeOK, [Next]_<<disturbance, vars>> PROVE TypeOK'
  OBVIOUS
<1>u. UNCHANGED disturbance
  BY DEF Next
<1>1. ASSUME NEW k \in File, Upload(k) PROVE TypeOK'
  BY <1>u, <1>1 DEF Upload, UpsertStaged, TypeOK
<1>2. ASSUME NEW w \in Worker, Arrive(w) \/ Step(w) PROVE TypeOK'
  BY <1>u, <1>2, ArriveTypeOK, StepTypeOK
<1>3. CASE Crash
  BY <1>u, <1>3, NoRequestTyped DEF Crash, Table, TypeOK, Control
<1>4. CASE UNCHANGED vars
  BY <1>u, <1>4 DEF vars, TypeOK
<1> QED
  BY <1>1, <1>2, <1>3, <1>4 DEF Next, Work

(* Whatever requests do, and whatever fails, the tables stay well formed:  *)
(* in particular no reference count and no post count becomes negative.    *)
THEOREM TypeCorrect == Spec => []TypeOK
<1> QED
  BY InitTypeOK, NextTypeOK, PTL DEF Spec

-----------------------------------------------------------------------------
(***************************************************************************)
(* Reference counts when requests on one post, and requests on a thread    *)
(* and its posts, do not overlap.  RefsExact is not inductive: it says     *)
(* nothing of what the requests in flight are about to do.  RefsInv says   *)
(* what each of them knows of the tables between two of its steps, and     *)
(* that no two of them know the same thing; it survives lost calls and     *)
(* crashes.  What a step does to the holders of an image and what it does  *)
(* to the count then differ only by the call that is lost: by an increment *)
(* the count stays below, by a decrement above.                            *)
(***************************************************************************)

(* Requests are well separated: none shares a row with another, and none   *)
(* is about a thread that is gone.                                         *)
Separate == disturbance \cap {"overlap", "tombstone"} = {}

Undisturbed ==
    disturbance \cap {"overlap", "lost_increment", "lost_decrement", "crash",
                      "foreign_url", "tombstone"} = {}

Active(w) == pc[w] # "idle"

Alive(t) == threads[t].status \in {"open", "locked"}

(* References are owed only inside sync_attachment_refs. *)
OnlySyncOwes ==
    \A w \in Worker : pc[w] # "sync" => req[w].inc = {} /\ req[w].dec = {}

(* A request in flight is about an existing thread, and about a post of it *)
(* if it is about a post.                                                  *)
Placed ==
    \A w \in Worker : Active(w) =>
        /\ req[w].op \in ThreadOp \cup PostOp
        /\ req[w].thread \in Thread
        /\ threads[req[w].thread].status # "absent"
        /\ req[w].post \in Post =>
            /\ posts[req[w].post].status # "absent"
            /\ posts[req[w].post].thread = req[w].thread

(* No two requests are about the same thing. *)
Apart ==
    \A v, w \in Worker :
        v # w /\ Active(v) /\ Active(w) /\ req[v].thread = req[w].thread =>
            /\ req[v].op \notin ThreadOp
            /\ req[v].post = NoPost \/ req[v].post # req[w].post

(* A post lies in an existing thread. *)
Housed ==
    \A p \in Post : posts[p].status # "absent" =>
        /\ posts[p].thread \in Thread
        /\ threads[posts[p].thread].status # "absent"

(* What a handler has read is still so when it acts on it. *)
FreshReads ==
    \A w \in Worker :
        /\ pc[w] \in {"first_post", "compensate"} => req[w].op = "create_thread"
        /\ pc[w] \in {"first_post", "create", "compensate"} => req[w].post = NoPost
        /\ pc[w] \in {"thread_delete", "release", "lock"} => req[w].op \in ThreadOp
        /\ pc[w] \in {"first_post", "create", "compensate", "thread_delete",
                      "lock", "edit", "delete", "reject"} => Alive(req[w].thread)
        /\ pc[w] = "release" => threads[req[w].thread].status = "deleted"
        /\ pc[w] \in {"first_post", "create", "compensate"}
              /\ req[w].op = "create_thread" =>
            \A p \in Post : posts[p].status = "absent" \/ posts[p].thread # req[w].thread
        /\ pc[w] \in {"edit", "delete", "reject", "approve"} => req[w].post \in Post
        /\ pc[w] = "edit" => /\ ~posts[req[w].post].is_deleted
                             /\ req[w].old = posts[req[w].post].content
        /\ pc[w] \in {"delete", "reject"} =>
                req[w].old = IF posts[req[w].post].is_deleted THEN {}
                             ELSE posts[req[w].post].content

(* A reference still to be taken is one the post embeds, a reference still *)
(* to be given back is one it no longer embeds.                            *)
OwedIsDue ==
    \A w \in Worker :
        /\ req[w].inc \subseteq Post \X File
        /\ req[w].dec \subseteq Post \X File
        /\ \A p \in Post, k \in File :
            /\ <<p, k>> \in req[w].inc => p = req[w].post /\ Embeds(p, k)
            /\ <<p, k>> \in req[w].dec => /\ ~Embeds(p, k)
                                          /\ posts[p].status # "absent"
                                          /\ posts[p].thread = req[w].thread
                                          /\ req[w].op \in PostOp => p = req[w].post

ControlInv == OnlySyncOwes /\ Placed /\ Apart /\ Housed /\ DeletedFlagsAgree /\ FreshReads

RefsInv == TypeOK /\ ControlInv /\ OwedIsDue

-----------------------------------------------------------------------------
(***************************************************************************)
(* ControlInv: what requests know of the tables between two of their steps.*)
(***************************************************************************)

(* A step that starts nothing and turns no request to another subject. *)
LEMMA ApartKept ==
    ASSUME Apart,
           \A v \in Worker : Active(v)' => /\ Active(v)
                                           /\ req'[v].op = req[v].op
                                           /\ req'[v].thread = req[v].thread
                                           /\ req'[v].post = req[v].post
    PROVE  Apart'
  BY DEF Apart

(* A request that begins is admitted only if it is isolated. *)
LEMMA ApartBegun ==
    ASSUME TypeOK, Apart, Separate, NEW w \in Worker, NEW label, NEW r,
           Begin(w, label, r), r.op \in ThreadOp => r.post = NoPost
    PROVE  Apart'
<1>1. Isolated(w, r.op, r.thread, r.post)
  BY DEF Begin, Separate
<1>2. /\ pc[w] = "idle" /\ pc' = [pc EXCEPT ![w] = label]
      /\ req' = [req EXCEPT ![w] = r]
  BY DEF Begin
<1>3. SUFFICES ASSUME NEW u \in Worker, NEW v \in Worker, u # v,
                      Active(u)', Active(v)', req'[u].thread = req'[v].thread
               PROVE  /\ req'[u].op \notin ThreadOp
                      /\ req'[u].post = NoPost \/ req'[u].post # req'[v].post
  BY DEF Apart
<1>4. CASE u # w /\ v # w
  BY <1>2, <1>3, <1>4 DEF Apart, Active, TypeOK
<1>5. CASE u = w
  BY <1>1, <1>2, <1>3, <1>5 DEF Isolated, Active, TypeOK
<1>6. CASE v = w
  BY <1>1, <1>2, <1>3, <1>6 DEF Isolated, Active, TypeOK
<1> QED
  BY <1>4, <1>5, <1>6

LEMMA InsertPostControl ==
    ASSUME TypeOK, TypeOK', ControlInv, Separate, NEW w \in Worker, InsertPost(w)
    PROVE  ControlInv'
<1>1. OnlySyncOwes'
  BY DEF InsertPost, ControlInv, OnlySyncOwes, Continue, TypeOK, Contents,
     Separate
<1>2. Placed'
  BY ConstantsAssumption DEF InsertPost, ControlInv, Placed, Active,
     Continue, TypeOK, PostRow, ThreadRow, Request, ThreadOp, PostOp,
     Contents, Separate
<1>3. Apart'
  BY ConstantsAssumption DEF InsertPost, ControlInv, Apart, Placed, Active,
     Continue, TypeOK, Request, Contents, Separate
<1>4. Housed'
  BY DEF InsertPost, ControlInv, Housed, FreshReads, Placed, Active,
     Continue, TypeOK, PostRow, ThreadRow, Request, Contents, Separate
<1>5. DeletedFlagsAgree'
  BY DEF InsertPost, ControlInv, DeletedFlagsAgree, TypeOK, ThreadRow,
     Contents, Separate
<1>6. FreshReads'
  BY ConstantsAssumption DEF InsertPost, ControlInv, FreshReads, Placed,
     Apart, Housed, DeletedFlagsAgree, Active, Alive, Continue, TypeOK,
     PostRow, ThreadRow, ThreadStatus, Request, ThreadOp, PostOp, Contents,
     Separate
<1> QED
  BY <1>1, <1>2, <1>3, <1>4, <1>5, <1>6 DEF ControlInv

LEMMA RefusePostControl ==
    ASSUME TypeOK, TypeOK', ControlInv, Separate, NEW w \in Worker, RefusePost(w)
    PROVE  ControlInv'
<1>1. OnlySyncOwes'
  BY DEF RefusePost, ControlInv, OnlySyncOwes, Continue, Finish, NoRequest,
     TypeOK, Table
<1>2. Placed'
  BY ConstantsAssumption DEF RefusePost, ControlInv, Placed, Active,
     Continue, Finish, NoRequest, TypeOK, PostRow, ThreadRow, Request,
     ThreadOp, PostOp, Table
<1>3. Apart'
  <2>1. \A v \in Worker : Active(v)' => /\ Active(v)
                                         /\ req'[v].op = req[v].op
                                         /\ req'[v].thread = req[v].thread
                                         /\ req'[v].post = req[v].post
    BY DEF RefusePost, Active, Continue, Finish, NoRequest, TypeOK, Request,
       Table
  <2> QED
    BY <2>1, ApartKept DEF ControlInv
<1>4. Housed'
  BY DEF RefusePost, ControlInv, Housed, TypeOK, PostRow, ThreadRow, Request,
     Table
<1>5. DeletedFlagsAgree'
  BY DEF RefusePost, ControlInv, DeletedFlagsAgree, TypeOK, ThreadRow, Table
<1>6. FreshReads'
  BY ConstantsAssumption DEF RefusePost, ControlInv, FreshReads, Placed,
     Apart, Housed, DeletedFlagsAgree, Active, Alive, Continue, Finish,
     NoRequest, TypeOK, PostRow, ThreadRow, ThreadStatus, Request, ThreadOp,
     PostOp, Table
<1> QED
  BY <1>1, <1>2, <1>3, <1>4, <1>5, <1>6 DEF ControlInv

LEMMA UpdateContentControl ==
    ASSUME TypeOK, TypeOK', ControlInv, Separate, NEW w \in Worker, UpdateContent(w)
    PROVE  ControlInv'
<1>1. OnlySyncOwes'
  BY DEF UpdateContent, ControlInv, OnlySyncOwes, Continue, TypeOK
<1>2. Placed'
  BY ConstantsAssumption DEF UpdateContent, ControlInv, Placed, Active,
     Continue, TypeOK, PostRow, ThreadRow, Request, ThreadOp, PostOp
<1>3. Apart'
  <2>1. \A v \in Worker : Active(v)' => /\ Active(v)
                                         /\ req'[v].op = req[v].op
                                         /\ req'[v].thread = req[v].thread
                                         /\ req'[v].post = req[v].post
    BY DEF UpdateContent, Active, Continue, TypeOK, Request
  <2> QED
    BY <2>1, ApartKept DEF ControlInv
<1>4. Housed'
  <2>1. req[w].post \in Post
    BY DEF UpdateContent, ControlInv, FreshReads
  <2> QED
    BY <2>1 DEF UpdateContent, ControlInv, Housed, TypeOK, PostRow
<1>5. DeletedFlagsAgree'
  BY DEF UpdateContent, ControlInv, DeletedFlagsAgree, TypeOK, ThreadRow
<1>6. FreshReads'
  <2>1. /\ pc'[w] = "sync"
        /\ \A v \in Worker : v # w => req'[v] = req[v] /\ pc'[v] = pc[v]
    BY DEF UpdateContent, Continue, TypeOK
  <2>2. \A v \in Worker : v # w /\ pc[v] \in {"edit", "delete", "reject"}
            => req[v].post # req[w].post
    BY ConstantsAssumption
    DEF UpdateContent, ControlInv, Apart, Placed, FreshReads, Active
  <2>3. \A y \in Post : /\ posts'[y].status = posts[y].status
                        /\ posts'[y].thread = posts[y].thread
                        /\ y # req[w].post => posts'[y] = posts[y]
    BY DEF UpdateContent, TypeOK, PostRow
  <2>4. threads' = threads /\ stored' = stored
    BY DEF UpdateContent
  <2> QED
    BY <2>1, <2>2, <2>3, <2>4 DEF ControlInv, FreshReads, Alive
<1> QED
  BY <1>1, <1>2, <1>3, <1>4, <1>5, <1>6 DEF ControlInv

LEMMA SoftDeleteControl ==
    ASSUME TypeOK, TypeOK', ControlInv, Separate, NEW w \in Worker, SoftDelete(w)
    PROVE  ControlInv'
<1>1. OnlySyncOwes'
  BY DEF SoftDelete, ControlInv, OnlySyncOwes, Continue, TypeOK
<1>2. Placed'
  BY ConstantsAssumption DEF SoftDelete, ControlInv, Placed, Active,
     Continue, TypeOK, PostRow, ThreadRow, Request, ThreadOp, PostOp
<1>3. Apart'
  <2>1. \A v \in Worker : Active(v)' => /\ Active(v)
                                         /\ req'[v].op = req[v].op
                                         /\ req'[v].thread = req[v].thread
                                         /\ req'[v].post = req[v].post
    BY DEF SoftDelete, Active, Continue, TypeOK, Request
  <2> QED
    BY <2>1, ApartKept DEF ControlInv
<1>4. Housed'
  BY DEF SoftDelete, ControlInv, Housed, TypeOK, PostRow, ThreadRow, Request
<1>5. DeletedFlagsAgree'
  BY DEF SoftDelete, ControlInv, DeletedFlagsAgree, TypeOK, ThreadRow
<1>6. FreshReads'
  BY ConstantsAssumption DEF SoftDelete, ControlInv, FreshReads, Placed,
     Apart, Housed, DeletedFlagsAgree, Active, Alive, Continue, TypeOK,
     PostRow, ThreadRow, ThreadStatus, Request, ThreadOp, PostOp
<1> QED
  BY <1>1, <1>2, <1>3, <1>4, <1>5, <1>6 DEF ControlInv

LEMMA SetPublishedControl ==
    ASSUME TypeOK, TypeOK', ControlInv, Separate, NEW w \in Worker, SetPublished(w)
    PROVE  ControlInv'
<1>1. OnlySyncOwes'
  BY DEF SetPublished, ControlInv, OnlySyncOwes, Continue, TypeOK
<1>2. Placed'
  BY ConstantsAssumption DEF SetPublished, ControlInv, Placed, Active,
     Continue, TypeOK, PostRow, ThreadRow, Request, ThreadOp, PostOp
<1>3. Apart'
  <2>1. \A v \in Worker : Active(v)' => /\ Active(v)
                                         /\ req'[v].op = req[v].op
                                         /\ req'[v].thread = req[v].thread
                                         /\ req'[v].post = req[v].post
    BY DEF SetPublished, Active, Continue, TypeOK, Request
  <2> QED
    BY <2>1, ApartKept DEF ControlInv
<1>4. Housed'
  BY DEF SetPublished, ControlInv, Housed, FreshReads, Placed, Active,
     TypeOK, PostRow, ThreadRow,
     Request
<1>5. DeletedFlagsAgree'
  BY DEF SetPublished, ControlInv, DeletedFlagsAgree, TypeOK, ThreadRow
<1>6. FreshReads'
  BY ConstantsAssumption DEF SetPublished, ControlInv, FreshReads, Placed,
     Apart, Housed, DeletedFlagsAgree, Active, Alive, Continue, TypeOK,
     PostRow, ThreadRow, ThreadStatus, Request, ThreadOp, PostOp
<1> QED
  BY <1>1, <1>2, <1>3, <1>4, <1>5, <1>6 DEF ControlInv

LEMMA SyncIncrementControl ==
    ASSUME TypeOK, TypeOK', ControlInv, Separate, NEW w \in Worker, SyncIncrement(w)
    PROVE  ControlInv'
<1>1. OnlySyncOwes'
  BY DEF SyncIncrement, ControlInv, OnlySyncOwes, Continue, TypeOK
<1>2. Placed'
  BY ConstantsAssumption DEF SyncIncrement, ControlInv, Placed, Active,
     Continue, TypeOK, PostRow, ThreadRow, Request, ThreadOp, PostOp
<1>3. Apart'
  <2>1. \A v \in Worker : Active(v)' => /\ Active(v)
                                         /\ req'[v].op = req[v].op
                                         /\ req'[v].thread = req[v].thread
                                         /\ req'[v].post = req[v].post
    BY DEF SyncIncrement, Active, Continue, TypeOK, Request
  <2> QED
    BY <2>1, ApartKept DEF ControlInv
<1>4. Housed'
  BY DEF SyncIncrement, ControlInv, Housed, TypeOK, PostRow, ThreadRow,
     Request
<1>5. DeletedFlagsAgree'
  BY DEF SyncIncrement, ControlInv, DeletedFlagsAgree, TypeOK, ThreadRow
<1>6. FreshReads'
  BY ConstantsAssumption DEF SyncIncrement, ControlInv, FreshReads, Placed,
     Apart, Housed, DeletedFlagsAgree, Active, Alive, Continue, TypeOK,
     PostRow, ThreadRow, ThreadStatus, Request, ThreadOp, PostOp
<1> QED
  BY <1>1, <1>2, <1>3, <1>4, <1>5, <1>6 DEF ControlInv

LEMMA SyncDecrementControl ==
    ASSUME TypeOK, TypeOK', ControlInv, Separate, NEW w \in Worker, SyncDecrement(w)
    PROVE  ControlInv'
<1>1. OnlySyncOwes'
  BY DEF SyncDecrement, ControlInv, OnlySyncOwes, Continue, TypeOK
<1>2. Placed'
  BY ConstantsAssumption DEF SyncDecrement, ControlInv, Placed, Active,
     Continue, TypeOK, PostRow, ThreadRow, Request, ThreadOp, PostOp
<1>3. Apart'
  <2>1. \A v \in Worker : Active(v)' => /\ Active(v)
                                         /\ req'[v].op = req[v].op
                                         /\ req'[v].thread = req[v].thread
                                         /\ req'[v].post = req[v].post
    BY DEF SyncDecrement, Active, Continue, TypeOK, Request
  <2> QED
    BY <2>1, ApartKept DEF ControlInv
<1>4. Housed'
  BY DEF SyncDecrement, ControlInv, Housed, TypeOK, PostRow, ThreadRow,
     Request
<1>5. DeletedFlagsAgree'
  BY DEF SyncDecrement, ControlInv, DeletedFlagsAgree, TypeOK, ThreadRow
<1>6. FreshReads'
  BY ConstantsAssumption DEF SyncDecrement, ControlInv, FreshReads, Placed,
     Apart, Housed, DeletedFlagsAgree, Active, Alive, Continue, TypeOK,
     PostRow, ThreadRow, ThreadStatus, Request, ThreadOp, PostOp
<1> QED
  BY <1>1, <1>2, <1>3, <1>4, <1>5, <1>6 DEF ControlInv

LEMMA FinishSyncControl ==
    ASSUME TypeOK, TypeOK', ControlInv, Separate, NEW w \in Worker, FinishSync(w)
    PROVE  ControlInv'
<1>1. OnlySyncOwes'
  BY DEF FinishSync, ControlInv, OnlySyncOwes, Continue, Finish, NoRequest,
     TypeOK, Table
<1>2. Placed'
  BY ConstantsAssumption DEF FinishSync, ControlInv, Placed, Active,
     Continue, Finish, NoRequest, TypeOK, PostRow, ThreadRow, Request,
     ThreadOp, PostOp, Table
<1>3. Apart'
  <2>1. \A v \in Worker : Active(v)' => /\ Active(v)
                                         /\ req'[v].op = req[v].op
                                         /\ req'[v].thread = req[v].thread
                                         /\ req'[v].post = req[v].post
    BY DEF FinishSync, Active, Continue, Finish, NoRequest, TypeOK, Request,
       Table
  <2> QED
    BY <2>1, ApartKept DEF ControlInv
<1>4. Housed'
  BY DEF FinishSync, ControlInv, Housed, TypeOK, PostRow, ThreadRow, Request,
     Table
<1>5. DeletedFlagsAgree'
  BY DEF FinishSync, ControlInv, DeletedFlagsAgree, TypeOK, ThreadRow, Table
<1>6. FreshReads'
  BY ConstantsAssumption DEF FinishSync, ControlInv, FreshReads, Placed,
     Apart, Housed, DeletedFlagsAgree, Active, Alive, Continue, Finish,
     NoRequest, TypeOK, PostRow, ThreadRow, ThreadStatus, Request, ThreadOp,
     PostOp, Table
<1> QED
  BY <1>1, <1>2, <1>3, <1>4, <1>5, <1>6 DEF ControlInv

LEMMA UpdateReplyStatsControl ==
    ASSUME TypeOK, TypeOK', ControlInv, Separate, NEW w \in Worker, UpdateReplyStats(w)
    PROVE  ControlInv'
<1>0. \A t \in Thread : /\ threads'[t].status = threads[t].status
                         /\ threads'[t].deleted_at = threads[t].deleted_at
  BY DEF UpdateReplyStats, TypeOK, ThreadRow
<1>1. OnlySyncOwes'
  BY DEF UpdateReplyStats, ControlInv, OnlySyncOwes, Continue, TypeOK
<1>2. Placed'
  BY <1>0, ConstantsAssumption DEF UpdateReplyStats, ControlInv, Placed,
     Active, Continue, TypeOK, PostRow, ThreadRow, Request, ThreadOp, PostOp
<1>3. Apart'
  <2>1. \A v \in Worker : Active(v)' => /\ Active(v)
                                         /\ req'[v].op = req[v].op
                                         /\ req'[v].thread = req[v].thread
                                         /\ req'[v].post = req[v].post
    BY DEF UpdateReplyStats, Active, Continue, TypeOK, Request
  <2> QED
    BY <2>1, ApartKept DEF ControlInv
<1>4. Housed'
  BY <1>0 DEF UpdateReplyStats, ControlInv, Housed, TypeOK, PostRow,
     ThreadRow, Request
<1>5. DeletedFlagsAgree'
  BY <1>0 DEF UpdateReplyStats, ControlInv, DeletedFlagsAgree, TypeOK,
     ThreadRow
<1>6. FreshReads'
  BY <1>0, ConstantsAssumption DEF UpdateReplyStats, ControlInv, FreshReads,
     Placed, Apart, Housed, DeletedFlagsAgree, Active, Alive, Continue,
     TypeOK, PostRow, ThreadRow, ThreadStatus, Request, ThreadOp, PostOp
<1> QED
  BY <1>1, <1>2, <1>3, <1>4, <1>5, <1>6 DEF ControlInv

LEMMA IncrementPostCountControl ==
    ASSUME TypeOK, TypeOK', ControlInv, Separate, NEW w \in Worker, IncrementPostCount(w)
    PROVE  ControlInv'
<1>1. OnlySyncOwes'
  BY DEF IncrementPostCount, ControlInv, OnlySyncOwes, Finish, NoRequest,
     TypeOK
<1>2. Placed'
  BY ConstantsAssumption DEF IncrementPostCount, ControlInv, Placed, Active,
     Finish, NoRequest, TypeOK, PostRow, ThreadRow, Request, ThreadOp, PostOp
<1>3. Apart'
  <2>1. \A v \in Worker : Active(v)' => /\ Active(v)
                                         /\ req'[v].op = req[v].op
                                         /\ req'[v].thread = req[v].thread
                                         /\ req'[v].post = req[v].post
    BY DEF IncrementPostCount, Active, Finish, NoRequest, TypeOK, Request
  <2> QED
    BY <2>1, ApartKept DEF ControlInv
<1>4. Housed'
  BY DEF IncrementPostCount, ControlInv, Housed, TypeOK, PostRow, ThreadRow,
     Request
<1>5. DeletedFlagsAgree'
  BY DEF IncrementPostCount, ControlInv, DeletedFlagsAgree, TypeOK, ThreadRow
<1>6. FreshReads'
  BY ConstantsAssumption DEF IncrementPostCount, ControlInv, FreshReads,
     Placed, Apart, Housed, DeletedFlagsAgree, Active, Alive, Finish,
     NoRequest, TypeOK, PostRow, ThreadRow, ThreadStatus, Request, ThreadOp,
     PostOp
<1> QED
  BY <1>1, <1>2, <1>3, <1>4, <1>5, <1>6 DEF ControlInv

LEMMA CheckFirstPostControl ==
    ASSUME TypeOK, TypeOK', ControlInv, Separate, NEW w \in Worker, CheckFirstPost(w)
    PROVE  ControlInv'
<1>1. OnlySyncOwes'
  BY DEF CheckFirstPost, ControlInv, OnlySyncOwes, Continue, TypeOK, Table
<1>2. Placed'
  BY ConstantsAssumption DEF CheckFirstPost, ControlInv, Placed, Active,
     Continue, TypeOK, PostRow, ThreadRow, Request, ThreadOp, PostOp, Table
<1>3. Apart'
  <2>1. \A v \in Worker : Active(v)' => /\ Active(v)
                                         /\ req'[v].op = req[v].op
                                         /\ req'[v].thread = req[v].thread
                                         /\ req'[v].post = req[v].post
    BY DEF CheckFirstPost, Active, Continue, TypeOK, Request, Table
  <2> QED
    BY <2>1, ApartKept DEF ControlInv
<1>4. Housed'
  BY DEF CheckFirstPost, ControlInv, Housed, TypeOK, PostRow, ThreadRow,
     Request, Table
<1>5. DeletedFlagsAgree'
  BY DEF CheckFirstPost, ControlInv, DeletedFlagsAgree, TypeOK, ThreadRow,
     Table
<1>6. FreshReads'
  BY ConstantsAssumption DEF CheckFirstPost, ControlInv, FreshReads, Placed,
     Apart, Housed, DeletedFlagsAgree, Active, Alive, Continue, TypeOK,
     PostRow, ThreadRow, ThreadStatus, Request, ThreadOp, PostOp, Table
<1> QED
  BY <1>1, <1>2, <1>3, <1>4, <1>5, <1>6 DEF ControlInv

LEMMA CompensateControl ==
    ASSUME TypeOK, TypeOK', ControlInv, Separate, NEW w \in Worker, Compensate(w)
    PROVE  ControlInv'
<1>1. OnlySyncOwes'
  BY DEF Compensate, ControlInv, OnlySyncOwes, Finish, NoRequest, TypeOK
<1>2. Placed'
  BY ConstantsAssumption DEF Compensate, ControlInv, Placed, Active, Finish,
     NoRequest, TypeOK, PostRow, ThreadRow, Request, ThreadOp, PostOp
<1>3. Apart'
  <2>1. \A v \in Worker : Active(v)' => /\ Active(v)
                                         /\ req'[v].op = req[v].op
                                         /\ req'[v].thread = req[v].thread
                                         /\ req'[v].post = req[v].post
    BY DEF Compensate, Active, Finish, NoRequest, TypeOK, Request
  <2> QED
    BY <2>1, ApartKept DEF ControlInv
<1>4. Housed'
  BY DEF Compensate, ControlInv, Housed, FreshReads, Placed, Active, Finish,
     NoRequest, TypeOK, PostRow, ThreadRow, Request
<1>5. DeletedFlagsAgree'
  BY DEF Compensate, ControlInv, DeletedFlagsAgree, FreshReads, Alive,
     TypeOK, ThreadRow
<1>6. FreshReads'
  BY ConstantsAssumption DEF Compensate, ControlInv, FreshReads, Placed,
     Apart, Housed, DeletedFlagsAgree, Active, Alive, Finish, NoRequest,
     TypeOK, PostRow, ThreadRow, ThreadStatus, Request, ThreadOp, PostOp
<1> QED
  BY <1>1, <1>2, <1>3, <1>4, <1>5, <1>6 DEF ControlInv

LEMMA MarkThreadDeletedControl ==
    ASSUME TypeOK, TypeOK', ControlInv, Separate, NEW w \in Worker, MarkThreadDeleted(w)
    PROVE  ControlInv'
<1>1. OnlySyncOwes'
  BY DEF MarkThreadDeleted, ControlInv, OnlySyncOwes, Continue, TypeOK
<1>2. Placed'
  BY ConstantsAssumption DEF MarkThreadDeleted, ControlInv, Placed, Active,
     Continue, TypeOK, PostRow, ThreadRow, Request, ThreadOp, PostOp
<1>3. Apart'
  <2>1. \A v \in Worker : Active(v)' => /\ Active(v)
                                         /\ req'[v].op = req[v].op
                                         /\ req'[v].thread = req[v].thread
                                         /\ req'[v].post = req[v].post
    BY DEF MarkThreadDeleted, Active, Continue, TypeOK, Request
  <2> QED
    BY <2>1, ApartKept DEF ControlInv
<1>4. Housed'
  BY DEF MarkThreadDeleted, ControlInv, Housed, FreshReads, Placed, Active,
     Continue, TypeOK, PostRow, ThreadRow, Request
<1>5. DeletedFlagsAgree'
  BY DEF MarkThreadDeleted, ControlInv, DeletedFlagsAgree, FreshReads, Alive,
     TypeOK, ThreadRow
<1>6. FreshReads'
  BY ConstantsAssumption DEF MarkThreadDeleted, ControlInv, FreshReads,
     Placed, Apart, Housed, DeletedFlagsAgree, Active, Alive, Continue,
     TypeOK, PostRow, ThreadRow, ThreadStatus, Request, ThreadOp, PostOp
<1> QED
  BY <1>1, <1>2, <1>3, <1>4, <1>5, <1>6 DEF ControlInv

LEMMA ReleaseAttachmentRefsControl ==
    ASSUME TypeOK, TypeOK', ControlInv, Separate, NEW w \in Worker, ReleaseAttachmentRefs(w)
    PROVE  ControlInv'
<1>1. OnlySyncOwes'
  BY DEF ReleaseAttachmentRefs, ControlInv, OnlySyncOwes, Continue, Finish,
     NoRequest, TypeOK, Table, Separate
<1>2. Placed'
  <2>1. \A v \in Worker : Active(v)' => /\ Active(v)
                                         /\ req'[v].op = req[v].op
                                         /\ req'[v].thread = req[v].thread
                                         /\ req'[v].post = req[v].post
    BY DEF ReleaseAttachmentRefs, Active, Continue, Finish, NoRequest,
       TypeOK, Request, Table
  <2> QED
    BY <2>1 DEF ReleaseAttachmentRefs, Table, ControlInv, Placed
<1>3. Apart'
  <2>1. \A v \in Worker : Active(v)' => /\ Active(v)
                                         /\ req'[v].op = req[v].op
                                         /\ req'[v].thread = req[v].thread
                                         /\ req'[v].post = req[v].post
    BY DEF ReleaseAttachmentRefs, Active, Continue, Finish, NoRequest,
       TypeOK, Request, Table, Separate
  <2> QED
    BY <2>1, ApartKept DEF ControlInv
<1>4. Housed'
  BY DEF ReleaseAttachmentRefs, ControlInv, Housed, TypeOK, PostRow,
     ThreadRow, Request, Table, Separate
<1>5. DeletedFlagsAgree'
  BY DEF ReleaseAttachmentRefs, ControlInv, DeletedFlagsAgree, TypeOK,
     ThreadRow, Table, Separate
<1>6. FreshReads'
  BY ConstantsAssumption DEF ReleaseAttachmentRefs, ControlInv, FreshReads,
     Placed, Apart, Housed, DeletedFlagsAgree, Active, Alive, Continue,
     Finish, NoRequest, TypeOK, PostRow, ThreadRow, ThreadStatus, Request,
     ThreadOp, PostOp, Table, Separate
<1> QED
  BY <1>1, <1>2, <1>3, <1>4, <1>5, <1>6 DEF ControlInv

LEMMA SetLockedControl ==
    ASSUME TypeOK, TypeOK', ControlInv, Separate, NEW w \in Worker, SetLocked(w)
    PROVE  ControlInv'
<1>1. OnlySyncOwes'
  BY DEF SetLocked, ControlInv, OnlySyncOwes, Finish, NoRequest, TypeOK
<1>2. Placed'
  BY ConstantsAssumption DEF SetLocked, ControlInv, Placed, Active, Finish,
     NoRequest, TypeOK, PostRow, ThreadRow, Request, ThreadOp, PostOp
<1>3. Apart'
  <2>1. \A v \in Worker : Active(v)' => /\ Active(v)
                                         /\ req'[v].op = req[v].op
                                         /\ req'[v].thread = req[v].thread
                                         /\ req'[v].post = req[v].post
    BY DEF SetLocked, Active, Finish, NoRequest, TypeOK, Request
  <2> QED
    BY <2>1, ApartKept DEF ControlInv
<1>4. Housed'
  BY DEF SetLocked, ControlInv, Housed, FreshReads, Placed, Active, Finish,
     NoRequest, TypeOK, PostRow, ThreadRow, Request
<1>5. DeletedFlagsAgree'
  BY DEF SetLocked, ControlInv, DeletedFlagsAgree, FreshReads, Alive, TypeOK,
     ThreadRow
<1>6. FreshReads'
  BY ConstantsAssumption DEF SetLocked, ControlInv, FreshReads, Placed,
     Apart, Housed, DeletedFlagsAgree, Active, Alive, Finish, NoRequest,
     TypeOK, PostRow, ThreadRow, ThreadStatus, Request, ThreadOp, PostOp
<1> QED
  BY <1>1, <1>2, <1>3, <1>4, <1>5, <1>6 DEF ControlInv

LEMMA BeginCreateControl ==
    ASSUME TypeOK, TypeOK', ControlInv, Separate, NEW w \in Worker,
           NEW t \in Thread, BeginCreate(w, t)
    PROVE  ControlInv'
<1>1. OnlySyncOwes'
  BY DEF BeginCreate, ControlInv, OnlySyncOwes, Begin, NoRequest, TypeOK,
     OnPost, OnThread, Table, Separate, Reachable, Contents
<1>2. Placed'
  BY ConstantsAssumption DEF BeginCreate, ControlInv, Placed, Active, Housed,
     Begin, NoRequest, TypeOK, PostRow, ThreadRow, Request, ThreadOp, PostOp,
     OnPost, OnThread, Table, Separate, Reachable, Contents
<1>3. Apart'
  BY ApartBegun DEF BeginCreate, ControlInv, NoRequest, OnPost, OnThread,
     ThreadOp, PostOp
<1>4. Housed'
  BY DEF BeginCreate, ControlInv, Housed, TypeOK, PostRow, ThreadRow,
     Request, OnPost, OnThread, Table, Separate, Reachable, Contents
<1>5. DeletedFlagsAgree'
  BY DEF BeginCreate, ControlInv, DeletedFlagsAgree, TypeOK, ThreadRow,
     OnPost, OnThread, Table, Separate, Reachable, Contents
<1>6. FreshReads'
  BY ConstantsAssumption DEF BeginCreate, ControlInv, FreshReads, Placed,
     Apart, Housed, DeletedFlagsAgree, Active, Alive, Begin, NoRequest,
     TypeOK, PostRow, ThreadRow, ThreadStatus, Request, ThreadOp, PostOp,
     OnPost, OnThread, Table, Separate, Reachable, Contents
<1> QED
  BY <1>1, <1>2, <1>3, <1>4, <1>5, <1>6 DEF ControlInv

LEMMA BeginCreateThreadControl ==
    ASSUME TypeOK, TypeOK', ControlInv, Separate, NEW w \in Worker,
           NEW t \in Thread, BeginCreateThread(w, t)
    PROVE  ControlInv'
<1>1. OnlySyncOwes'
  BY DEF BeginCreateThread, ControlInv, OnlySyncOwes, Begin, NoRequest,
     TypeOK, OnPost, OnThread, Table, Separate, Reachable, Contents
<1>2. Placed'
  BY ConstantsAssumption DEF BeginCreateThread, ControlInv, Placed, Active,
     Housed, Begin, NoRequest, TypeOK, PostRow, ThreadRow, Request, ThreadOp,
     PostOp, OnPost, OnThread, Table, Separate, Reachable, Contents
<1>3. Apart'
  BY ApartBegun DEF BeginCreateThread, ControlInv, NoRequest, OnPost,
     OnThread, ThreadOp, PostOp
<1>4. Housed'
  BY DEF BeginCreateThread, ControlInv, Housed, FreshReads, Placed, Active,
     Begin, NoRequest, TypeOK, PostRow, ThreadRow, Request, OnPost, OnThread,
     Table, Separate, Reachable, Contents
<1>5. DeletedFlagsAgree'
  BY DEF BeginCreateThread, ControlInv, DeletedFlagsAgree, FreshReads, Alive,
     TypeOK, ThreadRow, OnPost, OnThread, Table, Separate, Reachable,
     Contents
<1>6. FreshReads'
  BY ConstantsAssumption DEF BeginCreateThread, ControlInv, FreshReads,
     Placed, Apart, Housed, DeletedFlagsAgree, Active, Alive, Begin,
     NoRequest, TypeOK, PostRow, ThreadRow, ThreadStatus, Request, ThreadOp,
     PostOp, OnPost, OnThread, Table, Separate, Reachable, Contents
<1> QED
  BY <1>1, <1>2, <1>3, <1>4, <1>5, <1>6 DEF ControlInv

LEMMA BeginThreadDeleteControl ==
    ASSUME TypeOK, TypeOK', ControlInv, Separate, NEW w \in Worker,
           NEW t \in Thread, BeginThreadDelete(w, t)
    PROVE  ControlInv'
<1>1. OnlySyncOwes'
  BY DEF BeginThreadDelete, ControlInv, OnlySyncOwes, Begin, NoRequest,
     TypeOK, OnPost, OnThread, Table, Separate, Reachable, Contents
<1>2. Placed'
  BY ConstantsAssumption DEF BeginThreadDelete, ControlInv, Placed, Active,
     Housed, Begin, NoRequest, TypeOK, PostRow, ThreadRow, Request, ThreadOp,
     PostOp, OnPost, OnThread, Table, Separate, Reachable, Contents
<1>3. Apart'
  BY ApartBegun DEF BeginThreadDelete, ControlInv, NoRequest, OnPost,
     OnThread, ThreadOp, PostOp
<1>4. Housed'
  BY DEF BeginThreadDelete, ControlInv, Housed, TypeOK, PostRow, ThreadRow,
     Request, OnPost, OnThread, Table, Separate, Reachable, Contents
<1>5. DeletedFlagsAgree'
  BY DEF BeginThreadDelete, ControlInv, DeletedFlagsAgree, TypeOK, ThreadRow,
     OnPost, OnThread, Table, Separate, Reachable, Contents
<1>6. FreshReads'
  BY ConstantsAssumption DEF BeginThreadDelete, ControlInv, FreshReads,
     Placed, Apart, Housed, DeletedFlagsAgree, Active, Alive, Begin,
     NoRequest, TypeOK, PostRow, ThreadRow, ThreadStatus, Request, ThreadOp,
     PostOp, OnPost, OnThread, Table, Separate, Reachable, Contents
<1> QED
  BY <1>1, <1>2, <1>3, <1>4, <1>5, <1>6 DEF ControlInv

LEMMA BeginLockControl ==
    ASSUME TypeOK, TypeOK', ControlInv, Separate, NEW w \in Worker,
           NEW t \in Thread, NEW op \in {"lock", "unlock"}, BeginLock(w, t, op)
    PROVE  ControlInv'
<1>1. OnlySyncOwes'
  BY DEF BeginLock, ControlInv, OnlySyncOwes, Begin, NoRequest, TypeOK,
     OnPost, OnThread, Table, Separate, Reachable, Contents
<1>2. Placed'
  BY ConstantsAssumption DEF BeginLock, ControlInv, Placed, Active, Housed,
     Begin, NoRequest, TypeOK, PostRow, ThreadRow, Request, ThreadOp, PostOp,
     OnPost, OnThread, Table, Separate, Reachable, Contents
<1>3. Apart'
  BY ApartBegun DEF BeginLock, ControlInv, NoRequest, OnPost, OnThread,
     ThreadOp, PostOp
<1>4. Housed'
  BY DEF BeginLock, ControlInv, Housed, TypeOK, PostRow, ThreadRow, Request,
     OnPost, OnThread, Table, Separate, Reachable, Contents
<1>5. DeletedFlagsAgree'
  BY DEF BeginLock, ControlInv, DeletedFlagsAgree, TypeOK, ThreadRow, OnPost,
     OnThread, Table, Separate, Reachable, Contents
<1>6. FreshReads'
  BY ConstantsAssumption DEF BeginLock, ControlInv, FreshReads, Placed,
     Apart, Housed, DeletedFlagsAgree, Active, Alive, Begin, NoRequest,
     TypeOK, PostRow, ThreadRow, ThreadStatus, Request, ThreadOp, PostOp,
     OnPost, OnThread, Table, Separate, Reachable, Contents
<1> QED
  BY <1>1, <1>2, <1>3, <1>4, <1>5, <1>6 DEF ControlInv

LEMMA BeginDeleteControl ==
    ASSUME TypeOK, TypeOK', ControlInv, Separate, NEW w \in Worker,
           NEW p \in Post, BeginDelete(w, p)
    PROVE  ControlInv'
<1>1. OnlySyncOwes'
  BY DEF BeginDelete, ControlInv, OnlySyncOwes, Begin, NoRequest, TypeOK,
     OnPost, OnThread, Table, Separate, Reachable, Contents
<1>2. Placed'
  BY ConstantsAssumption DEF BeginDelete, ControlInv, Placed, Active, Housed,
     Begin, NoRequest, TypeOK, PostRow, ThreadRow, Request, ThreadOp, PostOp,
     OnPost, OnThread, Table, Separate, Reachable, Contents
<1>3. Apart'
  BY ApartBegun DEF BeginDelete, ControlInv, NoRequest, OnPost, OnThread,
     ThreadOp, PostOp
<1>4. Housed'
  BY DEF BeginDelete, ControlInv, Housed, TypeOK, PostRow, ThreadRow,
     Request, OnPost, OnThread, Table, Separate, Reachable, Contents
<1>5. DeletedFlagsAgree'
  BY DEF BeginDelete, ControlInv, DeletedFlagsAgree, TypeOK, ThreadRow,
     OnPost, OnThread, Table, Separate, Reachable, Contents
<1>6. FreshReads'
  BY ConstantsAssumption DEF BeginDelete, ControlInv, FreshReads, Placed,
     Apart, Housed, DeletedFlagsAgree, Active, Alive, Begin, NoRequest,
     TypeOK, PostRow, ThreadRow, ThreadStatus, Request, ThreadOp, PostOp,
     OnPost, OnThread, Table, Separate, Reachable, Contents
<1> QED
  BY <1>1, <1>2, <1>3, <1>4, <1>5, <1>6 DEF ControlInv

LEMMA BeginApproveControl ==
    ASSUME TypeOK, TypeOK', ControlInv, Separate, NEW w \in Worker,
           NEW p \in Post, BeginApprove(w, p)
    PROVE  ControlInv'
<1>1. OnlySyncOwes'
  BY DEF BeginApprove, ControlInv, OnlySyncOwes, Begin, NoRequest, TypeOK,
     OnPost, OnThread, Table, Separate, Reachable, Contents
<1>2. Placed'
  BY ConstantsAssumption DEF BeginApprove, ControlInv, Placed, Active,
     Housed, Begin, NoRequest, TypeOK, PostRow, ThreadRow, Request, ThreadOp,
     PostOp, OnPost, OnThread, Table, Separate, Reachable, Contents
<1>3. Apart'
  BY ApartBegun DEF BeginApprove, ControlInv, NoRequest, OnPost, OnThread,
     ThreadOp, PostOp
<1>4. Housed'
  BY DEF BeginApprove, ControlInv, Housed, TypeOK, PostRow, ThreadRow,
     Request, OnPost, OnThread, Table, Separate, Reachable, Contents
<1>5. DeletedFlagsAgree'
  BY DEF BeginApprove, ControlInv, DeletedFlagsAgree, TypeOK, ThreadRow,
     OnPost, OnThread, Table, Separate, Reachable, Contents
<1>6. FreshReads'
  BY ConstantsAssumption DEF BeginApprove, ControlInv, FreshReads, Placed,
     Apart, Housed, DeletedFlagsAgree, Active, Alive, Begin, NoRequest,
     TypeOK, PostRow, ThreadRow, ThreadStatus, Request, ThreadOp, PostOp,
     OnPost, OnThread, Table, Separate, Reachable, Contents
<1> QED
  BY <1>1, <1>2, <1>3, <1>4, <1>5, <1>6 DEF ControlInv

LEMMA BeginRejectControl ==
    ASSUME TypeOK, TypeOK', ControlInv, Separate, NEW w \in Worker,
           NEW p \in Post, BeginReject(w, p)
    PROVE  ControlInv'
<1>1. OnlySyncOwes'
  BY DEF BeginReject, ControlInv, OnlySyncOwes, Begin, NoRequest, TypeOK,
     OnPost, OnThread, Table, Separate, Reachable, Contents
<1>2. Placed'
  BY ConstantsAssumption DEF BeginReject, ControlInv, Placed, Active, Housed,
     Begin, NoRequest, TypeOK, PostRow, ThreadRow, Request, ThreadOp, PostOp,
     OnPost, OnThread, Table, Separate, Reachable, Contents
<1>3. Apart'
  BY ApartBegun DEF BeginReject, ControlInv, NoRequest, OnPost, OnThread,
     ThreadOp, PostOp
<1>4. Housed'
  BY DEF BeginReject, ControlInv, Housed, TypeOK, PostRow, ThreadRow,
     Request, OnPost, OnThread, Table, Separate, Reachable, Contents
<1>5. DeletedFlagsAgree'
  BY DEF BeginReject, ControlInv, DeletedFlagsAgree, TypeOK, ThreadRow,
     OnPost, OnThread, Table, Separate, Reachable, Contents
<1>6. FreshReads'
  BY ConstantsAssumption DEF BeginReject, ControlInv, FreshReads, Placed,
     Apart, Housed, DeletedFlagsAgree, Active, Alive, Begin, NoRequest,
     TypeOK, PostRow, ThreadRow, ThreadStatus, Request, ThreadOp, PostOp,
     OnPost, OnThread, Table, Separate, Reachable, Contents
<1> QED
  BY <1>1, <1>2, <1>3, <1>4, <1>5, <1>6 DEF ControlInv

LEMMA BeginEditControl ==
    ASSUME TypeOK, TypeOK', ControlInv, Separate, NEW w \in Worker,
           NEW p \in Post, NEW c \in SUBSET File, BeginEdit(w, p, c)
    PROVE  ControlInv'
<1>1. OnlySyncOwes'
  BY DEF BeginEdit, ControlInv, OnlySyncOwes, Begin, NoRequest, TypeOK,
     OnPost, OnThread, Table, Separate, Reachable, Contents
<1>2. Placed'
  BY ConstantsAssumption DEF BeginEdit, ControlInv, Placed, Active, Housed,
     Begin, NoRequest, TypeOK, PostRow, ThreadRow, Request, ThreadOp, PostOp,
     OnPost, OnThread, Table, Separate, Reachable, Contents
<1>3. Apart'
  BY ApartBegun DEF BeginEdit, ControlInv, NoRequest, OnPost, OnThread,
     ThreadOp, PostOp
<1>4. Housed'
  BY DEF BeginEdit, ControlInv, Housed, TypeOK, PostRow, ThreadRow, Request,
     OnPost, OnThread, Table, Separate, Reachable, Contents
<1>5. DeletedFlagsAgree'
  BY DEF BeginEdit, ControlInv, DeletedFlagsAgree, TypeOK, ThreadRow, OnPost,
     OnThread, Table, Separate, Reachable, Contents
<1>6. FreshReads'
  BY ConstantsAssumption DEF BeginEdit, ControlInv, FreshReads, Placed,
     Apart, Housed, DeletedFlagsAgree, Active, Alive, Begin, NoRequest,
     TypeOK, PostRow, ThreadRow, ThreadStatus, Request, ThreadOp, PostOp,
     OnPost, OnThread, Table, Separate, Reachable, Contents
<1> QED
  BY <1>1, <1>2, <1>3, <1>4, <1>5, <1>6 DEF ControlInv

-----------------------------------------------------------------------------
(***************************************************************************)
(* What is owed, and who holds a reference.                                *)
(***************************************************************************)

LEMMA ReleasedSame ==
    ASSUME NEW t,
           threads'[t].status = "deleted" <=> threads[t].status = "deleted",
           \A v \in Worker : /\ pc'[v] = "release" <=> pc[v] = "release"
                             /\ pc[v] = "release" => req'[v].thread = req[v].thread
    PROVE  Released(t)' <=> Released(t)
  BY DEF Released

LEMMA EmbedsSame ==
    ASSUME Housed,
           NEW p \in Post, NEW k \in File,
           posts'[p].status # "absent" <=> posts[p].status # "absent",
           posts[p].status # "absent" =>
                /\ posts'[p].thread = posts[p].thread
                /\ posts'[p].is_deleted <=> posts[p].is_deleted
                /\ posts'[p].content = posts[p].content,
           \A t \in Thread : posts[p].status # "absent" /\ posts[p].thread = t
                                => (Released(t)' <=> Released(t))
    PROVE  Embeds(p, k)' <=> Embeds(p, k)
<1>1. CASE posts[p].status = "absent"
  BY <1>1 DEF Embeds
<1>2. CASE posts[p].status # "absent"
  <2>1. PICK t \in Thread : t = posts[p].thread
    BY <1>2 DEF Housed
  <2>2. t = posts'[p].thread
    BY <1>2, <2>1
  <2>3. Released(t)' <=> Released(t)
    BY <1>2, <2>1
  <2> QED
    BY <1>2, <2>1, <2>2, <2>3 DEF Embeds
<1> QED
  BY <1>1, <1>2

(* Two requests never owe the same reference: none about a post that       *)
(* another request is about, ...                                           *)
LEMMA NobodyElseOwes ==
    ASSUME ControlInv, OwedIsDue,
           NEW v \in Worker, NEW w \in Worker, v # w, Active(w), Active(v),
           NEW p \in Post, NEW k \in File,
           posts[p].thread = req[w].thread,
           req[w].op \in ThreadOp \/ p = req[w].post,
           <<p, k>> \in req[v].inc \/ <<p, k>> \in req[v].dec
    PROVE  FALSE
<1>2. posts[p].thread = req[v].thread
  BY DEF OwedIsDue, ControlInv, Placed
<1>4. req[v].op \notin ThreadOp /\ req[w].op \notin ThreadOp
  BY <1>2 DEF ControlInv, Apart
<1>5. p = req[v].post
  BY <1>4 DEF OwedIsDue, ControlInv, Placed
<1>6. p # NoPost
  BY ConstantsAssumption
<1> QED
  BY <1>2, <1>4, <1>5, <1>6 DEF ControlInv, Apart

LEMMA OwedOnce ==
    ASSUME ControlInv, OwedIsDue, NEW w \in Worker, Active(w), NEW p \in Post,
           posts[p].thread = req[w].thread,
           req[w].op \in ThreadOp \/ p = req[w].post
    PROVE  \A v \in Worker, k \in File : v # w =>
              <<p, k>> \notin req[v].inc /\ <<p, k>> \notin req[v].dec
<1> SUFFICES ASSUME NEW v \in Worker, NEW k \in File, v # w,
                    <<p, k>> \in req[v].inc \/ <<p, k>> \in req[v].dec
             PROVE  FALSE
  OBVIOUS
<1>1. Active(v)
  BY DEF ControlInv, OnlySyncOwes, Active
<1> QED
  BY <1>1, NobodyElseOwes

(* A step that leaves the holders of an image and its count as they are. *)
HoldersStay ==
    /\ stored' = stored /\ ref_count' = ref_count
    /\ \A p \in Post, k \in File : Holds(p, k)' <=> Holds(p, k)

(* A step that changes neither what is owed nor what is embedded. *)
SameDebts ==
    \A v \in Worker :
        /\ req'[v].inc = req[v].inc /\ req'[v].dec = req[v].dec
        /\ req[v].inc # {} \/ req[v].dec # {} =>
            /\ req'[v].op = req[v].op
            /\ req'[v].post = req[v].post
            /\ req'[v].thread = req[v].thread

SameEmbeds == \A p \in Post, k \in File : Embeds(p, k)' <=> Embeds(p, k)

SamePlaces ==
    \A p \in Post : posts[p].status # "absent" =>
        /\ posts'[p].status # "absent"
        /\ posts'[p].thread = posts[p].thread

LEMMA QuietKeeps ==
    ASSUME ControlInv, OwedIsDue, stored' = stored, ref_count' = ref_count,
           SameDebts, SameEmbeds, SamePlaces
    PROVE  OwedIsDue' /\ HoldersStay
<1>1. OwedIsDue'
  BY DEF OwedIsDue, SameDebts, SameEmbeds, SamePlaces
<1>2. \A p \in Post, k \in File : Holds(p, k)' <=> Holds(p, k)
  BY DEF Holds, SameDebts, SameEmbeds
<1> QED
  BY <1>1, <1>2 DEF HoldersStay

LEMMA EmbedsUnmoved ==
    ASSUME Housed,
           \A p \in Post :
                /\ posts'[p].status # "absent" <=> posts[p].status # "absent"
                /\ posts[p].status # "absent" =>
                    /\ posts'[p].thread = posts[p].thread
                    /\ posts'[p].is_deleted <=> posts[p].is_deleted
                    /\ posts'[p].content = posts[p].content,
           \A t \in Thread :
                threads'[t].status = "deleted" <=> threads[t].status = "deleted",
           \A v \in Worker :
                /\ pc'[v] = "release" <=> pc[v] = "release"
                /\ pc[v] = "release" => req'[v].thread = req[v].thread
    PROVE  SameEmbeds
<1>1. \A t \in Thread : Released(t)' <=> Released(t)
  BY ReleasedSame
<1> QED
  BY <1>1, EmbedsSame DEF SameEmbeds

LEMMA ContinueDebts ==
    ASSUME TypeOK, NEW w \in Worker, NEW label, Continue(w, label, req[w])
    PROVE  /\ SameDebts
           /\ \A v \in Worker : req'[v].thread = req[v].thread
           /\ pc'[w] = label /\ \A v \in Worker : v # w => pc'[v] = pc[v]
  BY DEF TypeOK, Continue, SameDebts

LEMMA FinishDebts ==
    ASSUME TypeOK, NEW w \in Worker, Finish(w), req[w].inc = {}, req[w].dec = {}
    PROVE  /\ SameDebts
           /\ \A v \in Worker : v # w => req'[v].thread = req[v].thread
           /\ pc'[w] = "idle" /\ \A v \in Worker : v # w => pc'[v] = pc[v]
<1>1. /\ req'[w] = NoRequest /\ \A v \in Worker : v # w => req'[v] = req[v]
      /\ pc'[w] = "idle" /\ \A v \in Worker : v # w => pc'[v] = pc[v]
  BY DEF TypeOK, Finish
<1>2. req'[w].inc = {} /\ req'[w].dec = {}
  BY <1>1 DEF NoRequest
<1> QED
  BY <1>1, <1>2 DEF SameDebts

LEMMA BeginDebts ==
    ASSUME TypeOK, OnlySyncOwes, NEW w \in Worker, NEW label, NEW r,
           Begin(w, label, r), r.inc = {}, r.dec = {}
    PROVE  /\ SameDebts
           /\ \A v \in Worker : v # w => req'[v].thread = req[v].thread
           /\ pc[w] = "idle" /\ pc'[w] = label
           /\ \A v \in Worker : v # w => pc'[v] = pc[v]
<1>1. /\ req'[w] = r /\ \A v \in Worker : v # w => req'[v] = req[v]
      /\ pc[w] = "idle"
      /\ pc'[w] = label /\ \A v \in Worker : v # w => pc'[v] = pc[v]
  BY DEF TypeOK, Begin
<1>2. req[w].inc = {} /\ req[w].dec = {}
  BY <1>1 DEF OnlySyncOwes
<1> QED
  BY <1>1, <1>2 DEF SameDebts

LEMMA HoldersFinite == ASSUME NEW k PROVE IsFiniteSet(Holders(k))
  BY PostIsFinite, FS_Subset DEF Holders

LEMMA InsertPostRefs ==
    ASSUME RefsInv, TypeOK', ControlInv', Separate, NEW w \in Worker, InsertPost(w)
    PROVE  OwedIsDue' /\ HoldersStay
<1>1. PICK p \in Post, c \in Contents, s \in {"pending", "published"} :
          /\ posts[p].status = "absent"
          /\ posts' = [posts EXCEPT ![p] =
                    [status |-> s, thread |-> req[w].thread,
                     is_deleted |-> FALSE, content |-> c]]
          /\ Continue(w, "sync",
                    [req[w] EXCEPT !.post = p, !.new = c, !.inc = {p} \X c,
                                   !.delta = IF s = "published" THEN 1 ELSE 0])
  BY DEF InsertPost
<1>2. c \subseteq File
  BY DEF Contents, RefsInv, TypeOK
<1>3. /\ pc[w] = "create" /\ req[w].inc = {} /\ req[w].dec = {}
      /\ threads' = threads /\ stored' = stored /\ ref_count' = ref_count
  BY DEF InsertPost, RefsInv, ControlInv, OnlySyncOwes
<1>4. /\ req'[w].inc = {p} \X c /\ req'[w].dec = {} /\ req'[w].post = p
      /\ req'[w].thread = req[w].thread /\ req'[w].op = req[w].op
      /\ pc'[w] = "sync"
      /\ \A v \in Worker : v # w => req'[v] = req[v] /\ pc'[v] = pc[v]
  BY <1>1, <1>3 DEF Continue, RefsInv, TypeOK, Request
<1>5. \A t \in Thread : Released(t)' <=> Released(t)
  BY <1>3, <1>4, ReleasedSame
<1>6. \A y \in Post : y # p => posts'[y] = posts[y]
  BY <1>1 DEF RefsInv, TypeOK
<1>7. posts'[p] = [status |-> s, thread |-> req[w].thread,
                   is_deleted |-> FALSE, content |-> c]
  BY <1>1 DEF RefsInv, TypeOK
<1>8. \A y \in Post, k \in File : y # p => (Embeds(y, k)' <=> Embeds(y, k))
  BY <1>5, <1>6, EmbedsSame DEF RefsInv, ControlInv
<1>9. ~Released(req[w].thread)
  BY <1>3 DEF RefsInv, ControlInv, FreshReads, Alive, Released
<1>10. req[w].thread \in Thread
  BY <1>3 DEF RefsInv, ControlInv, Placed, Active
<1>11. \A k \in File : Embeds(p, k)' <=> k \in c
  BY <1>5, <1>7, <1>9, <1>10 DEF Embeds
<1>12. \A v \in Worker, k \in File :
          ~Embeds(p, k) /\ <<p, k>> \notin req[v].inc /\ <<p, k>> \notin req[v].dec
  BY <1>1 DEF RefsInv, OwedIsDue, Embeds
<1>13. OwedIsDue'
  <2> SUFFICES ASSUME NEW v \in Worker
               PROVE  /\ req'[v].inc \subseteq Post \X File
                      /\ req'[v].dec \subseteq Post \X File
                      /\ \A y \in Post, k \in File :
                          /\ <<y, k>> \in req'[v].inc => y = req'[v].post /\ Embeds(y, k)'
                          /\ <<y, k>> \in req'[v].dec =>
                                /\ ~Embeds(y, k)'
                                /\ posts'[y].status # "absent"
                                /\ posts'[y].thread = req'[v].thread
                                /\ req'[v].op \in PostOp => y = req'[v].post
    BY <1>3 DEF OwedIsDue
  <2>1. CASE v = w
    BY <2>1, <1>2, <1>4, <1>11
  <2>2. CASE v # w
    BY <2>2, <1>4, <1>6, <1>8, <1>12 DEF RefsInv, OwedIsDue
  <2> QED
    BY <2>1, <2>2
<1>14. \A y \in Post, k \in File : Holds(y, k)' <=> Holds(y, k)
  <2> SUFFICES ASSUME NEW y \in Post, NEW k \in File PROVE Holds(y, k)' <=> Holds(y, k)
    OBVIOUS
  <2>1. CASE y = p
    BY <2>1, <1>2, <1>4, <1>11, <1>12 DEF Holds
  <2>2. CASE y # p
    BY <2>2, <1>2, <1>3, <1>4, <1>8 DEF Holds
  <2> QED
    BY <2>1, <2>2
<1> QED
  BY <1>3, <1>13, <1>14 DEF HoldersStay

LEMMA UpdateContentRefs ==
    ASSUME RefsInv, TypeOK', ControlInv', Separate, NEW w \in Worker,
           UpdateContent(w)
    PROVE  OwedIsDue' /\ HoldersStay
<1> DEFINE r == req[w]
<1>p. PICK p \in Post : p = r.post
  BY DEF UpdateContent, RefsInv, ControlInv, FreshReads
<1>1. /\ pc[w] = "edit" /\ p \in Post /\ r.inc = {} /\ r.dec = {}
      /\ r.old = posts[p].content /\ r.new \subseteq File
      /\ ~posts[p].is_deleted /\ posts[p].status # "absent"
      /\ posts[p].thread = r.thread /\ r.thread \in Thread
      /\ r.old \subseteq File /\ Active(w)
  BY <1>p DEF UpdateContent, RefsInv, ControlInv, OnlySyncOwes, FreshReads, Placed,
         Housed, Active, TypeOK, Request
<1>2. /\ threads' = threads /\ stored' = stored /\ ref_count' = ref_count
      /\ posts' = [posts EXCEPT ![p].content = r.new]
  BY <1>p DEF UpdateContent, RefsInv, TypeOK
<1>3. /\ req'[w].inc = {p} \X (r.new \ r.old) /\ req'[w].dec = {p} \X (r.old \ r.new)
      /\ req'[w].post = p /\ req'[w].thread = r.thread /\ req'[w].op = r.op
      /\ pc'[w] = "sync"
      /\ \A v \in Worker : v # w => req'[v] = req[v] /\ pc'[v] = pc[v]
  BY <1>p DEF UpdateContent, Continue, RefsInv, TypeOK, Request
<1>4. \A t \in Thread : Released(t)' <=> Released(t)
  BY <1>1, <1>2, <1>3, ReleasedSame
<1>5. \A y \in Post : y # p => posts'[y] = posts[y]
  BY <1>2 DEF RefsInv, TypeOK
<1>6. /\ posts'[p].content = r.new /\ ~posts'[p].is_deleted
      /\ posts'[p].status # "absent" /\ posts'[p].thread = r.thread
  BY <1>1, <1>2 DEF RefsInv, TypeOK, PostRow
<1>7. \A y \in Post, k \in File : y # p => (Embeds(y, k)' <=> Embeds(y, k))
  BY <1>4, <1>5, EmbedsSame DEF RefsInv, ControlInv
<1>8. \A t \in Worker : pc[t] = "release" => req[t].thread # r.thread
  BY <1>1 DEF RefsInv, ControlInv, FreshReads, Alive
<1>9. ~Released(r.thread)
  BY <1>1 DEF RefsInv, ControlInv, FreshReads, Alive, Released
<1>10. \A k \in File : /\ Embeds(p, k) <=> k \in r.old
                       /\ Embeds(p, k)' <=> k \in r.new
  <2>1. PICK t \in Thread : t = r.thread
    BY <1>1
  <2>2. ~Released(t) /\ ~Released(t)'
    BY <2>1, <1>4, <1>9
  <2>3. t = posts[p].thread /\ t = posts'[p].thread
    BY <1>1, <1>6, <2>1
  <2> SUFFICES ASSUME NEW k \in File
               PROVE  /\ Embeds(p, k) <=> k \in r.old
                      /\ Embeds(p, k)' <=> k \in r.new
    OBVIOUS
  <2>4. Embeds(p, k) <=> k \in r.old
    BY <1>1, <2>2, <2>3 DEF Embeds
  <2>5. Embeds(p, k)' <=> k \in r.new
    BY <1>6, <2>2, <2>3 DEF Embeds
  <2> QED
    BY <2>4, <2>5
<1>11. \A v \in Worker, k \in File :
          <<p, k>> \notin req[v].inc /\ <<p, k>> \notin req[v].dec
  <2>1. \A v \in Worker, k \in File : v # w =>
          <<p, k>> \notin req[v].inc /\ <<p, k>> \notin req[v].dec
    BY <1>p, <1>1, OwedOnce DEF RefsInv
  <2> QED
    BY <1>1, <2>1
<1>12. OwedIsDue'
  <2> SUFFICES ASSUME NEW v \in Worker
               PROVE  /\ req'[v].inc \subseteq Post \X File
                      /\ req'[v].dec \subseteq Post \X File
                      /\ \A y \in Post, k \in File :
                          /\ <<y, k>> \in req'[v].inc => y = req'[v].post /\ Embeds(y, k)'
                          /\ <<y, k>> \in req'[v].dec =>
                                /\ ~Embeds(y, k)'
                                /\ posts'[y].status # "absent"
                                /\ posts'[y].thread = req'[v].thread
                                /\ req'[v].op \in PostOp => y = req'[v].post
    BY <1>2 DEF OwedIsDue
  <2>1. CASE v = w
    BY <2>1, <1>1, <1>3, <1>6, <1>10
  <2>2. CASE v # w
    BY <2>2, <1>3, <1>5, <1>7, <1>11 DEF RefsInv, OwedIsDue
  <2> QED
    BY <2>1, <2>2
<1>13. \A y \in Post, k \in File : Holds(y, k)' <=> Holds(y, k)
  <2> SUFFICES ASSUME NEW y \in Post, NEW k \in File PROVE Holds(y, k)' <=> Holds(y, k)
    OBVIOUS
  <2>1. CASE y = p
    <3>1. Holds(y, k) <=> k \in r.old
      BY <2>1, <1>2, <1>10, <1>11 DEF Holds
    <3>2. Holds(y, k)' <=> k \in r.old
      BY <2>1, <1>2, <1>3, <1>10, <1>11 DEF Holds
    <3> QED
      BY <3>1, <3>2
  <2>2. CASE y # p
    BY <2>2, <1>1, <1>2, <1>3, <1>7 DEF Holds
  <2> QED
    BY <2>1, <2>2
<1> QED
  BY <1>2, <1>12, <1>13 DEF HoldersStay

LEMMA SoftDeleteRefs ==
    ASSUME RefsInv, TypeOK', ControlInv', Separate, NEW w \in Worker,
           SoftDelete(w)
    PROVE  OwedIsDue' /\ HoldersStay
<1> DEFINE r == req[w]
<1>p. PICK p \in Post : p = r.post
  BY DEF SoftDelete, RefsInv, ControlInv, FreshReads
<1>1. /\ pc[w] \in {"delete", "reject"} /\ p \in Post /\ r.inc = {} /\ r.dec = {}
      /\ r.old = IF posts[p].is_deleted THEN {} ELSE posts[p].content
      /\ posts[p].status # "absent"
      /\ posts[p].thread = r.thread /\ r.thread \in Thread
      /\ r.old \subseteq File /\ Active(w)
  BY <1>p DEF SoftDelete, RefsInv, ControlInv, OnlySyncOwes, FreshReads, Placed,
         Housed, Active, TypeOK, Request
<1>2. /\ threads' = threads /\ stored' = stored /\ ref_count' = ref_count
      /\ posts' = [posts EXCEPT ![p].is_deleted = TRUE]
  BY <1>p DEF SoftDelete, RefsInv, TypeOK
<1>3. /\ req'[w].inc = {} /\ req'[w].dec = {p} \X r.old
      /\ req'[w].post = p /\ req'[w].thread = r.thread /\ req'[w].op = r.op
      /\ pc'[w] = "sync"
      /\ \A v \in Worker : v # w => req'[v] = req[v] /\ pc'[v] = pc[v]
  <2>1. Continue(w, "sync", [r EXCEPT !.dec = {p} \X r.old])
    BY <1>p DEF SoftDelete
  <2>2. r.inc = {}
    BY <1>1
  <2> QED
    BY <1>p, <2>1, <2>2 DEF Continue, RefsInv, TypeOK, Request
<1>4. \A t \in Thread : Released(t)' <=> Released(t)
  BY <1>1, <1>2, <1>3, ReleasedSame
<1>5. \A y \in Post : y # p => posts'[y] = posts[y]
  BY <1>2 DEF RefsInv, TypeOK
<1>6. /\ posts'[p].is_deleted
      /\ posts'[p].status # "absent" /\ posts'[p].thread = r.thread
  BY <1>1, <1>2 DEF RefsInv, TypeOK, PostRow
<1>7. \A y \in Post, k \in File : y # p => (Embeds(y, k)' <=> Embeds(y, k))
  BY <1>4, <1>5, EmbedsSame DEF RefsInv, ControlInv
<1>8. ~Released(r.thread)
  BY <1>1 DEF RefsInv, ControlInv, FreshReads, Alive, Released
<1>9. \A k \in File : (Embeds(p, k) <=> k \in r.old) /\ ~Embeds(p, k)'
  <2>1. PICK t \in Thread : t = r.thread
    BY <1>1
  <2>2. t = posts[p].thread /\ t = posts'[p].thread /\ ~Released(t)
    BY <1>1, <1>6, <1>8, <2>1
  <2> SUFFICES ASSUME NEW k \in File
               PROVE  (Embeds(p, k) <=> k \in r.old) /\ ~Embeds(p, k)'
    OBVIOUS
  <2>3. Embeds(p, k) <=> k \in r.old
    BY <1>1, <2>2 DEF Embeds
  <2>4. ~Embeds(p, k)'
    BY <1>6 DEF Embeds
  <2> QED
    BY <2>3, <2>4
<1>10. \A v \in Worker, k \in File :
          <<p, k>> \notin req[v].inc /\ <<p, k>> \notin req[v].dec
  <2>1. \A v \in Worker, k \in File : v # w =>
          <<p, k>> \notin req[v].inc /\ <<p, k>> \notin req[v].dec
    BY <1>p, <1>1, OwedOnce DEF RefsInv
  <2> QED
    BY <1>1, <2>1
<1>11. OwedIsDue'
  <2> SUFFICES ASSUME NEW v \in Worker
               PROVE  /\ req'[v].inc \subseteq Post \X File
                      /\ req'[v].dec \subseteq Post \X File
                      /\ \A y \in Post, k \in File :
                          /\ <<y, k>> \in req'[v].inc => y = req'[v].post /\ Embeds(y, k)'
                          /\ <<y, k>> \in req'[v].dec =>
                                /\ ~Embeds(y, k)'
                                /\ posts'[y].status # "absent"
                                /\ posts'[y].thread = req'[v].thread
                                /\ req'[v].op \in PostOp => y = req'[v].post
    BY <1>2 DEF OwedIsDue
  <2>1. CASE v = w
    BY <2>1, <1>1, <1>3, <1>6, <1>9
  <2>2. CASE v # w
    BY <2>2, <1>3, <1>5, <1>7, <1>10 DEF RefsInv, OwedIsDue
  <2> QED
    BY <2>1, <2>2
<1>12. \A y \in Post, k \in File : Holds(y, k)' <=> Holds(y, k)
  <2> SUFFICES ASSUME NEW y \in Post, NEW k \in File PROVE Holds(y, k)' <=> Holds(y, k)
    OBVIOUS
  <2>1. CASE y = p
    <3>1. Holds(y, k) <=> k \in r.old
      BY <2>1, <1>2, <1>9, <1>10 DEF Holds
    <3>2. Holds(y, k)' <=> k \in r.old
      BY <2>1, <1>2, <1>3, <1>9, <1>10 DEF Holds
    <3> QED
      BY <3>1, <3>2
  <2>2. CASE y # p
    BY <2>2, <1>1, <1>2, <1>3, <1>7 DEF Holds
  <2> QED
    BY <2>1, <2>2
<1> QED
  BY <1>2, <1>11, <1>12 DEF HoldersStay

(* A release that fails ends the holds of all posts of the thread at once; *)
(* one that goes on turns them into debts.                                 *)
LEMMA ReleaseFailsRefs ==
    ASSUME RefsInv, TypeOK', ControlInv', Separate, NEW w \in Worker,
           pc[w] = "release", Finish(w), UNCHANGED Table
    PROVE  /\ OwedIsDue'
           /\ \A p \in Post, k \in File : Holds(p, k)' => Holds(p, k)
<1>1. /\ req[w].inc = {} /\ req[w].dec = {} /\ SameDebts
      /\ \A v \in Worker : v # w => /\ pc'[v] = pc[v]
                                    /\ req'[v].thread = req[v].thread
  BY FinishDebts DEF RefsInv, ControlInv, OnlySyncOwes
<1>2. /\ pc'[w] = "idle" /\ req[w].thread \in Thread /\ req[w].op \in ThreadOp
  BY FinishDebts, <1>1 DEF RefsInv, ControlInv, FreshReads, Placed, Active
<1>3. \A t \in Thread : Released(t) => Released(t)'
  BY <1>1, <1>2 DEF Released, Table
<1>4. \A t \in Thread : t # req[w].thread => (Released(t)' <=> Released(t))
  BY <1>1, <1>2 DEF Released, Table
<1>5. \A y \in Post, k \in File : Embeds(y, k)' => Embeds(y, k)
  BY <1>3 DEF Embeds, Table, RefsInv, ControlInv, Housed
<1>6. \A y \in Post, k \in File :
          Embeds(y, k) /\ posts[y].thread # req[w].thread => Embeds(y, k)'
  BY <1>4 DEF Embeds, Table, RefsInv, ControlInv, Housed
<1>7. ASSUME NEW v \in Worker, NEW y \in Post, NEW k \in File, <<y, k>> \in req[v].inc
      PROVE  Embeds(y, k)'
  <2>1. /\ Embeds(y, k) /\ posts[y].status # "absent" /\ v # w
    BY <1>1, <1>7 DEF RefsInv, OwedIsDue, Embeds
  <2>2. CASE posts[y].thread = req[w].thread
    BY <1>2, <1>7, <2>1, <2>2, OwedOnce DEF RefsInv, Active
  <2> QED
    BY <1>6, <2>1, <2>2
<1>8. OwedIsDue'
  <2>1. /\ posts' = posts
    BY DEF Table
  <2> QED
    BY <1>1, <1>5, <1>7, <2>1 DEF RefsInv, OwedIsDue, SameDebts
<1>9. ASSUME NEW y \in Post, NEW k \in File, Holds(y, k)' PROVE Holds(y, k)
  BY <1>1, <1>5, <1>9 DEF Holds, SameDebts
<1> QED
  BY <1>8, <1>9

LEMMA ReleaseRefs ==
    ASSUME RefsInv, TypeOK', ControlInv', Separate, NEW w \in Worker,
           pc[w] = "release", UNCHANGED Table,
           Continue(w, "sync",
             [req[w] EXCEPT !.dec = {pair \in Post \X File :
                                      /\ pair[1] \in Undeleted(req[w].thread)
                                      /\ pair[2] \in posts[pair[1]].content}])
    PROVE  OwedIsDue' /\ HoldersStay
<1> DEFINE r == req[w]
           d == {pair \in Post \X File : /\ pair[1] \in Undeleted(r.thread)
                                         /\ pair[2] \in posts[pair[1]].content}
<1>1. /\ pc[w] = "release" /\ r.inc = {} /\ r.dec = {} /\ Active(w)
      /\ r.thread \in Thread /\ r.op \in ThreadOp /\ r.op \notin PostOp
      /\ threads[r.thread].status = "deleted"
  BY DEF RefsInv, ControlInv, OnlySyncOwes, FreshReads,
         Placed, Active, ThreadOp, PostOp
<1>2. UNCHANGED Table /\ Continue(w, "sync", [r EXCEPT !.dec = d])
  OBVIOUS
<1>3. /\ req'[w].inc = {} /\ req'[w].dec = d
      /\ req'[w].post = r.post /\ req'[w].thread = r.thread /\ req'[w].op = r.op
      /\ pc'[w] = "sync"
      /\ \A v \in Worker : v # w => req'[v] = req[v] /\ pc'[v] = pc[v]
  BY <1>1, <1>2 DEF Continue, RefsInv, TypeOK, Request
<1>4. \A v \in Worker : v # w /\ Active(v) => req[v].thread # r.thread
  BY <1>1 DEF RefsInv, ControlInv, Apart
<1>5. ~Released(r.thread)
  BY <1>1 DEF Released
<1>6. PICK t \in Thread : t = r.thread
  BY <1>1
<1>7. Released(t)'
  BY <1>1, <1>2, <1>3, <1>4, <1>6 DEF Released, Table, Active
<1>8. \A x \in Thread : x # t => (Released(x)' <=> Released(x))
  BY <1>1, <1>2, <1>3, <1>6 DEF Released, Table
<1>9. \A y \in Post, k \in File : posts[y].thread # t => (Embeds(y, k)' <=> Embeds(y, k))
  BY <1>2, <1>8, EmbedsSame DEF Table, RefsInv, ControlInv
<1>10. \A y \in Post, k \in File : posts[y].thread = t =>
          ~Embeds(y, k)' /\ (Embeds(y, k) <=> <<y, k>> \in d)
  BY <1>2, <1>5, <1>6, <1>7 DEF Embeds, Undeleted, Table
<1>11. \A v \in Worker, y \in Post, k \in File : posts[y].thread = t =>
          <<y, k>> \notin req[v].inc /\ <<y, k>> \notin req[v].dec
  BY <1>1, <1>6, OwedOnce DEF RefsInv
<1>12. \A y \in Post, k \in File : <<y, k>> \in d =>
          posts[y].thread = t /\ posts[y].status # "absent"
  BY <1>6 DEF Undeleted, RefsInv, ControlInv, Housed
<1>13. d \subseteq Post \X File
  BY <1>12
<1>14. OwedIsDue'
  <2> SUFFICES ASSUME NEW v \in Worker
               PROVE  /\ req'[v].inc \subseteq Post \X File
                      /\ req'[v].dec \subseteq Post \X File
                      /\ \A y \in Post, k \in File :
                          /\ <<y, k>> \in req'[v].inc => y = req'[v].post /\ Embeds(y, k)'
                          /\ <<y, k>> \in req'[v].dec =>
                                /\ ~Embeds(y, k)'
                                /\ posts[y].status # "absent"
                                /\ posts[y].thread = req'[v].thread
                                /\ req'[v].op \in PostOp => y = req'[v].post
    BY <1>2 DEF OwedIsDue, Table
  <2> HIDE DEF d
  <2>1. CASE v = w
    BY <2>1, <1>1, <1>3, <1>6, <1>10, <1>12, <1>13
  <2>2. CASE v # w
    BY <2>2, <1>3, <1>9, <1>11 DEF RefsInv, OwedIsDue
  <2> QED
    BY <2>1, <2>2
<1>15. \A y \in Post, k \in File : Holds(y, k)' <=> Holds(y, k)
  <2> SUFFICES ASSUME NEW y \in Post, NEW k \in File PROVE Holds(y, k)' <=> Holds(y, k)
    OBVIOUS
  <2> HIDE DEF d
  <2>1. CASE posts[y].thread = t
    <3>1. Holds(y, k) <=> <<y, k>> \in d
      BY <2>1, <1>2, <1>10, <1>11 DEF Holds
    <3>2. Holds(y, k)' <=> <<y, k>> \in d
      BY <2>1, <1>2, <1>3, <1>10, <1>11 DEF Holds
    <3> QED
      BY <3>1, <3>2
  <2>2. CASE posts[y].thread # t
    BY <2>2, <1>1, <1>2, <1>3, <1>9, <1>12 DEF Holds
  <2> QED
    BY <2>1, <2>2
<1> QED
  BY <1>2, <1>14, <1>15 DEF HoldersStay, Table

(* Post p begins, or ceases, to hold k, and nothing else changes hands. *)
Gains(p, k) ==
    /\ ~Holds(p, k) /\ stored' = stored
    /\ \A y \in Post, j \in File : Holds(y, j)' <=> Holds(y, j) \/ (y = p /\ j = k)

Yields(p, k) ==
    /\ Holds(p, k) /\ stored' = stored
    /\ \A y \in Post, j \in File : Holds(y, j)' <=> Holds(y, j) /\ ~(y = p /\ j = k)

(* The increment of <<p, k>> makes p a holder of k and changes nothing     *)
(* else, whether it is lost or not.                                        *)
LEMMA SyncIncrementRefs ==
    ASSUME RefsInv, TypeOK', ControlInv', Separate, NEW w \in Worker,
           SyncIncrement(w)
    PROVE  /\ OwedIsDue'
           /\ \E p \in Post, k \in File :
                /\ Gains(p, k)
                /\ \/ IncrementRef(k)
                   \/ "lost_increment" \in disturbance /\ UNCHANGED ref_count
<1> DEFINE r == req[w]
<1>1. PICK pair \in r.inc :
          /\ \/ IncrementRef(pair[2])
             \/ "lost_increment" \in disturbance /\ UNCHANGED ref_count
          /\ Continue(w, "sync", [r EXCEPT !.inc = @ \ {pair}])
  BY DEF SyncIncrement
<1>2. PICK p \in Post, k \in File : pair = <<p, k>>
  BY DEF RefsInv, OwedIsDue
<1>3. /\ pc[w] = "sync" /\ Active(w)
      /\ posts' = posts /\ threads' = threads /\ stored' = stored
  BY DEF SyncIncrement, Active, RefsInv, TypeOK
<1>5. /\ req'[w].inc = r.inc \ {<<p, k>>} /\ req'[w].dec = r.dec
      /\ req'[w].post = r.post /\ req'[w].thread = r.thread /\ req'[w].op = r.op
      /\ pc'[w] = "sync"
      /\ \A v \in Worker : v # w => req'[v] = req[v] /\ pc'[v] = pc[v]
  BY <1>1, <1>2 DEF Continue, RefsInv, TypeOK, Request
<1>6. \A t \in Thread : Released(t)' <=> Released(t)
  BY <1>3, <1>5, ReleasedSame
<1>7. \A y \in Post, j \in File : Embeds(y, j)' <=> Embeds(y, j)
  BY <1>3, <1>6, EmbedsSame DEF RefsInv, ControlInv
<1>8. /\ <<p, k>> \in r.inc /\ Embeds(p, k) /\ p = r.post
      /\ posts[p].thread = r.thread
  BY <1>1, <1>2, <1>3 DEF RefsInv, OwedIsDue, ControlInv, Placed
<1>9. \A v \in Worker : v # w => <<p, k>> \notin req[v].inc
  BY <1>3, <1>8, OwedOnce DEF RefsInv
<1>10. \A v \in Worker : <<p, k>> \notin req[v].dec
  BY <1>3, <1>8 DEF RefsInv, OwedIsDue
<1>11. OwedIsDue'
  <2> SUFFICES ASSUME NEW v \in Worker
               PROVE  /\ req'[v].inc \subseteq Post \X File
                      /\ req'[v].dec \subseteq Post \X File
                      /\ \A y \in Post, j \in File :
                          /\ <<y, j>> \in req'[v].inc => y = req'[v].post /\ Embeds(y, j)'
                          /\ <<y, j>> \in req'[v].dec =>
                                /\ ~Embeds(y, j)'
                                /\ posts[y].status # "absent"
                                /\ posts[y].thread = req'[v].thread
                                /\ req'[v].op \in PostOp => y = req'[v].post
    BY <1>3 DEF OwedIsDue
  <2> QED
    BY <1>5, <1>7 DEF RefsInv, OwedIsDue
<1>12. \A y \in Post, j \in File :
          Holds(y, j)' <=> Holds(y, j) \/ (y = p /\ j = k)
  <2> SUFFICES ASSUME NEW y \in Post, NEW j \in File
               PROVE  Holds(y, j)' <=> Holds(y, j) \/ (y = p /\ j = k)
    OBVIOUS
  <2>1. CASE y = p /\ j = k
    BY <2>1, <1>3, <1>5, <1>7, <1>8, <1>9 DEF Holds
  <2>2. CASE ~(y = p /\ j = k)
    <3>1. <<y, j>> # <<p, k>>
      BY <2>2
    <3>2. \A v \in Worker : /\ <<y, j>> \in req'[v].inc <=> <<y, j>> \in req[v].inc
                            /\ <<y, j>> \in req'[v].dec <=> <<y, j>> \in req[v].dec
      BY <3>1, <1>5
    <3>3. Holds(y, j)' <=> Holds(y, j)
      BY <3>2, <1>3, <1>7 DEF Holds
    <3> QED
      BY <2>2, <3>3
  <2> QED
    BY <2>1, <2>2
<1>13. ~Holds(p, k)
  BY <1>8, <1>10 DEF Holds
<1> QED
  BY <1>1, <1>2, <1>3, <1>11, <1>12, <1>13 DEF Gains

(* The decrement of <<p, k>> ends p's hold on k, whether it is lost or not.*)
LEMMA SyncDecrementRefs ==
    ASSUME RefsInv, TypeOK', ControlInv', Separate, NEW w \in Worker,
           SyncDecrement(w)
    PROVE  /\ OwedIsDue'
           /\ \E p \in Post, k \in File :
                /\ Yields(p, k)
                /\ \/ DecrementRef(k)
                   \/ "lost_decrement" \in disturbance /\ UNCHANGED ref_count
<1> DEFINE r == req[w]
<1>1. PICK pair \in r.dec :
          /\ \/ DecrementRef(pair[2])
             \/ "lost_decrement" \in disturbance /\ UNCHANGED ref_count
          /\ Continue(w, "sync", [r EXCEPT !.dec = @ \ {pair}])
  BY DEF SyncDecrement
<1>2. PICK p \in Post, k \in File : pair = <<p, k>>
  BY DEF RefsInv, OwedIsDue
<1>3. /\ pc[w] = "sync" /\ Active(w)
      /\ posts' = posts /\ threads' = threads /\ stored' = stored
  BY DEF SyncDecrement, Active, RefsInv, TypeOK
<1>4. <<p, k>> \in r.dec
  BY <1>1, <1>2
<1>5. /\ req'[w].inc = r.inc /\ req'[w].dec = r.dec \ {<<p, k>>}
      /\ req'[w].post = r.post /\ req'[w].thread = r.thread /\ req'[w].op = r.op
      /\ pc'[w] = "sync"
      /\ \A v \in Worker : v # w => req'[v] = req[v] /\ pc'[v] = pc[v]
  BY <1>1, <1>2 DEF Continue, RefsInv, TypeOK, Request
<1>6. \A t \in Thread : Released(t)' <=> Released(t)
  BY <1>3, <1>5, ReleasedSame
<1>7. \A y \in Post, j \in File : Embeds(y, j)' <=> Embeds(y, j)
  BY <1>3, <1>6, EmbedsSame DEF RefsInv, ControlInv
<1>8. /\ ~Embeds(p, k) /\ posts[p].thread = r.thread
      /\ r.op \in PostOp => p = r.post
  BY <1>3, <1>4 DEF RefsInv, OwedIsDue
<1>9. r.op \in ThreadOp \/ p = r.post
  BY <1>3, <1>8 DEF RefsInv, ControlInv, Placed
<1>10. \A v \in Worker : v # w => <<p, k>> \notin req[v].dec
  BY <1>3, <1>8, <1>9, OwedOnce DEF RefsInv
<1>11. OwedIsDue'
  <2> SUFFICES ASSUME NEW v \in Worker
               PROVE  /\ req'[v].inc \subseteq Post \X File
                      /\ req'[v].dec \subseteq Post \X File
                      /\ \A y \in Post, j \in File :
                          /\ <<y, j>> \in req'[v].inc => y = req'[v].post /\ Embeds(y, j)'
                          /\ <<y, j>> \in req'[v].dec =>
                                /\ ~Embeds(y, j)'
                                /\ posts[y].status # "absent"
                                /\ posts[y].thread = req'[v].thread
                                /\ req'[v].op \in PostOp => y = req'[v].post
    BY <1>3 DEF OwedIsDue
  <2> QED
    BY <1>5, <1>7 DEF RefsInv, OwedIsDue
<1>12. \A y \in Post, j \in File :
          Holds(y, j)' <=> Holds(y, j) /\ ~(y = p /\ j = k)
  <2> SUFFICES ASSUME NEW y \in Post, NEW j \in File
               PROVE  Holds(y, j)' <=> Holds(y, j) /\ ~(y = p /\ j = k)
    OBVIOUS
  <2>1. CASE y = p /\ j = k
    BY <2>1, <1>3, <1>5, <1>7, <1>8, <1>10 DEF Holds
  <2>2. CASE ~(y = p /\ j = k)
    <3>1. <<y, j>> # <<p, k>>
      BY <2>2
    <3>2. \A v \in Worker : /\ <<y, j>> \in req'[v].inc <=> <<y, j>> \in req[v].inc
                            /\ <<y, j>> \in req'[v].dec <=> <<y, j>> \in req[v].dec
      BY <3>1, <1>5
    <3> QED
      BY <2>2, <3>2, <1>3, <1>7 DEF Holds
  <2> QED
    BY <2>1, <2>2
<1>13. Holds(p, k)
  BY <1>4 DEF Holds
<1> QED
  BY <1>1, <1>2, <1>3, <1>11, <1>12, <1>13 DEF Yields

LEMMA UploadRefs ==
    ASSUME RefsInv, NEW f \in File, Upload(f)
    PROVE  /\ ControlInv' /\ OwedIsDue'
           /\ \A p \in Post, k \in File : Holds(p, k)' <=> Holds(p, k)
<1>1. UNCHANGED <<posts, threads, pc, req>>
  BY DEF Upload
<1>2. \A p \in Post, k \in File : Embeds(p, k)' <=> Embeds(p, k)
  BY <1>1 DEF Embeds, Released
<1>3. ControlInv'
  BY <1>1 DEF RefsInv, ControlInv, OnlySyncOwes, Placed, Active, Apart, Housed,
     DeletedFlagsAgree, FreshReads, Alive
<1>4. OwedIsDue'
  BY <1>1, <1>2 DEF RefsInv, OwedIsDue
<1> QED
  BY <1>1, <1>2, <1>3, <1>4 DEF Holds

-----------------------------------------------------------------------------
(* The steps that leave the references alone. *)

LEMMA SetPublishedRefs ==
    ASSUME RefsInv, Separate, NEW w \in Worker,
           SetPublished(w)
    PROVE  OwedIsDue' /\ HoldersStay
<1>1. pc[w] = "approve" /\ Continue(w, "reply_stats", req[w])
  BY DEF SetPublished
<1>2. /\ SameDebts /\ \A v \in Worker : req'[v].thread = req[v].thread
      /\ pc'[w] = "reply_stats" /\ \A v \in Worker : v # w => pc'[v] = pc[v]
  BY <1>1, ContinueDebts DEF RefsInv
<1>3. /\ stored' = stored /\ ref_count' = ref_count
      /\ Housed
  BY DEF SetPublished, RefsInv, TypeOK, ControlInv
<1>4. \A p \in Post : /\ posts'[p].status # "absent" <=> posts[p].status # "absent"
                      /\ posts'[p].thread = posts[p].thread
                      /\ posts'[p].is_deleted = posts[p].is_deleted
                      /\ posts'[p].content = posts[p].content
  BY DEF SetPublished, RefsInv, ControlInv, TypeOK, PostRow, PostStatus, FreshReads, Placed, Active
<1>5. \A t \in Thread : threads'[t].status = threads[t].status
  BY DEF SetPublished
<1>6. SameEmbeds
  BY <1>1, <1>2, <1>3, <1>4, <1>5, EmbedsUnmoved
<1>7. SamePlaces
  BY <1>4 DEF SamePlaces
<1> QED
  BY <1>2, <1>3, <1>6, <1>7, QuietKeeps DEF RefsInv

LEMMA UpdateReplyStatsRefs ==
    ASSUME RefsInv, Separate, NEW w \in Worker,
           UpdateReplyStats(w)
    PROVE  OwedIsDue' /\ HoldersStay
<1>1. pc[w] = "reply_stats" /\ Continue(w, "post_count", req[w])
  BY DEF UpdateReplyStats
<1>2. /\ SameDebts /\ \A v \in Worker : req'[v].thread = req[v].thread
      /\ pc'[w] = "post_count" /\ \A v \in Worker : v # w => pc'[v] = pc[v]
  BY <1>1, ContinueDebts DEF RefsInv
<1>3. /\ stored' = stored /\ ref_count' = ref_count
      /\ Housed
  BY DEF UpdateReplyStats, RefsInv, TypeOK, ControlInv
<1>4. \A p \in Post : /\ posts'[p].status # "absent" <=> posts[p].status # "absent"
                      /\ posts'[p].thread = posts[p].thread
                      /\ posts'[p].is_deleted = posts[p].is_deleted
                      /\ posts'[p].content = posts[p].content
  BY DEF UpdateReplyStats
<1>5. \A t \in Thread : threads'[t].status = threads[t].status
  BY DEF UpdateReplyStats, RefsInv, TypeOK, ThreadRow
<1>6. SameEmbeds
  BY <1>1, <1>2, <1>3, <1>4, <1>5, EmbedsUnmoved
<1>7. SamePlaces
  BY <1>4 DEF SamePlaces
<1> QED
  BY <1>2, <1>3, <1>6, <1>7, QuietKeeps DEF RefsInv

LEMMA CheckFirstPostRefs ==
    ASSUME RefsInv, Separate, NEW w \in Worker,
           CheckFirstPost(w)
    PROVE  OwedIsDue' /\ HoldersStay
<1>1. PICK label \in {"create", "compensate"} :
          pc[w] = "first_post" /\ Continue(w, label, req[w]) /\ UNCHANGED Table
  BY DEF CheckFirstPost
<1>2. /\ SameDebts /\ \A v \in Worker : req'[v].thread = req[v].thread
      /\ pc'[w] = label /\ \A v \in Worker : v # w => pc'[v] = pc[v]
  BY <1>1, ContinueDebts DEF RefsInv
<1>3. SameEmbeds
  BY <1>1, <1>2, EmbedsUnmoved DEF Table, RefsInv, ControlInv
<1> QED
  BY <1>1, <1>2, <1>3, QuietKeeps DEF RefsInv, SamePlaces, Table, TypeOK

LEMMA RefusePostRefs ==
    ASSUME RefsInv, Separate, NEW w \in Worker,
           RefusePost(w)
    PROVE  OwedIsDue' /\ HoldersStay
<1>1. /\ pc[w] = "create" /\ UNCHANGED Table
      /\ Continue(w, "compensate", req[w]) \/ Finish(w)
      /\ req[w].inc = {} /\ req[w].dec = {}
  BY DEF RefusePost, RefsInv, ControlInv, OnlySyncOwes
<1>2. /\ SameDebts /\ pc'[w] \in {"idle", "compensate"}
      /\ \A v \in Worker : v # w => /\ pc'[v] = pc[v]
                                    /\ req'[v].thread = req[v].thread
  BY <1>1, ContinueDebts, FinishDebts DEF RefsInv
<1>3. SameEmbeds
  BY <1>1, <1>2, EmbedsUnmoved DEF Table, RefsInv, ControlInv
<1> QED
  BY <1>1, <1>2, <1>3, QuietKeeps DEF RefsInv, SamePlaces, Table, TypeOK

LEMMA FinishSyncRefs ==
    ASSUME RefsInv, Separate, NEW w \in Worker,
           FinishSync(w)
    PROVE  OwedIsDue' /\ HoldersStay
<1>1. /\ pc[w] = "sync" /\ UNCHANGED Table
      /\ Continue(w, "reply_stats", req[w]) \/ Finish(w)
      /\ req[w].inc = {} /\ req[w].dec = {}
  BY DEF FinishSync
<1>2. /\ SameDebts /\ pc'[w] \in {"idle", "reply_stats"}
      /\ \A v \in Worker : v # w => /\ pc'[v] = pc[v]
                                    /\ req'[v].thread = req[v].thread
  BY <1>1, ContinueDebts, FinishDebts DEF RefsInv
<1>3. SameEmbeds
  BY <1>1, <1>2, EmbedsUnmoved DEF Table, RefsInv, ControlInv
<1> QED
  BY <1>1, <1>2, <1>3, QuietKeeps DEF RefsInv, SamePlaces, Table, TypeOK

LEMMA IncrementPostCountRefs ==
    ASSUME RefsInv, Separate, NEW w \in Worker,
           IncrementPostCount(w)
    PROVE  OwedIsDue' /\ HoldersStay
<1>1. /\ pc[w] = "post_count" /\ Finish(w) /\ req[w].inc = {} /\ req[w].dec = {}
      /\ posts' = posts /\ stored' = stored /\ ref_count' = ref_count
  BY DEF IncrementPostCount, RefsInv, ControlInv, OnlySyncOwes
<1>2. /\ SameDebts /\ pc'[w] = "idle"
      /\ \A v \in Worker : v # w => /\ pc'[v] = pc[v]
                                    /\ req'[v].thread = req[v].thread
  BY <1>1, FinishDebts DEF RefsInv
<1>3. SameEmbeds
  BY <1>1, <1>2, EmbedsUnmoved DEF IncrementPostCount, RefsInv, ControlInv
<1> QED
  BY <1>1, <1>2, <1>3, QuietKeeps DEF RefsInv, SamePlaces, TypeOK

LEMMA SetLockedRefs ==
    ASSUME RefsInv, Separate, NEW w \in Worker,
           SetLocked(w)
    PROVE  OwedIsDue' /\ HoldersStay
<1>1. /\ pc[w] = "lock" /\ Finish(w) /\ req[w].inc = {} /\ req[w].dec = {}
      /\ posts' = posts /\ stored' = stored /\ ref_count' = ref_count
  BY DEF SetLocked, RefsInv, ControlInv, OnlySyncOwes
<1>2. /\ SameDebts /\ pc'[w] = "idle"
      /\ \A v \in Worker : v # w => /\ pc'[v] = pc[v]
                                    /\ req'[v].thread = req[v].thread
  BY <1>1, FinishDebts DEF RefsInv
<1>3. SameEmbeds
  <2>1. \A t \in Thread : threads'[t].status = "deleted" <=> threads[t].status = "deleted"
    BY DEF SetLocked, RefsInv, TypeOK, ThreadRow, ControlInv, FreshReads, Alive
  <2> QED
    BY <1>1, <1>2, <2>1, EmbedsUnmoved DEF RefsInv, ControlInv
<1> QED
  BY <1>1, <1>2, <1>3, QuietKeeps DEF RefsInv, SamePlaces, TypeOK

LEMMA CompensateRefs ==
    ASSUME RefsInv, Separate, NEW w \in Worker,
           Compensate(w)
    PROVE  OwedIsDue' /\ HoldersStay
<1>1. /\ pc[w] = "compensate" /\ Finish(w) /\ req[w].inc = {} /\ req[w].dec = {}
      /\ posts' = posts /\ stored' = stored /\ ref_count' = ref_count
  BY DEF Compensate, RefsInv, ControlInv, OnlySyncOwes
<1>2. /\ SameDebts /\ pc'[w] = "idle"
      /\ \A v \in Worker : v # w => /\ pc'[v] = pc[v]
                                    /\ req'[v].thread = req[v].thread
  BY <1>1, FinishDebts DEF RefsInv
<1>3. SameEmbeds
  <2>1. \A t \in Thread : t # req[w].thread => threads'[t].status = threads[t].status
    BY DEF Compensate, RefsInv, TypeOK
  <2>2. \A t \in Thread : t # req[w].thread => (Released(t)' <=> Released(t))
    BY <1>1, <1>2, <2>1, ReleasedSame
  <2>3. \A p \in Post : posts[p].status # "absent" => posts[p].thread # req[w].thread
    BY <1>1 DEF RefsInv, ControlInv, FreshReads
  <2> QED
    BY <1>1, <2>2, <2>3, EmbedsSame DEF SameEmbeds, RefsInv, ControlInv
<1> QED
  BY <1>1, <1>2, <1>3, QuietKeeps DEF RefsInv, SamePlaces, TypeOK

LEMMA MarkThreadDeletedRefs ==
    ASSUME RefsInv, Separate, NEW w \in Worker,
           MarkThreadDeleted(w)
    PROVE  OwedIsDue' /\ HoldersStay
<1>1. /\ pc[w] = "thread_delete" /\ Continue(w, "release", req[w])
      /\ posts' = posts /\ stored' = stored /\ ref_count' = ref_count
  BY DEF MarkThreadDeleted
<1>2. /\ SameDebts /\ \A v \in Worker : req'[v].thread = req[v].thread
      /\ pc'[w] = "release" /\ \A v \in Worker : v # w => pc'[v] = pc[v]
  BY <1>1, ContinueDebts DEF RefsInv
<1>3. SameEmbeds
  <2>1. \A t \in Thread : t # req[w].thread => threads'[t].status = threads[t].status
    BY DEF MarkThreadDeleted, RefsInv, TypeOK
  <2>2. ASSUME NEW t \in Thread, t # req[w].thread
        PROVE  Released(t)' <=> Released(t)
    BY <1>1, <1>2, <2>1, <2>2 DEF Released
  <2>3. PICK t \in Thread : t = req[w].thread
    BY <1>1 DEF RefsInv, ControlInv, Placed, Active
  <2>4. ~Released(t)
    BY <1>1, <2>3 DEF Released, RefsInv, ControlInv, FreshReads, Alive
  <2>5. ~Released(t)'
    BY <1>2, <2>3 DEF Released
  <2>6. \A x \in Thread : Released(x)' <=> Released(x)
    BY <2>2, <2>3, <2>4, <2>5
  <2> QED
    BY <1>1, <2>6, EmbedsSame DEF SameEmbeds, RefsInv, ControlInv
<1> QED
  BY <1>1, <1>2, <1>3, QuietKeeps DEF RefsInv, SamePlaces, TypeOK

(* A request that begins owes nothing and releases nothing yet. *)
LEMMA BeginRefs ==
    ASSUME RefsInv, NEW w \in Worker, NEW label, NEW r,
           Begin(w, label, r), label # "release", r.inc = {}, r.dec = {},
           posts' = posts, stored' = stored, ref_count' = ref_count,
           \A t \in Thread : threads'[t].status = "deleted" <=> threads[t].status = "deleted"
    PROVE  OwedIsDue' /\ HoldersStay
<1>1. /\ SameDebts /\ pc[w] = "idle" /\ pc'[w] = label
      /\ \A v \in Worker : v # w => /\ pc'[v] = pc[v]
                                    /\ req'[v].thread = req[v].thread
  BY BeginDebts DEF RefsInv, ControlInv
<1>2. SameEmbeds
  BY <1>1, EmbedsUnmoved DEF RefsInv, ControlInv
<1> QED
  BY <1>1, <1>2, QuietKeeps DEF RefsInv, SamePlaces, TypeOK

LEMMA ArriveRefs ==
    ASSUME RefsInv, Separate, NEW w \in Worker, Arrive(w)
    PROVE  OwedIsDue' /\ HoldersStay
<1>1. CASE \E t \in Thread : BeginCreate(w, t)
  BY <1>1, BeginRefs DEF BeginCreate, Table, OnThread, NoRequest
<1>2. CASE \E t \in Thread : BeginCreateThread(w, t)
  <2>1. PICK t \in Thread : BeginCreateThread(w, t)
    BY <1>2
  <2>2. \A x \in Thread : threads'[x].status = "deleted" <=> threads[x].status = "deleted"
    BY <2>1 DEF BeginCreateThread, RefsInv, TypeOK, ThreadRow
  <2> QED
    BY <2>1, <2>2, BeginRefs DEF BeginCreateThread, OnThread, NoRequest
<1>3. CASE \E t \in Thread : BeginThreadDelete(w, t)
  BY <1>3, BeginRefs DEF BeginThreadDelete, Table, OnThread, NoRequest
<1>4. CASE \E t \in Thread : \E op \in {"lock", "unlock"} : BeginLock(w, t, op)
  BY <1>4, BeginRefs DEF BeginLock, Table, OnThread, NoRequest
<1>5. CASE \E p \in Post : BeginDelete(w, p)
  BY <1>5, BeginRefs DEF BeginDelete, Table, OnPost, NoRequest
<1>6. CASE \E p \in Post : BeginApprove(w, p)
  BY <1>6, BeginRefs DEF BeginApprove, Table, OnPost, NoRequest
<1>7. CASE \E p \in Post : BeginReject(w, p)
  BY <1>7, BeginRefs DEF BeginReject, Table, OnPost, NoRequest
<1>8. CASE \E p \in Post : \E c \in SUBSET File : BeginEdit(w, p, c)
  BY <1>8, BeginRefs DEF BeginEdit, Table, OnPost, NoRequest
<1> QED
  BY <1>1, <1>2, <1>3, <1>4, <1>5, <1>6, <1>7, <1>8 DEF Arrive

-----------------------------------------------------------------------------
(***************************************************************************)
(* Counts and holders.                                                     *)
(***************************************************************************)

(* A step takes a count above its holders only by losing a decrement, and  *)
(* below them only by losing an increment.                                 *)
CountsKept ==
    /\ "lost_decrement" \notin disturbance /\ NeverOverPublished => NeverOverPublished'
    /\ "lost_increment" \notin disturbance /\ NeverUnderPublished => NeverUnderPublished'

LEMMA StayCounts == ASSUME TypeOK, HoldersStay PROVE CountsKept
<1>1. \A k \in stored : Holders(k)' = Holders(k)
  BY DEF HoldersStay, Holders, TypeOK
<1> QED
  BY <1>1 DEF HoldersStay, CountsKept, NeverOverPublished, NeverUnderPublished

LEMMA FewerCounts ==
    ASSUME TypeOK, "lost_decrement" \in disturbance, UNCHANGED <<stored, ref_count>>,
           \A p \in Post, k \in File : Holds(p, k)' => Holds(p, k)
    PROVE  CountsKept
<1>1. ASSUME NEW k \in stored PROVE Cardinality(Holders(k)') <= Cardinality(Holders(k))
  <2>1. Holders(k)' \subseteq Holders(k)
    BY DEF Holders, TypeOK
  <2> QED
    BY <2>1, HoldersFinite, FS_Subset
<1>2. /\ stored' = stored /\ ref_count' = ref_count
      /\ \A k \in stored : ref_count[k] \in Nat /\ Cardinality(Holders(k)) \in Nat
  BY HoldersFinite, FS_CardinalityType DEF TypeOK
<1>3. \A k \in stored : Cardinality(Holders(k)') \in Nat
  BY PostIsFinite, FS_Subset, FS_CardinalityType DEF Holders
<1> QED
  BY <1>1, <1>2, <1>3 DEF CountsKept, NeverUnderPublished

(* A post that gains k was not among its holders. *)
LEMMA GainCounts ==
    ASSUME TypeOK, NEW p \in Post, NEW k \in File, Gains(p, k),
           IncrementRef(k) \/ ("lost_increment" \in disturbance /\ UNCHANGED ref_count)
    PROVE  CountsKept
<1>1. ASSUME NEW j \in stored, j # k
      PROVE  Holders(j)' = Holders(j) /\ ref_count'[j] = ref_count[j]
  BY <1>1 DEF Gains, Holders, IncrementRef, TypeOK
<1>2. /\ Holders(k)' = Holders(k) \cup {p} /\ p \notin Holders(k)
  BY DEF Gains, Holders
<1>3. /\ Cardinality(Holders(k)') = Cardinality(Holders(k)) + 1
      /\ Cardinality(Holders(k)) \in Nat
  BY <1>2, HoldersFinite, FS_AddElement, FS_CardinalityType
<1>4. k \in stored =>
          \/ ref_count'[k] = ref_count[k] + 1
          \/ "lost_increment" \in disturbance /\ ref_count'[k] = ref_count[k]
  BY DEF IncrementRef, TypeOK
<1>5. stored' = stored /\ stored \subseteq File /\ \A j \in stored : ref_count[j] \in Nat
  BY DEF Gains, TypeOK
<1>6. NeverOverPublished => NeverOverPublished'
  BY <1>1, <1>3, <1>4, <1>5 DEF NeverOverPublished
<1>7. "lost_increment" \notin disturbance /\ NeverUnderPublished => NeverUnderPublished'
  BY <1>1, <1>3, <1>4, <1>5 DEF NeverUnderPublished
<1> QED
  BY <1>6, <1>7 DEF CountsKept

(* A post that yields k was among its holders, so that a count which is    *)
(* not below them is not at its floor.                                     *)
LEMMA YieldCounts ==
    ASSUME TypeOK, NEW p \in Post, NEW k \in File, Yields(p, k),
           DecrementRef(k) \/ ("lost_decrement" \in disturbance /\ UNCHANGED ref_count)
    PROVE  CountsKept
<1>1. ASSUME NEW j \in stored, j # k
      PROVE  Holders(j)' = Holders(j) /\ ref_count'[j] = ref_count[j]
  BY <1>1 DEF Yields, Holders, DecrementRef, TypeOK
<1>2. /\ Holders(k)' = Holders(k) \ {p} /\ p \in Holders(k)
  BY DEF Yields, Holders
<1>3. /\ Cardinality(Holders(k)') = Cardinality(Holders(k)) - 1
      /\ Cardinality(Holders(k)) \in Nat /\ Cardinality(Holders(k)) # 0
  BY <1>2, HoldersFinite, FS_RemoveElement, FS_CardinalityType, FS_EmptySet
<1>4. k \in stored =>
          \/ ref_count'[k] = IF ref_count[k] > 0 THEN ref_count[k] - 1 ELSE ref_count[k]
          \/ "lost_decrement" \in disturbance /\ ref_count'[k] = ref_count[k]
  BY DEF DecrementRef, TypeOK
<1>5. stored' = stored /\ stored \subseteq File /\ \A j \in stored : ref_count[j] \in Nat
  BY DEF Yields, TypeOK
<1>6. "lost_decrement" \notin disturbance /\ NeverOverPublished => NeverOverPublished'
  BY <1>1, <1>3, <1>4, <1>5 DEF NeverOverPublished
<1>7. NeverUnderPublished => NeverUnderPublished'
  BY <1>1, <1>3, <1>4, <1>5 DEF NeverUnderPublished
<1> QED
  BY <1>6, <1>7 DEF CountsKept

(* Whatever is embedded or owed has been uploaded, unless posts may embed  *)
(* URLs of their own making.                                               *)
Uploaded ==
    /\ \A p \in Post : posts[p].status # "absent" => posts[p].content \subseteq stored
    /\ \A w \in Worker : /\ pc[w] = "edit" => req[w].new \subseteq stored
                         /\ req[w].inc \cup req[w].dec \subseteq Post \X stored

(* A file uploaded for the first time has no holders then. *)
LEMMA UploadCounts ==
    ASSUME RefsInv, NEW f \in File, Upload(f)
    PROVE  /\ NeverOverPublished => NeverOverPublished'
           /\ Uploaded /\ NeverUnderPublished => NeverUnderPublished'
<1>1. \A k \in File : Holders(k)' = Holders(k)
  BY UploadRefs DEF Holders
<1>2. /\ stored \subseteq File /\ stored' = stored \cup {f}
      /\ \A k \in stored : ref_count'[k] = ref_count[k]
      /\ f \notin stored => ref_count'[f] = 0
  BY DEF Upload, UpsertStaged, RefsInv, TypeOK
<1>3. Cardinality(Holders(f)) \in Nat
  BY HoldersFinite, FS_CardinalityType
<1>4. NeverOverPublished => NeverOverPublished'
  BY <1>1, <1>2, <1>3 DEF NeverOverPublished
<1>5. Uploaded /\ f \notin stored => Cardinality(Holders(f)) = 0
  <2> SUFFICES ASSUME Uploaded, f \notin stored PROVE Holders(f) = {}
    BY FS_EmptySet
  <2> QED
    BY DEF Holders, Holds, Embeds, Uploaded
<1>6. Uploaded /\ NeverUnderPublished => NeverUnderPublished'
  BY <1>1, <1>2, <1>5 DEF NeverUnderPublished
<1> QED
  BY <1>4, <1>6

-----------------------------------------------------------------------------
(***************************************************************************)
(* The invariants, and what follows from them.                             *)
(***************************************************************************)

LEMMA InitRefsInv == Init => RefsInv
<1> SUFFICES ASSUME Init PROVE RefsInv
  OBVIOUS
<1>1. TypeOK
  BY InitTypeOK
<1>2. ControlInv
  BY DEF Init, ControlInv, OnlySyncOwes, Placed, Active, Apart, Housed,
     DeletedFlagsAgree, FreshReads, NoRequest, NoRow
<1>3. OwedIsDue
  BY DEF Init, OwedIsDue, NoRequest
<1> QED
  BY <1>1, <1>2, <1>3 DEF RefsInv

LEMMA StepRefs ==
    ASSUME RefsInv, Separate, NEW w \in Worker, Step(w), UNCHANGED disturbance
    PROVE  RefsInv' /\ CountsKept
<1>1. TypeOK /\ ControlInv /\ TypeOK'
  BY StepTypeOK DEF RefsInv
<1>2. ControlInv'
  BY <1>1, InsertPostControl, RefusePostControl, UpdateContentControl,
     SoftDeleteControl, SetPublishedControl, SyncIncrementControl,
     SyncDecrementControl, FinishSyncControl, UpdateReplyStatsControl,
     IncrementPostCountControl, CheckFirstPostControl, CompensateControl,
     MarkThreadDeletedControl, ReleaseAttachmentRefsControl, SetLockedControl
  DEF Step
<1>3. CASE SyncIncrement(w)
  BY <1>1, <1>2, <1>3, SyncIncrementRefs, GainCounts DEF RefsInv
<1>4. CASE SyncDecrement(w)
  BY <1>1, <1>2, <1>4, SyncDecrementRefs, YieldCounts DEF RefsInv
<1>5. CASE ReleaseAttachmentRefs(w)
  <2>1. pc[w] = "release" /\ UNCHANGED Table
    BY <1>5 DEF ReleaseAttachmentRefs
  <2>2. CASE "lost_decrement" \in disturbance /\ Finish(w)
    BY <1>1, <1>2, <2>1, <2>2, ReleaseFailsRefs, FewerCounts DEF RefsInv, Table
  <2>3. CASE Continue(w, "sync",
               [req[w] EXCEPT !.dec = {pair \in Post \X File :
                                        /\ pair[1] \in Undeleted(req[w].thread)
                                        /\ pair[2] \in posts[pair[1]].content}])
    BY <1>1, <1>2, <2>1, <2>3, ReleaseRefs, StayCounts DEF RefsInv
  <2> QED
    BY <1>5, <2>2, <2>3 DEF ReleaseAttachmentRefs
<1>6. CASE ~(SyncIncrement(w) \/ SyncDecrement(w) \/ ReleaseAttachmentRefs(w))
  <2>1. OwedIsDue' /\ HoldersStay
    BY <1>1, <1>2, <1>6, InsertPostRefs, RefusePostRefs, UpdateContentRefs,
       SoftDeleteRefs, SetPublishedRefs, FinishSyncRefs, UpdateReplyStatsRefs,
       IncrementPostCountRefs, CheckFirstPostRefs, CompensateRefs,
       MarkThreadDeletedRefs, SetLockedRefs
    DEF Step
  <2> QED
    BY <1>1, <1>2, <2>1, StayCounts DEF RefsInv
<1> QED
  BY <1>3, <1>4, <1>5, <1>6

LEMMA BeginningRefs ==
    ASSUME RefsInv, Separate, NEW w \in Worker, Arrive(w), UNCHANGED disturbance
    PROVE  RefsInv' /\ CountsKept
<1>1. TypeOK /\ ControlInv /\ TypeOK'
  BY ArriveTypeOK DEF RefsInv
<1>2. ControlInv'
  BY <1>1, BeginCreateControl, BeginCreateThreadControl,
     BeginThreadDeleteControl, BeginLockControl, BeginDeleteControl,
     BeginApproveControl, BeginRejectControl, BeginEditControl
  DEF Arrive
<1>3. OwedIsDue' /\ HoldersStay
  BY ArriveRefs
<1> QED
  BY <1>1, <1>2, <1>3, StayCounts DEF RefsInv

(* A crash takes the requests in flight with it, and what they owed: the   *)
(* tables alone are as they should be.                                     *)
LEMMA CrashRefs ==
    ASSUME RefsInv, Crash, UNCHANGED disturbance
    PROVE  RefsInv'
<1>1. TypeOK'
  BY NextTypeOK DEF RefsInv, Next
<1>2. /\ \A w \in Worker : pc'[w] = "idle" /\ req'[w] = NoRequest
      /\ posts' = posts /\ threads' = threads
  BY DEF Crash, Table
<1>3. ControlInv'
  BY <1>2 DEF RefsInv, ControlInv, OnlySyncOwes, Placed, Active, Apart, Housed,
     DeletedFlagsAgree, FreshReads, NoRequest
<1>4. OwedIsDue'
  BY <1>2 DEF OwedIsDue, NoRequest
<1> QED
  BY <1>1, <1>3, <1>4 DEF RefsInv

LEMMA NextRefs ==
    ASSUME RefsInv, Separate, [Next]_<<disturbance, vars>>
    PROVE  /\ RefsInv'
           /\ "crash" \notin disturbance =>
                /\ "lost_decrement" \notin disturbance /\ NeverOverPublished
                        => NeverOverPublished'
                /\ "lost_increment" \notin disturbance /\ Uploaded /\ NeverUnderPublished
                        => NeverUnderPublished'
<1>u. UNCHANGED disturbance
  BY DEF Next
<1>1. CASE \E f \in File : Upload(f)
  <2>1. TypeOK'
    BY <1>u, <1>1, NextTypeOK DEF RefsInv, Next, Work
  <2> QED
    BY <1>1, <2>1, UploadRefs, UploadCounts DEF RefsInv
<1>2. CASE \E w \in Worker : Arrive(w) \/ Step(w)
  BY <1>u, <1>2, BeginningRefs, StepRefs DEF CountsKept
<1>3. CASE Crash
  BY <1>u, <1>3, CrashRefs DEF Crash
<1>4. CASE UNCHANGED vars
  <2>1. TypeOK'
    BY <1>u, <1>4, NextTypeOK DEF RefsInv
  <2>2. ControlInv'
    BY <1>4 DEF vars, RefsInv, ControlInv, OnlySyncOwes, Placed, Active, Apart,
       Housed, DeletedFlagsAgree, FreshReads, Alive
  <2>3. OwedIsDue'
    BY <1>4 DEF vars, RefsInv, OwedIsDue, Embeds, Released
  <2>4. HoldersStay
    BY <1>4 DEF vars, HoldersStay, Holds, Embeds, Released
  <2> QED
    BY <2>1, <2>2, <2>3, <2>4, StayCounts DEF RefsInv, CountsKept
<1> QED
  BY <1>1, <1>2, <1>3, <1>4 DEF Next, Work

LEMMA BeginUploaded ==
    ASSUME TypeOK, OnlySyncOwes, Uploaded, NEW w \in Worker, NEW label, NEW r,
           Begin(w, label, r), r.inc = {}, r.dec = {}, label = "edit" => r.new \subseteq stored,
           posts' = posts, stored' = stored
    PROVE  Uploaded'
<1>1. /\ pc'[w] = label /\ req'[w] = r
      /\ \A v \in Worker : v # w => pc'[v] = pc[v] /\ req'[v] = req[v]
  BY DEF Begin, TypeOK
<1> QED
  BY <1>1 DEF Uploaded

LEMMA NextUploaded ==
    ASSUME RefsInv, Uploaded, "foreign_url" \notin disturbance,
           [Next]_<<disturbance, vars>>
    PROVE  Uploaded'
<1>t. TypeOK /\ OnlySyncOwes /\ stored \subseteq File
  BY DEF RefsInv, ControlInv, TypeOK
<1>1. CASE \E f \in File : Upload(f)
  BY <1>1 DEF Upload, UpsertStaged, Uploaded
<1>2. CASE \E w \in Worker : Arrive(w)
  <2>1. PICK w \in Worker : Arrive(w)
    BY <1>2
  <2>2. CASE \E t \in Thread : \/ BeginCreate(w, t) \/ BeginThreadDelete(w, t)
                               \/ \E op \in {"lock", "unlock"} : BeginLock(w, t, op)
    BY <1>t, <2>2, BeginUploaded
    DEF BeginCreate, BeginThreadDelete, BeginLock, Table, OnThread, NoRequest
  <2>3. CASE \E t \in Thread : BeginCreateThread(w, t)
    BY <1>t, <2>3, BeginUploaded DEF BeginCreateThread, OnThread, NoRequest
  <2>4. CASE \E p \in Post : BeginDelete(w, p)
    BY <1>t, <2>4, BeginUploaded DEF BeginDelete, Table, OnPost, NoRequest
  <2>5. CASE \E p \in Post : BeginApprove(w, p)
    BY <1>t, <2>5, BeginUploaded DEF BeginApprove, Table, OnPost, NoRequest
  <2>6. CASE \E p \in Post : BeginReject(w, p)
    BY <1>t, <2>6, BeginUploaded DEF BeginReject, Table, OnPost, NoRequest
  <2>7. CASE \E p \in Post : \E c \in SUBSET File : BeginEdit(w, p, c)
    BY <1>t, <2>7, BeginUploaded DEF BeginEdit, Table, OnPost, NoRequest, Contents
  <2> QED
    BY <2>1, <2>2, <2>3, <2>4, <2>5, <2>6, <2>7 DEF Arrive
<1>3. ASSUME NEW w \in Worker, Step(w) PROVE Uploaded'
  <2>t. /\ req[w].inc \subseteq Post \X stored /\ req[w].dec \subseteq Post \X stored
        /\ req[w] \in Request
    BY <1>t DEF Uploaded, TypeOK
  <2>1. CASE InsertPost(w)
    BY <1>t, <2>t, <2>1 DEF InsertPost, Contents, Continue, Uploaded, TypeOK, Request
  <2>2. CASE UpdateContent(w)
    BY <1>t, <2>t, <2>2 DEF UpdateContent, Continue, Uploaded, TypeOK, Request, PostRow,
       RefsInv, ControlInv, FreshReads, Placed, Active
  <2>3. CASE SoftDelete(w)
    BY <1>t, <2>t, <2>3 DEF SoftDelete, Continue, Uploaded, TypeOK, Request, PostRow,
       RefsInv, ControlInv, FreshReads, Placed, Active
  <2>4. CASE ReleaseAttachmentRefs(w)
    <3> DEFINE d == {pair \in Post \X File : /\ pair[1] \in Undeleted(req[w].thread)
                                             /\ pair[2] \in posts[pair[1]].content}
    <3>1. d \subseteq Post \X stored
      BY DEF Uploaded, Undeleted
    <3>2. UNCHANGED <<posts, stored>> /\ pc[w] = "release"
      BY <2>4 DEF ReleaseAttachmentRefs, Table
    <3>3. CASE Finish(w)
      BY <1>t, <3>2, <3>3 DEF Finish, NoRequest, Uploaded, TypeOK
    <3>4. CASE Continue(w, "sync", [req[w] EXCEPT !.dec = d])
      <4> HIDE DEF d
      <4>1. /\ req'[w].inc = req[w].inc /\ req'[w].dec = d /\ pc'[w] = "sync"
            /\ \A v \in Worker : v # w => req'[v] = req[v] /\ pc'[v] = pc[v]
        BY <1>t, <2>t, <3>4 DEF Continue, TypeOK, Request
      <4> QED
        BY <2>t, <3>1, <3>2, <4>1 DEF Uploaded
    <3> QED
      BY <2>4, <3>3, <3>4 DEF ReleaseAttachmentRefs
  <2>5. CASE SyncIncrement(w) \/ SyncDecrement(w)
    <3>1. PICK i \in SUBSET req[w].inc, d \in SUBSET req[w].dec :
              Continue(w, "sync", [req[w] EXCEPT !.inc = i, !.dec = d])
      <4>1. CASE SyncIncrement(w)
        <5>1. PICK pair \in req[w].inc :
                  Continue(w, "sync", [req[w] EXCEPT !.inc = @ \ {pair}])
          BY <4>1 DEF SyncIncrement
        <5>2. [req[w] EXCEPT !.inc = @ \ {pair}]
                = [req[w] EXCEPT !.inc = req[w].inc \ {pair}, !.dec = req[w].dec]
          BY <2>t DEF Request
        <5> QED
          BY <5>1, <5>2
      <4>2. CASE SyncDecrement(w)
        <5>1. PICK pair \in req[w].dec :
                  Continue(w, "sync", [req[w] EXCEPT !.dec = @ \ {pair}])
          BY <4>2 DEF SyncDecrement
        <5>2. [req[w] EXCEPT !.dec = @ \ {pair}]
                = [req[w] EXCEPT !.inc = req[w].inc, !.dec = req[w].dec \ {pair}]
          BY <2>t DEF Request
        <5> QED
          BY <5>1, <5>2
      <4> QED
        BY <2>5, <4>1, <4>2
    <3>2. UNCHANGED <<posts, stored>>
      BY <2>5 DEF SyncIncrement, SyncDecrement
    <3>3. /\ req'[w].inc = i /\ req'[w].dec = d /\ pc'[w] = "sync"
          /\ \A v \in Worker : v # w => req'[v] = req[v] /\ pc'[v] = pc[v]
      BY <1>t, <2>t, <3>1 DEF Continue, TypeOK, Request
    <3> QED
      BY <2>t, <3>2, <3>3 DEF Uploaded
  <2>6. CASE SetPublished(w)
    BY <1>t, <2>t, <2>6 DEF SetPublished, Continue, Uploaded, TypeOK, Request, PostRow,
       RefsInv, ControlInv, FreshReads, Placed, Active
  <2>7. CASE \/ RefusePost(w) \/ FinishSync(w) \/ UpdateReplyStats(w)
             \/ IncrementPostCount(w) \/ CheckFirstPost(w) \/ Compensate(w)
             \/ MarkThreadDeleted(w) \/ SetLocked(w)
    <3>1. posts' = posts /\ stored' = stored
      BY <2>7 DEF RefusePost, FinishSync, UpdateReplyStats, IncrementPostCount,
         CheckFirstPost, Compensate, MarkThreadDeleted, SetLocked, Table
    <3>2. \/ Finish(w)
          \/ \E label \in Control \ {"edit"} : Continue(w, label, req[w])
      BY <2>7 DEF RefusePost, FinishSync, UpdateReplyStats, IncrementPostCount,
         CheckFirstPost, Compensate, MarkThreadDeleted, SetLocked, Control
    <3> QED
      BY <1>t, <3>1, <3>2 DEF Finish, Continue, NoRequest, Uploaded, TypeOK
  <2> QED
    BY <1>3, <2>1, <2>2, <2>3, <2>4, <2>5, <2>6, <2>7 DEF Step
<1>4. CASE Crash
  BY <1>4 DEF Crash, Table, NoRequest, Uploaded
<1>5. CASE UNCHANGED vars
  BY <1>5 DEF vars, Uploaded
<1> QED
  BY <1>1, <1>2, <1>3, <1>4, <1>5 DEF Next, Work

RefsAlways == Separate => RefsInv

LEMMA RefsInvariant == Spec => []RefsAlways
<1>1. Init => RefsAlways
  BY InitRefsInv DEF RefsAlways
<1>2. RefsAlways /\ [Next]_<<disturbance, vars>> => RefsAlways'
  BY NextRefs DEF RefsAlways, Separate, Next
<1> QED
  BY <1>1, <1>2, PTL DEF Spec

(* While no two requests share a row, the two columns that mark a thread   *)
(* deleted agree, so that the code may look at either of them: whatever    *)
(* bookkeeping fails, and wherever the process stops between two steps.    *)
THEOREM DeletedFlagsConsistent == Spec => [](Separate => DeletedFlagsAgree)
<1>1. RefsAlways => (Separate => DeletedFlagsAgree)
  BY DEF RefsAlways, RefsInv, ControlInv
<1> QED
  BY <1>1, RefsInvariant, PTL

OnlyIncrementsLost ==
    disturbance \cap {"overlap", "lost_decrement", "crash", "tombstone"} = {}

OnlyDecrementsLost ==
    disturbance \cap {"overlap", "lost_increment", "crash", "foreign_url", "tombstone"} = {}

HideInv == OnlyIncrementsLost => RefsInv /\ NeverOverPublished
LeakInv == OnlyDecrementsLost => RefsInv /\ Uploaded /\ NeverUnderPublished

LEMMA HideInvariant == Spec => []HideInv
<1>1. Init => HideInv
  BY InitRefsInv DEF HideInv, Init, NeverOverPublished
<1>2. HideInv /\ [Next]_<<disturbance, vars>> => HideInv'
  <2> SUFFICES ASSUME HideInv, [Next]_<<disturbance, vars>>, OnlyIncrementsLost
               PROVE  (RefsInv /\ NeverOverPublished)'
    BY DEF HideInv, OnlyIncrementsLost, Next
  <2>1. /\ RefsInv /\ NeverOverPublished /\ Separate
        /\ "crash" \notin disturbance /\ "lost_decrement" \notin disturbance
    BY DEF HideInv, OnlyIncrementsLost, Separate
  <2> QED
    BY <2>1, NextRefs
<1> QED
  BY <1>1, <1>2, PTL DEF Spec

LEMMA LeakInvariant == Spec => []LeakInv
<1>1. Init => LeakInv
  BY InitRefsInv DEF LeakInv, Init, NeverUnderPublished, Uploaded, NoRow, NoRequest
<1>2. LeakInv /\ [Next]_<<disturbance, vars>> => LeakInv'
  <2> SUFFICES ASSUME LeakInv, [Next]_<<disturbance, vars>>, OnlyDecrementsLost
               PROVE  (RefsInv /\ Uploaded /\ NeverUnderPublished)'
    BY DEF LeakInv, OnlyDecrementsLost, Next
  <2>1. /\ RefsInv /\ Uploaded /\ NeverUnderPublished /\ Separate
        /\ "crash" \notin disturbance /\ "lost_increment" \notin disturbance
        /\ "foreign_url" \notin disturbance
    BY DEF LeakInv, OnlyDecrementsLost, Separate
  <2> QED
    BY <2>1, NextRefs, NextUploaded
<1> QED
  BY <1>1, <1>2, PTL DEF Spec

(* Counts that are not above their holders hide what nobody holds; counts  *)
(* that are not below serve what somebody embeds.                          *)
LEMMA HidesGone == ASSUME TypeOK, NeverOverPublished PROVE GoneIsNotServed
<1> SUFFICES ASSUME NEW k \in stored, Holders(k) = {} PROVE ~Public(k)
  BY DEF GoneIsNotServed
<1>1. Cardinality(Holders(k)) = 0
  BY FS_EmptySet
<1> QED
  BY <1>1 DEF Public, NeverOverPublished, TypeOK

LEMMA ServesEmbedded == ASSUME TypeOK, NeverUnderPublished PROVE EmbeddedIsServed
<1> SUFFICES ASSUME NEW k \in stored, NEW p \in Post, Embeds(p, k),
                    \A w \in Worker : <<p, k>> \notin req[w].inc
             PROVE  Public(k)
  BY DEF EmbeddedIsServed
<1>1. p \in Holders(k)
  BY DEF Holders, Holds
<1>2. Cardinality(Holders(k)) \in Nat /\ Cardinality(Holders(k)) # 0
  BY <1>1, HoldersFinite, FS_CardinalityType, FS_EmptySet
<1> QED
  BY <1>2 DEF Public, NeverUnderPublished, TypeOK

(* An increment that fails can only hide: no image is served on behalf of  *)
(* more posts than embed it, and none that no post embeds, for any number  *)
(* of posts, images and requests in flight, even if posts may embed URLs   *)
(* that nobody has uploaded yet (sync_attachment_refs).                    *)
THEOREM IncrementsOnlyHide == Spec => []LostIncrementsOnlyHide
<1>1. HideInv => LostIncrementsOnlyHide
  BY HidesGone DEF HideInv, OnlyIncrementsLost, LostIncrementsOnlyHide, RefsInv
<1> QED
  BY <1>1, HideInvariant, PTL

(* A decrement that fails can only leak: no reference that a post holds is *)
(* missing, and what a post embeds is served (sync_attachment_refs,        *)
(* release_attachment_refs).                                               *)
THEOREM DecrementsOnlyLeak == Spec => []LostDecrementsOnlyLeak
<1>1. LeakInv => LostDecrementsOnlyLeak
  BY ServesEmbedded DEF LeakInv, OnlyDecrementsLost, LostDecrementsOnlyLeak, RefsInv
<1> QED
  BY <1>1, LeakInvariant, PTL

(* Undisturbed, every stored image carries exactly one reference per post  *)
(* that holds it, for any number of posts, images and requests in flight.  *)
THEOREM ReferencesExact == Spec => [](Undisturbed => RefsExact)
<1>1. HideInv /\ LeakInv => (Undisturbed => RefsExact)
  <2> SUFFICES ASSUME HideInv, LeakInv, Undisturbed, NEW k \in stored
               PROVE  ref_count[k] = Cardinality(Holders(k))
    BY DEF RefsExact
  <2>1. TypeOK /\ NeverOverPublished /\ NeverUnderPublished
    BY DEF HideInv, LeakInv, Undisturbed, OnlyIncrementsLost, OnlyDecrementsLost, RefsInv
  <2>2. Cardinality(Holders(k)) \in Nat /\ ref_count[k] \in Nat
    BY <2>1, HoldersFinite, FS_CardinalityType DEF TypeOK
  <2> QED
    BY <2>1, <2>2 DEF NeverOverPublished, NeverUnderPublished
<1> QED
  BY <1>1, HideInvariant, LeakInvariant, PTL

(* Undisturbed, /files/:key serves to everybody exactly what posts embed:  *)
(* what a post embeds is served, and what no post holds is not.            *)
THEOREM ServedExactly == Spec => [](Undisturbed => EmbeddedIsServed /\ GoneIsNotServed)
<1>1. HideInv /\ LeakInv => (Undisturbed => EmbeddedIsServed /\ GoneIsNotServed)
  BY HidesGone, ServesEmbedded
  DEF HideInv, LeakInv, Undisturbed, OnlyIncrementsLost, OnlyDecrementsLost, RefsInv
<1> QED
  BY <1>1, HideInvariant, LeakInvariant, PTL

-----------------------------------------------------------------------------
(***************************************************************************)
(* Exactness of the reply counters.  RepliesExact needs to know what every *)
(* request still has to add or take off and of which post: CountDue says   *)
(* it, and ControlInv that no two requests are about the same post.        *)
(***************************************************************************)

(* Nothing disturbs a counter; references may be lost meanwhile. *)
Counting ==
    disturbance \cap {"overlap", "lost_stats", "crash", "stale_queue", "tombstone"} = {}

CountDue(w) ==
    /\ pc[w] \in {"first_post", "create", "compensate", "edit", "reject",
                  "thread_delete", "release", "lock"} => req[w].delta = 0
    /\ pc[w] = "approve" => /\ req[w].delta = 1
                            /\ posts[req[w].post].status = "pending"
                            /\ ~posts[req[w].post].is_deleted
    /\ pc[w] = "delete" => /\ ~posts[req[w].post].is_deleted
                           /\ req[w].delta = IF posts[req[w].post].status = "pending"
                                             THEN 0 ELSE -1
    /\ pc[w] = "reject" => posts[req[w].post].status = "pending"
    /\ pc[w] \in {"sync", "reply_stats"} /\ req[w].delta = 1 =>
          /\ req[w].post \in Post
          /\ posts[req[w].post].status = "published"
          /\ ~posts[req[w].post].is_deleted
    /\ pc[w] \in {"sync", "reply_stats"} /\ req[w].delta = -1 =>
          req[w].post \in Post /\ posts[req[w].post].is_deleted

CountedIn(t) == {p \in Post : posts[p].thread = t /\ Counted(p)}

LEMMA CountedFinite == ASSUME NEW t PROVE IsFiniteSet(CountedIn(t))
  BY PostIsFinite, FS_Subset DEF CountedIn

(* Two requests in flight are about different posts. *)
LEMMA PostApart ==
    ASSUME ControlInv, NEW v \in Worker, NEW w \in Worker, v # w, Active(v), Active(w),
           req[w].post \in Post
    PROVE  req[v].post # req[w].post
  BY ConstantsAssumption DEF ControlInv, Placed, Apart

LEMMA OwesMeans ==
    ASSUME NEW w \in Worker, NEW p \in Post, Owes(w, p)
    PROVE  Active(w) /\ req[w].post = p
  BY DEF Owes, Active

(* The counts stay when nothing of them is touched. *)
LEMMA RepliesKept ==
    ASSUME \A t \in Thread : threads[t].reply_count = Cardinality(CountedIn(t)),
           \A t \in Thread : threads'[t].reply_count = threads[t].reply_count,
           \A p \in Post : \/ ~Counted(p) /\ ~Counted(p)'
                           \/ /\ Counted(p) /\ Counted(p)'
                              /\ posts'[p].thread = posts[p].thread
    PROVE  \A t \in Thread : threads'[t].reply_count = Cardinality(CountedIn(t)')
<1> SUFFICES ASSUME NEW t \in Thread PROVE CountedIn(t)' = CountedIn(t)
  OBVIOUS
<1> QED
  BY DEF CountedIn

(* ... which is so when no post changes its status and no request comes to *)
(* owe or ceases to owe a reply.                                           *)
LEMMA NothingCounted ==
    ASSUME \A t \in Thread : threads[t].reply_count = Cardinality(CountedIn(t)),
           \A t \in Thread : threads'[t].reply_count = threads[t].reply_count,
           \A p \in Post : /\ posts'[p].thread = posts[p].thread
                           /\ posts'[p].status = posts[p].status
                           /\ posts'[p].is_deleted = posts[p].is_deleted,
           \A v \in Worker, p \in Post :
               /\ Owes(v, p)' <=> Owes(v, p)
               /\ Owes(v, p) => req'[v].delta = req[v].delta
    PROVE  \A t \in Thread : threads'[t].reply_count = Cardinality(CountedIn(t)')
<1>1. ASSUME NEW p \in Post PROVE Counted(p)' <=> Counted(p)
  <2>1. (\E v \in Worker : Owes(v, p)') <=> (\E v \in Worker : Owes(v, p))
    OBVIOUS
  <2>2. (\E v \in Worker : Owes(v, p)' /\ req'[v].delta = -1)
           <=> (\E v \in Worker : Owes(v, p) /\ req[v].delta = -1)
    OBVIOUS
  <2> QED
    BY <2>1, <2>2 DEF Counted
<1> QED
  BY <1>1, RepliesKept

(* A post a request is about, and whether it is counted. *)
LEMMA CountedAlone ==
    ASSUME ControlInv, NEW w \in Worker, Active(w), NEW p \in Post, req[w].post = p
    PROVE  Counted(p) <=> IF Owes(w, p) THEN req[w].delta = -1
                          ELSE posts[p].status = "published" /\ ~posts[p].is_deleted
<1>1. \A v \in Worker : v # w => ~Owes(v, p)
  BY PostApart, OwesMeans
<1> QED
  BY <1>1 DEF Counted

(* What the steps of requests do to what they owe.                         *)
RepliesState ==
    /\ \A w \in Worker : CountDue(w)
    /\ \A t \in Thread : threads[t].reply_count = Cardinality(CountedIn(t))

CountStays ==
    /\ \A t \in Thread : threads'[t].reply_count = threads[t].reply_count
    /\ \A p \in Post : /\ posts'[p].thread = posts[p].thread
                       /\ posts'[p].status = posts[p].status
                       /\ posts'[p].is_deleted = posts[p].is_deleted

(* A step of w that neither begins nor ends a debt. *)
LEMMA DebtStays ==
    ASSUME TypeOK, ControlInv, RepliesState, CountStays, NEW w \in Worker,
           \A v \in Worker : v # w => pc'[v] = pc[v] /\ req'[v] = req[v],
           \A p \in Post : Owes(w, p)' <=> Owes(w, p),
           \A p \in Post : Owes(w, p) => req'[w].delta = req[w].delta,
           CountDue(w)'
    PROVE  RepliesState'
<1>1. \A v \in Worker, p \in Post :
          /\ Owes(v, p)' <=> Owes(v, p)
          /\ Owes(v, p) => req'[v].delta = req[v].delta
  BY DEF Owes
<1>2. \A t \in Thread : threads'[t].reply_count = Cardinality(CountedIn(t)')
  BY <1>1, NothingCounted DEF RepliesState, CountStays
<1>3. ASSUME NEW v \in Worker, v # w PROVE CountDue(v)'
  <2>1. pc'[v] = pc[v] /\ req'[v] = req[v] /\ CountDue(v)
    BY <1>3 DEF RepliesState
  <2>2. pc[v] \in {"approve", "delete", "reject"} => req[v].post \in Post
    BY DEF ControlInv, FreshReads
  <2> QED
    BY <2>1, <2>2 DEF CountStays, CountDue
<1> QED
  BY <1>2, <1>3 DEF RepliesState

LEMMA UploadReplies ==
    ASSUME TypeOK, RepliesState, NEW k \in File, Upload(k)
    PROVE  RepliesState'
<1>1. UNCHANGED <<posts, threads, pc, req>>
  BY DEF Upload
<1>2. \A t \in Thread : threads'[t].reply_count = Cardinality(CountedIn(t)')
  BY <1>1 DEF RepliesState, CountedIn, Counted, Owes
<1> QED
  BY <1>1, <1>2 DEF RepliesState, CountDue

(* A request that begins owes nothing yet, and takes note of what it will. *)
LEMMA ArriveReplies ==
    ASSUME TypeOK, ControlInv, Counting, RepliesState, NEW w \in Worker, Arrive(w)
    PROVE  RepliesState'
<1> USE DEF Table
<1>t. pc \in [Worker -> Control] /\ req \in [Worker -> Request]
      /\ posts \in [Post -> PostRow] /\ threads \in [Thread -> ThreadRow]
  BY DEF TypeOK
<1>b. ASSUME NEW label, NEW r, Begin(w, label, r),
             label \notin {"sync", "reply_stats"}, CountStays, CountDue(w)'
      PROVE  RepliesState'
  <2>1. /\ \A v \in Worker : v # w => pc'[v] = pc[v] /\ req'[v] = req[v]
        /\ pc[w] = "idle" /\ pc'[w] = label
    BY <1>b, <1>t DEF Begin
  <2>2. \A p \in Post : ~Owes(w, p) /\ ~Owes(w, p)'
    BY <1>b, <2>1 DEF Owes
  <2> QED
    BY <1>b, <2>1, <2>2, DebtStays
<1>r. ASSUME NEW label, NEW r, Begin(w, label, r) PROVE pc'[w] = label /\ req'[w] = r
  BY <1>r, <1>t DEF Begin
<1>s. ASSUME UNCHANGED <<posts, threads>> PROVE CountStays
  BY <1>s DEF CountStays
<1>p. \A op : \A p \in Post : /\ OnPost(op, p).delta = 0 /\ OnPost(op, p).post = p
  BY DEF OnPost, NoRequest
<1>h. \A t, op : OnThread(op, t).delta = 0
  BY DEF OnThread, NoRequest
<1>1. ASSUME NEW t \in Thread, BeginCreate(w, t) PROVE RepliesState'
  <2>1. Begin(w, "create", OnThread("create", t)) /\ CountStays
    BY <1>1, <1>s DEF BeginCreate
  <2>2. CountDue(w)'
    BY <1>h, <1>r, <2>1 DEF CountDue
  <2> QED
    BY <1>b, <2>1, <2>2
<1>2. ASSUME NEW t \in Thread, BeginCreateThread(w, t) PROVE RepliesState'
  <2>1. Begin(w, "first_post", OnThread("create_thread", t))
    BY <1>2 DEF BeginCreateThread
  <2>2. CountStays
    BY <1>2, <1>t DEF BeginCreateThread, CountStays, ThreadRow
  <2>3. CountDue(w)'
    BY <1>h, <1>r, <2>1 DEF CountDue
  <2> QED
    BY <1>b, <2>1, <2>2, <2>3
<1>3. ASSUME NEW t \in Thread, BeginThreadDelete(w, t) PROVE RepliesState'
  <2>1. Begin(w, "thread_delete", OnThread("delete_by_slug", t)) /\ CountStays
    BY <1>3, <1>s DEF BeginThreadDelete
  <2>2. CountDue(w)'
    BY <1>h, <1>r, <2>1 DEF CountDue
  <2> QED
    BY <1>b, <2>1, <2>2
<1>4. ASSUME NEW t \in Thread, NEW op \in {"lock", "unlock"}, BeginLock(w, t, op)
      PROVE  RepliesState'
  <2>1. Begin(w, "lock", OnThread(op, t)) /\ CountStays
    BY <1>4, <1>s DEF BeginLock
  <2>2. CountDue(w)'
    BY <1>h, <1>r, <2>1 DEF CountDue
  <2> QED
    BY <1>b, <2>1, <2>2
<1>5. ASSUME NEW p \in Post, BeginDelete(w, p) PROVE RepliesState'
  <2> DEFINE d == IF posts[p].status = "pending" THEN 0 ELSE -1
             r == [OnPost("delete", p) EXCEPT !.old = posts[p].content, !.delta = d]
  <2>1. Begin(w, "delete", r) /\ CountStays /\ UNCHANGED posts /\ ~posts[p].is_deleted
    BY <1>5, <1>s DEF BeginDelete
  <2>2. r.delta = d /\ r.post = p
    BY DEF OnPost, NoRequest
  <2>3. pc'[w] = "delete" /\ req'[w] = r
    BY <1>r, <2>1
  <2>4. CountDue(w)'
    BY <2>1, <2>2, <2>3 DEF CountDue
  <2> HIDE DEF r
  <2> QED
    BY <1>b, <2>1, <2>4
<1>6. ASSUME NEW p \in Post, BeginApprove(w, p) PROVE RepliesState'
  <2> DEFINE r == [OnPost("approve_post", p) EXCEPT !.delta = 1]
  <2>1. /\ Begin(w, "approve", r) /\ CountStays /\ UNCHANGED posts
        /\ posts[p].status = "pending" /\ ~posts[p].is_deleted
    BY <1>6, <1>s DEF BeginApprove, Counting
  <2>2. r.delta = 1 /\ r.post = p
    BY DEF OnPost, NoRequest
  <2>3. pc'[w] = "approve" /\ req'[w] = r
    BY <1>r, <2>1
  <2>4. CountDue(w)'
    BY <2>1, <2>2, <2>3 DEF CountDue
  <2> HIDE DEF r
  <2> QED
    BY <1>b, <2>1, <2>4
<1>7. ASSUME NEW p \in Post, BeginReject(w, p) PROVE RepliesState'
  <2> DEFINE o == IF posts[p].is_deleted THEN {} ELSE posts[p].content
             r == [OnPost("reject_post", p) EXCEPT !.old = o]
  <2>1. /\ Begin(w, "reject", r) /\ CountStays /\ UNCHANGED posts
        /\ posts[p].status = "pending"
    BY <1>7, <1>s DEF BeginReject
  <2>2. r.delta = 0 /\ r.post = p
    BY DEF OnPost, NoRequest
  <2>3. pc'[w] = "reject" /\ req'[w] = r
    BY <1>r, <2>1
  <2>4. CountDue(w)'
    BY <2>1, <2>2, <2>3 DEF CountDue
  <2> HIDE DEF r
  <2> QED
    BY <1>b, <2>1, <2>4
<1>8. ASSUME NEW p \in Post, NEW c \in SUBSET File, BeginEdit(w, p, c) PROVE RepliesState'
  <2> DEFINE r == [OnPost("edit", p) EXCEPT !.old = posts[p].content, !.new = c]
  <2>1. Begin(w, "edit", r) /\ CountStays
    BY <1>8, <1>s DEF BeginEdit
  <2>2. r.delta = 0
    BY DEF OnPost, NoRequest
  <2>3. pc'[w] = "edit" /\ req'[w] = r
    BY <1>r, <2>1
  <2>4. CountDue(w)'
    BY <2>2, <2>3 DEF CountDue
  <2> HIDE DEF r
  <2> QED
    BY <1>b, <2>1, <2>4
<1> QED
  BY <1>1, <1>2, <1>3, <1>4, <1>5, <1>6, <1>7, <1>8 DEF Arrive

(* Most steps of a request leave what it owes as it is. *)
LEMMA CarryingReplies ==
    ASSUME TypeOK, ControlInv, Counting, RepliesState, NEW w \in Worker,
           \/ RefusePost(w) \/ UpdateContent(w) \/ SyncIncrement(w) \/ SyncDecrement(w)
           \/ FinishSync(w) \/ IncrementPostCount(w) \/ CheckFirstPost(w)
           \/ Compensate(w) \/ MarkThreadDeleted(w) \/ ReleaseAttachmentRefs(w)
           \/ SetLocked(w)
    PROVE  RepliesState'
<1> USE DEF Table
<1>t. pc \in [Worker -> Control] /\ req \in [Worker -> Request]
      /\ posts \in [Post -> PostRow] /\ threads \in [Thread -> ThreadRow]
  BY DEF TypeOK
<1>q. req[w] \in Request
  BY <1>t
<1>d. CountDue(w)
  BY DEF RepliesState
<1>c. ASSUME NEW label, NEW r, Continue(w, label, r)
      PROVE  /\ pc'[w] = label /\ req'[w] = r
             /\ \A v \in Worker : v # w => pc'[v] = pc[v] /\ req'[v] = req[v]
  BY <1>c, <1>t DEF Continue
<1>f. ASSUME Finish(w)
      PROVE  /\ pc'[w] = "idle" /\ req'[w] = NoRequest
             /\ \A v \in Worker : v # w => pc'[v] = pc[v] /\ req'[v] = req[v]
  BY <1>f, <1>t DEF Finish
<1>s. ASSUME UNCHANGED <<posts, threads>> PROVE CountStays
  BY <1>s DEF CountStays
(* A request that owes nothing before and nothing after. *)
<1>n. ASSUME NEW label, NEW r, pc'[w] = label, req'[w] = r,
             \A v \in Worker : v # w => pc'[v] = pc[v] /\ req'[v] = req[v],
             pc[w] \notin {"sync", "reply_stats"} \/ req[w].delta = 0,
             label \notin {"approve", "delete", "reject"},
             label = "idle" \/ r.delta = 0, CountStays
      PROVE  RepliesState'
  <2>1. \A p \in Post : ~Owes(w, p) /\ ~Owes(w, p)'
    BY <1>n DEF Owes
  <2>2. CountDue(w)'
    BY <1>n DEF CountDue
  <2> QED
    BY <1>n, <2>1, <2>2, DebtStays
<1>1. CASE RefusePost(w)
  <2>1. /\ CountStays /\ pc[w] = "create" /\ req[w].delta = 0
        /\ Continue(w, "compensate", req[w]) \/ Finish(w)
    BY <1>1, <1>d, <1>s DEF RefusePost, CountDue
  <2> QED
    BY <1>c, <1>f, <1>n, <2>1
<1>2. CASE UpdateContent(w)
  <2> DEFINE q == req[w]
             r == [q EXCEPT !.inc = {q.post} \X (q.new \ q.old),
                            !.dec = {q.post} \X (q.old \ q.new)]
  <2>1. /\ pc[w] = "edit" /\ req[w].delta = 0
        /\ posts' = [posts EXCEPT ![q.post].content = q.new]
        /\ Continue(w, "sync", r) /\ threads' = threads
    BY <1>2, <1>d DEF UpdateContent, CountDue
  <2>2. r.delta = 0
    BY <1>q, <2>1 DEF Request
  <2>3. CountStays
    BY <1>t, <2>1 DEF CountStays, PostRow
  <2> HIDE DEF r
  <2> QED
    BY <1>c, <1>n, <2>1, <2>2, <2>3
<1>3. CASE SyncIncrement(w) \/ SyncDecrement(w)
  <2>1. PICK r \in Request : /\ Continue(w, "sync", r)
                             /\ r.delta = req[w].delta /\ r.post = req[w].post
    <3>1. CASE SyncIncrement(w)
      <4>1. PICK pair \in req[w].inc : Continue(w, "sync", [req[w] EXCEPT !.inc = @ \ {pair}])
        BY <3>1 DEF SyncIncrement
      <4>2. /\ [req[w] EXCEPT !.inc = @ \ {pair}] \in Request
            /\ [req[w] EXCEPT !.inc = @ \ {pair}].delta = req[w].delta
            /\ [req[w] EXCEPT !.inc = @ \ {pair}].post = req[w].post
        BY <1>q DEF Request
      <4> QED
        BY <4>1, <4>2
    <3>2. CASE SyncDecrement(w)
      <4>1. PICK pair \in req[w].dec : Continue(w, "sync", [req[w] EXCEPT !.dec = @ \ {pair}])
        BY <3>2 DEF SyncDecrement
      <4>2. /\ [req[w] EXCEPT !.dec = @ \ {pair}] \in Request
            /\ [req[w] EXCEPT !.dec = @ \ {pair}].delta = req[w].delta
            /\ [req[w] EXCEPT !.dec = @ \ {pair}].post = req[w].post
        BY <1>q DEF Request
      <4> QED
        BY <4>1, <4>2
    <3> QED
      BY <1>3, <3>1, <3>2
  <2>2. pc[w] = "sync" /\ UNCHANGED <<posts, threads>> /\ CountStays
    BY <1>3, <1>s DEF SyncIncrement, SyncDecrement
  <2>3. /\ pc'[w] = "sync" /\ req'[w] = r
        /\ \A v \in Worker : v # w => pc'[v] = pc[v] /\ req'[v] = req[v]
    BY <1>c, <2>1
  <2>4. \A p \in Post : Owes(w, p)' <=> Owes(w, p)
    BY <2>1, <2>2, <2>3 DEF Owes
  <2>5. CountDue(w)'
    BY <1>d, <2>1, <2>2, <2>3 DEF CountDue
  <2> QED
    BY <2>1, <2>2, <2>3, <2>4, <2>5, DebtStays
<1>4. CASE FinishSync(w)
  <2>1. pc[w] = "sync" /\ UNCHANGED <<posts, threads>> /\ CountStays
    BY <1>4, <1>s DEF FinishSync
  <2>2. CASE req[w].delta = 0
    BY <1>4, <1>f, <1>n, <2>1, <2>2 DEF FinishSync
  <2>3. CASE req[w].delta # 0
    <3>1. /\ pc'[w] = "reply_stats" /\ req'[w] = req[w]
          /\ \A v \in Worker : v # w => pc'[v] = pc[v] /\ req'[v] = req[v]
      BY <1>4, <1>c, <2>3 DEF FinishSync
    <3>2. \A p \in Post : Owes(w, p)' <=> Owes(w, p)
      BY <2>1, <3>1 DEF Owes
    <3>3. CountDue(w)'
      BY <1>d, <2>1, <3>1 DEF CountDue
    <3> QED
      BY <2>1, <3>1, <3>2, <3>3, DebtStays
  <2> QED
    BY <2>2, <2>3
<1>5. CASE IncrementPostCount(w)
  <2>1. pc[w] = "post_count" /\ CountStays /\ Finish(w)
    BY <1>5, <1>s DEF IncrementPostCount
  <2> QED
    BY <1>f, <1>n, <2>1
<1>6. CASE CheckFirstPost(w)
  <2>1. /\ CountStays /\ pc[w] = "first_post" /\ req[w].delta = 0
        /\ Continue(w, "compensate", req[w]) \/ Continue(w, "create", req[w])
    BY <1>6, <1>d, <1>s DEF CheckFirstPost, CountDue
  <2> QED
    BY <1>c, <1>n, <2>1
<1>7. CASE Compensate(w) \/ SetLocked(w)
  <2>1. /\ pc[w] \in {"compensate", "lock"} /\ Finish(w)
    BY <1>7 DEF Compensate, SetLocked
  <2>2. CountStays
    BY <1>7, <1>t DEF Compensate, SetLocked, CountStays, ThreadRow
  <2> QED
    BY <1>f, <1>n, <2>1, <2>2
<1>8. CASE MarkThreadDeleted(w)
  <2>1. pc[w] = "thread_delete" /\ req[w].delta = 0 /\ Continue(w, "release", req[w])
    BY <1>8, <1>d DEF MarkThreadDeleted, CountDue
  <2>2. CountStays
    BY <1>8, <1>t DEF MarkThreadDeleted, CountStays, ThreadRow
  <2> QED
    BY <1>c, <1>n, <2>1, <2>2
<1>9. CASE ReleaseAttachmentRefs(w)
  <2>1. pc[w] = "release" /\ req[w].delta = 0 /\ CountStays
    BY <1>9, <1>d, <1>s DEF ReleaseAttachmentRefs, CountDue
  <2>2. CASE Finish(w)
    BY <1>f, <1>n, <2>1, <2>2
  <2>3. CASE ~Finish(w)
    <3>1. PICK dec : Continue(w, "sync", [req[w] EXCEPT !.dec = dec])
      BY <1>9, <2>3 DEF ReleaseAttachmentRefs
    <3> DEFINE r == [req[w] EXCEPT !.dec = dec]
    <3>2. r.delta = 0
      BY <1>q, <2>1 DEF Request
    <3>3. Continue(w, "sync", r)
      BY <3>1
    <3> HIDE DEF r
    <3> QED
      BY <1>c, <1>n, <2>1, <3>2, <3>3
  <2> QED
    BY <2>2, <2>3
<1> QED
  BY <1>1, <1>2, <1>3, <1>4, <1>5, <1>6, <1>7, <1>8, <1>9

(* A step of w on its own post: the other posts stay, and so do the debts  *)
(* of the other requests.                                                  *)
LEMMA OwnPost ==
    ASSUME TypeOK, ControlInv, RepliesState, NEW w \in Worker, NEW p \in Post,
           \A v \in Worker : v # w => pc'[v] = pc[v] /\ req'[v] = req[v],
           \A x \in Post : x # p => posts'[x] = posts[x],
           \A v \in Worker : v # w /\ Active(v) => req[v].post # p,
           req'[w].post = p, pc[w] \in {"sync", "reply_stats"} => req[w].post = p
    PROVE  /\ \A v \in Worker : v # w => CountDue(v)'
           /\ \A x \in Post : x # p => (Counted(x)' <=> Counted(x))
           /\ \A v \in Worker : v # w => ~Owes(v, p) /\ ~Owes(v, p)'
<1>1. ASSUME NEW v \in Worker, v # w PROVE CountDue(v)'
  <2>1. pc'[v] = pc[v] /\ req'[v] = req[v] /\ CountDue(v)
    BY <1>1 DEF RepliesState
  <2>2. pc[v] \in {"approve", "delete", "reject"} => req[v].post \in Post
    BY DEF ControlInv, FreshReads
  <2>3. Active(v) => req[v].post # p
    BY <1>1
  <2> QED
    BY <2>1, <2>2, <2>3 DEF CountDue, Active
<1>2. ASSUME NEW x \in Post, x # p PROVE Counted(x)' <=> Counted(x)
  <2>1. \A v \in Worker : /\ Owes(v, x)' <=> Owes(v, x)
                          /\ Owes(v, x) => req'[v].delta = req[v].delta
    BY <1>2 DEF Owes
  <2>2. (\E v \in Worker : Owes(v, x)') <=> (\E v \in Worker : Owes(v, x))
    BY <2>1
  <2>3. (\E v \in Worker : Owes(v, x)' /\ req'[v].delta = -1)
           <=> (\E v \in Worker : Owes(v, x) /\ req[v].delta = -1)
    BY <2>1
  <2> QED
    BY <1>2, <2>2, <2>3 DEF Counted
<1>3. \A v \in Worker : v # w => ~Owes(v, p) /\ ~Owes(v, p)'
  BY DEF Owes, Active
<1> QED
  BY <1>1, <1>2, <1>3

LEMMA InsertPostReplies ==
    ASSUME TypeOK, ControlInv, Counting, RepliesState, NEW w \in Worker,
           InsertPost(w)
    PROVE  RepliesState'
<1>t. pc \in [Worker -> Control] /\ req \in [Worker -> Request] /\ posts \in [Post -> PostRow]
  BY DEF TypeOK
<1>d. CountDue(w) /\ pc[w] = "create" /\ req[w].delta = 0
  BY DEF RepliesState, InsertPost, CountDue
<1>1. PICK p \in Post, c \in Contents, s \in {"pending", "published"} :
          /\ posts[p].status = "absent"
          /\ posts' = [posts EXCEPT ![p] =
                  [status |-> s, thread |-> req[w].thread,
                   is_deleted |-> FALSE, content |-> c]]
          /\ Continue(w, "sync",
                  [req[w] EXCEPT !.post = p, !.new = c, !.inc = {p} \X c,
                                 !.delta = IF s = "published" THEN 1 ELSE 0])
  BY DEF InsertPost
<1> DEFINE r == [req[w] EXCEPT !.post = p, !.new = c, !.inc = {p} \X c,
                               !.delta = IF s = "published" THEN 1 ELSE 0]
<1>2. r.post = p /\ r.delta = IF s = "published" THEN 1 ELSE 0
  BY <1>t DEF Request
<1>3. /\ pc'[w] = "sync" /\ req'[w] = r
      /\ \A v \in Worker : v # w => pc'[v] = pc[v] /\ req'[v] = req[v]
  BY <1>1, <1>t DEF Continue
<1> HIDE DEF r
<1>4. /\ posts'[p].status = s /\ ~posts'[p].is_deleted
      /\ \A x \in Post : x # p => posts'[x] = posts[x]
  BY <1>1, <1>t
<1>5. \A v \in Worker : Active(v) => req[v].post # p
  BY <1>1 DEF ControlInv, Placed
<1>6. /\ \A v \in Worker : v # w => CountDue(v)'
      /\ \A x \in Post : x # p => (Counted(x)' <=> Counted(x))
      /\ \A v \in Worker : v # w => ~Owes(v, p) /\ ~Owes(v, p)'
  BY <1>d, <1>2, <1>3, <1>4, <1>5, OwnPost
<1>7. CountDue(w)'
  BY <1>2, <1>3, <1>4 DEF CountDue
<1>8. ~Counted(p)
  <2>1. ~Owes(w, p)
    BY <1>d DEF Owes
  <2> QED
    BY <1>1, <1>6, <2>1 DEF Counted
<1>9. ~Counted(p)'
  <2>1. CASE s = "published"
    BY <1>2, <1>3, <1>6, <2>1 DEF Counted, Owes
  <2>2. CASE s = "pending"
    BY <1>2, <1>3, <1>4, <1>6, <2>2 DEF Counted, Owes
  <2> QED
    BY <2>1, <2>2
<1>10. threads' = threads
  BY DEF InsertPost
<1>11. \A t \in Thread : threads'[t].reply_count = Cardinality(CountedIn(t)')
  BY <1>4, <1>6, <1>8, <1>9, <1>10, RepliesKept DEF RepliesState
<1> QED
  BY <1>6, <1>7, <1>11 DEF RepliesState

LEMMA SoftDeleteReplies ==
    ASSUME TypeOK, ControlInv, Counting, RepliesState, NEW w \in Worker,
           SoftDelete(w)
    PROVE  RepliesState'
<1> DEFINE q == req[w]
           r == [q EXCEPT !.dec = {q.post} \X q.old]
<1>t. pc \in [Worker -> Control] /\ req \in [Worker -> Request] /\ posts \in [Post -> PostRow]
  BY DEF TypeOK
<1>0. PICK p \in Post : p = q.post
  BY DEF SoftDelete, ControlInv, FreshReads
<1>d. CountDue(w) /\ Active(w) /\ pc[w] \in {"delete", "reject"}
  BY DEF RepliesState, SoftDelete, Active
<1>1. /\ posts' = [posts EXCEPT ![q.post].is_deleted = TRUE]
      /\ Continue(w, "sync", r) /\ threads' = threads
  BY DEF SoftDelete
<1>2. r.post = p /\ r.delta = q.delta
  BY <1>t, <1>0 DEF Request
<1>3. /\ pc'[w] = "sync" /\ req'[w] = r
      /\ \A v \in Worker : v # w => pc'[v] = pc[v] /\ req'[v] = req[v]
  BY <1>1, <1>t DEF Continue
<1> HIDE DEF r
<1>4. /\ posts'[p].status = posts[p].status /\ posts'[p].thread = posts[p].thread
      /\ posts'[p].is_deleted
      /\ \A x \in Post : x # p => posts'[x] = posts[x]
  BY <1>0, <1>1, <1>t DEF PostRow
<1>5. \A v \in Worker : v # w /\ Active(v) => req[v].post # p
  BY <1>0, <1>d, PostApart
<1>6. /\ \A v \in Worker : v # w => CountDue(v)'
      /\ \A x \in Post : x # p => (Counted(x)' <=> Counted(x))
      /\ \A v \in Worker : v # w => ~Owes(v, p) /\ ~Owes(v, p)'
  BY <1>0, <1>2, <1>3, <1>4, <1>5, OwnPost
<1>s. posts[p].status \in {"pending", "published"}
  <2>1. posts[p].status # "absent" /\ posts[p].status \in PostStatus
    BY <1>0, <1>d, <1>t DEF ControlInv, Placed, PostRow
  <2> QED
    BY <2>1 DEF PostStatus
<1>7. /\ q.delta = IF pc[w] = "reject" \/ posts[p].status = "pending" THEN 0 ELSE -1
      /\ pc[w] = "delete" => ~posts[p].is_deleted
      /\ pc[w] = "reject" => posts[p].status = "pending"
  BY <1>0, <1>d DEF CountDue
<1>8. CountDue(w)'
  BY <1>2, <1>3, <1>4, <1>7 DEF CountDue
<1>9. Counted(p)' <=> Counted(p)
  <2>0. ~Owes(w, p)
    BY <1>d DEF Owes
  <2>1. CASE q.delta = 0
    <3>1. ~Counted(p)
      BY <1>6, <1>7, <1>d, <2>0, <2>1 DEF Counted
    <3>2. ~Counted(p)'
      BY <1>2, <1>3, <1>4, <1>6, <2>1 DEF Counted, Owes
    <3> QED
      BY <3>1, <3>2
  <2>2. CASE q.delta = -1
    <3>1. Counted(p)
      BY <1>6, <1>7, <1>d, <1>s, <2>0, <2>2 DEF Counted
    <3>2. Owes(w, p)' /\ req'[w].delta = -1
      BY <1>2, <1>3, <2>2 DEF Owes
    <3>3. Counted(p)'
      BY <3>2 DEF Counted
    <3> QED
      BY <3>1, <3>3
  <2> QED
    BY <1>7, <2>1, <2>2
<1>10. \A t \in Thread : threads'[t].reply_count = Cardinality(CountedIn(t)')
  BY <1>1, <1>4, <1>6, <1>9, RepliesKept DEF RepliesState
<1> QED
  BY <1>6, <1>8, <1>10 DEF RepliesState

LEMMA SetPublishedReplies ==
    ASSUME TypeOK, ControlInv, Counting, RepliesState, NEW w \in Worker,
           SetPublished(w)
    PROVE  RepliesState'
<1>t. pc \in [Worker -> Control] /\ req \in [Worker -> Request] /\ posts \in [Post -> PostRow]
  BY DEF TypeOK
<1>0. PICK p \in Post : p = req[w].post
  BY DEF SetPublished, ControlInv, FreshReads
<1>d. /\ Active(w) /\ pc[w] = "approve" /\ req[w].delta = 1
      /\ posts[p].status = "pending" /\ ~posts[p].is_deleted
  BY <1>0 DEF RepliesState, SetPublished, Active, CountDue
<1>1. /\ posts' = [posts EXCEPT ![p].status = "published"]
      /\ Continue(w, "reply_stats", req[w]) /\ threads' = threads
  BY <1>0 DEF SetPublished
<1>3. /\ pc'[w] = "reply_stats" /\ req'[w] = req[w]
      /\ \A v \in Worker : v # w => pc'[v] = pc[v] /\ req'[v] = req[v]
  BY <1>1, <1>t DEF Continue
<1>4. /\ posts'[p].status = "published" /\ ~posts'[p].is_deleted
      /\ \A x \in Post : x # p => posts'[x] = posts[x]
  BY <1>1, <1>d, <1>t DEF PostRow
<1>5. \A v \in Worker : v # w /\ Active(v) => req[v].post # p
  BY <1>0, <1>d, PostApart
<1>6. /\ \A v \in Worker : v # w => CountDue(v)'
      /\ \A x \in Post : x # p => (Counted(x)' <=> Counted(x))
      /\ \A v \in Worker : v # w => ~Owes(v, p) /\ ~Owes(v, p)'
  BY <1>0, <1>3, <1>4, <1>5, OwnPost
<1>7. CountDue(w)'
  BY <1>0, <1>3, <1>4, <1>d DEF CountDue
<1>8. ~Counted(p)
  BY <1>6, <1>d DEF Counted, Owes
<1>9. ~Counted(p)'
  BY <1>0, <1>3, <1>6, <1>d DEF Counted, Owes
<1>10. \A t \in Thread : threads'[t].reply_count = Cardinality(CountedIn(t)')
  BY <1>1, <1>4, <1>6, <1>8, <1>9, RepliesKept DEF RepliesState
<1> QED
  BY <1>6, <1>7, <1>10 DEF RepliesState

(* The one step that changes a reply count pays the debt.                  *)
LEMMA UpdateReplyStatsReplies ==
    ASSUME TypeOK, ControlInv, Counting, RepliesState, NEW w \in Worker,
           UpdateReplyStats(w)
    PROVE  RepliesState'
<1> DEFINE d == req[w].delta
           u == req[w].thread
<1>t. /\ pc \in [Worker -> Control] /\ req \in [Worker -> Request]
      /\ posts \in [Post -> PostRow] /\ threads \in [Thread -> ThreadRow]
  BY DEF TypeOK
<1>q. d \in {-1, 0, 1} /\ req[w] \in Request
  BY <1>t DEF Request
<1>d. CountDue(w) /\ Active(w) /\ pc[w] = "reply_stats"
  BY DEF RepliesState, UpdateReplyStats, Active
<1>1. /\ threads' = [threads EXCEPT ![u].reply_count = @ + d]
      /\ posts' = posts
      /\ Continue(w, "post_count", req[w])
  BY DEF UpdateReplyStats, Counting
<1>u. u \in Thread
  BY <1>d DEF ControlInv, Placed
<1>2. /\ pc'[w] = "post_count" /\ req'[w] = req[w]
      /\ \A v \in Worker : v # w => pc'[v] = pc[v] /\ req'[v] = req[v]
  BY <1>1, <1>t DEF Continue
<1>3. /\ threads'[u].reply_count = threads[u].reply_count + d
      /\ \A t \in Thread : t # u => threads'[t].reply_count = threads[t].reply_count
  BY <1>1, <1>t, <1>u DEF ThreadRow
<1>4. \A v \in Worker : CountDue(v)'
  <2>1. CountDue(w)'
    BY <1>2 DEF CountDue
  <2> QED
    BY <1>1, <1>2, <2>1 DEF RepliesState, CountDue
<1>5. CASE d = 0
  <2>1. CountStays
    BY <1>1, <1>3, <1>5, <1>t, <1>u DEF CountStays, ThreadRow
  <2>2. \A p \in Post : ~Owes(w, p) /\ ~Owes(w, p)'
    BY <1>2, <1>5 DEF Owes
  <2> QED
    BY <1>2, <1>4, <2>1, <2>2, DebtStays
<1>6. CASE d # 0
  <2>1. PICK p \in Post : p = req[w].post
    BY <1>6, <1>d, <1>q DEF CountDue
  <2>2. posts[p].thread = u
    BY <1>d, <2>1 DEF ControlInv, Placed
  <2>3. \A v \in Worker : v # w /\ Active(v) => req[v].post # p
    BY <1>d, <2>1, PostApart
  <2>4. /\ \A x \in Post : x # p => (Counted(x)' <=> Counted(x))
        /\ \A v \in Worker : v # w => ~Owes(v, p) /\ ~Owes(v, p)'
    BY <1>1, <1>2, <2>1, <2>3, OwnPost
  <2>5. Owes(w, p) /\ ~Owes(w, p)'
    BY <1>2, <1>6, <1>d, <2>1 DEF Owes
  <2>6. \A t \in Thread : t # u => CountedIn(t)' = CountedIn(t)
    BY <1>1, <2>2, <2>4 DEF CountedIn
  <2>7. IsFiniteSet(CountedIn(u)) /\ Cardinality(CountedIn(u)) \in Nat
    BY CountedFinite, FS_CardinalityType
  <2>8. threads[u].reply_count = Cardinality(CountedIn(u))
    BY <1>u DEF RepliesState
  <2>9. threads'[u].reply_count = Cardinality(CountedIn(u))'
    <3>1. CASE d = 1
      <4>1. ~Counted(p) /\ Counted(p)'
        BY <1>1, <1>d, <2>1, <2>4, <2>5, <3>1 DEF Counted, CountDue
      <4>2. p \notin CountedIn(u)
        BY <4>1 DEF CountedIn
      <4>3. \A t \in Thread : t = u => CountedIn(t)' = CountedIn(t) \cup {p}
        BY <1>1, <2>2, <2>4, <4>1 DEF CountedIn
      <4>4. Cardinality(CountedIn(u) \cup {p}) = Cardinality(CountedIn(u)) + 1
        BY <2>7, <4>2, FS_AddElement
      <4>5. req'[w].thread = u
        BY <1>2
      <4>6. threads'[u].reply_count = Cardinality(CountedIn(u)) + 1
        BY <1>3, <2>8, <3>1
      <4> QED
        BY <1>u, <4>3, <4>4, <4>5, <4>6
    <3>2. CASE d = -1
      <4>1. Counted(p) /\ ~Counted(p)'
        BY <1>1, <1>d, <2>1, <2>4, <2>5, <3>2 DEF Counted, CountDue
      <4>2. p \in CountedIn(u)
        BY <2>2, <4>1 DEF CountedIn
      <4>3. \A t \in Thread : t = u => CountedIn(t)' = CountedIn(t) \ {p}
        BY <1>1, <2>2, <2>4, <4>1 DEF CountedIn
      <4>4. Cardinality(CountedIn(u) \ {p}) = Cardinality(CountedIn(u)) - 1
        BY <2>7, <4>2, FS_RemoveElement
      <4>5. req'[w].thread = u
        BY <1>2
      <4>6. threads'[u].reply_count = Cardinality(CountedIn(u)) - 1
        BY <1>3, <2>7, <2>8, <3>2
      <4> QED
        BY <1>u, <4>3, <4>4, <4>5, <4>6
    <3> QED
      BY <1>6, <1>q, <3>1, <3>2
  <2>10. \A t \in Thread : threads'[t].reply_count = Cardinality(CountedIn(t)')
    <3>1. ASSUME NEW t \in Thread PROVE threads'[t].reply_count = Cardinality(CountedIn(t)')
      <4>1. CASE t = u
        BY <1>2, <2>9, <4>1
      <4>2. CASE t # u
        BY <1>3, <2>6, <4>2 DEF RepliesState
      <4> QED
        BY <4>1, <4>2
    <3> QED
      BY <3>1
  <2> QED
    BY <1>4, <2>10 DEF RepliesState
<1> QED
  BY <1>5, <1>6

(* Unless requests share a row, a counter's update is lost or the process  *)
(* stops, a thread's reply_count is the number of its published posts that *)
(* are not deleted, but for those a request is just adding or taking off:  *)
(* approving, rejecting, deleting and creating posts in any order neither  *)
(* counts a reply twice nor forgets one.                                   *)
THEOREM RepliesCounted == Spec => [](Counting => RepliesExact)
<1> DEFINE Inv == Counting => RefsInv /\ RepliesState
<1>1. Init => Inv
  <2> SUFFICES ASSUME Init PROVE RepliesState
    BY InitRefsInv
  <2>1. \A w \in Worker : CountDue(w)
    BY DEF Init, CountDue
  <2>2. \A t \in Thread : CountedIn(t) = {}
    BY DEF Init, CountedIn, Counted, Owes, NoRow
  <2> QED
    BY <2>1, <2>2, FS_EmptySet DEF Init, RepliesState
<1>2. Inv /\ [Next]_<<disturbance, vars>> => Inv'
  <2> SUFFICES ASSUME RefsInv, RepliesState, Counting, [Next]_<<disturbance, vars>>
               PROVE  (RefsInv /\ RepliesState)'
    BY DEF Counting, Next
  <2>t. TypeOK /\ ControlInv /\ Separate
    BY DEF RefsInv, Counting, Separate
  <2>0. RefsInv'
    BY <2>t, NextRefs
  <2>1. ASSUME NEW w \in Worker, Step(w) PROVE RepliesState'
    BY <2>t, <2>1, InsertPostReplies, SoftDeleteReplies, SetPublishedReplies,
       UpdateReplyStatsReplies, CarryingReplies DEF Step
  <2>2. ASSUME NEW w \in Worker, Arrive(w) PROVE RepliesState'
    BY <2>t, <2>2, ArriveReplies
  <2>3. ASSUME NEW k \in File, Upload(k) PROVE RepliesState'
    BY <2>t, <2>3, UploadReplies
  <2>4. ASSUME UNCHANGED vars PROVE RepliesState'
    BY <2>4 DEF vars, RepliesState, CountDue, CountedIn, Counted, Owes
  <2>5. ~Crash
    BY DEF Crash, Counting
  <2> QED
    BY <2>0, <2>1, <2>2, <2>3, <2>4, <2>5 DEF Next, Work
<1>3. Inv => (Counting => RepliesExact)
  BY DEF RepliesState, RepliesExact, CountedIn
<1> QED
  BY <1>1, <1>2, <1>3, PTL DEF Spec

=============================================================================
