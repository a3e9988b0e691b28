------------------------------- MODULE ThreadPages -------------------------------
(***************************************************************************)
(* One thread as its page shows it: which posts a reader sees, on which    *)
(* page, which link leads to a post, and which buttons stand beside it.    *)
(*                                                                         *)
(* Sources: PostUseCase (list_by_thread, locate_post, the approval queue), *)
(* the post repository, PermissionChecker, the page's handler and its      *)
(* capability flags.  The requests that write are PostLifecycle's, here    *)
(* one step each: what they interleave with is examined there.             *)
(***************************************************************************)
EXTENDS Naturals, Sequences, FiniteSets

CONSTANTS
    User,
    Guest,          \* a reader who is no user
    Rights,         \* what each user may do in the thread's category
    Trust,          \* 0 (new) to 4 (leader), of each user
    PerPage,        \* the page size of the page and of locate_post, 20
    MaxPosts,       \* bound on the posts of an instance
    Limits          \* values an administrator gives max_posts_per_page

Right == {"post.create", "post.edit_own", "post.delete_own", "thread.edit_any",
          "post.delete_any", "thread.delete_any", "thread.lock", "moderation.warn",
          "moderation.view_reports"}
PostPolicy == {"members", "trusted", "staff_only", "closed", "moderated"}

PageConstants ==
    /\ Guest \notin User
    /\ Rights \in [User -> SUBSET Right] /\ Trust \in [User -> 0..4]
    /\ PerPage \in Nat \ {0} /\ Limits \subseteq Nat \ {0} /\ MaxPosts \in Nat

VARIABLES
    post_policy,
    starter,        \* the thread's author
    locked,
    posts,          \* in the order of their creation
    max_posts       \* max_posts_per_page

pageVars == <<post_policy, starter, locked, posts, max_posts>>

Posts == [author: User, status: {"pending", "published"}, is_deleted: BOOLEAN,
          old: BOOLEAN]     \* old: its author's edit window is over

TypeOK ==
    /\ post_policy \in PostPolicy /\ starter \in User /\ locked \in BOOLEAN
    /\ posts \in Seq(Posts) /\ Len(posts) <= MaxPosts
    /\ max_posts \in Limits

Init ==
    /\ post_policy \in PostPolicy
    /\ starter \in User
    /\ locked = FALSE
    /\ posts = <<>>
    /\ max_posts \in Limits

-----------------------------------------------------------------------------
(* Permissions.                                                            *)

CanCreatePost(u) ==
    /\ post_policy # "closed"
    /\ "post.create" \in Rights[u]
    /\ \/ "moderation.warn" \in Rights[u]
       \/ Trust[u] >= CASE post_policy \in {"members", "moderated"} -> 1
                        [] post_policy = "trusted"    -> 2
                        [] post_policy = "staff_only" -> 4

(* Staff are never held back; in a moderated category the others are, and  *)
(* anywhere those whose text a keyword or the approval setting catches.    *)
ResolvePostStatus(u, caught) ==
    IF "moderation.warn" \notin Rights[u] /\ (caught \/ post_policy = "moderated")
    THEN "pending" ELSE "published"

CanEditPost(u, i) ==
    /\ ~posts[i].is_deleted
    /\ \/ "thread.edit_any" \in Rights[u]
       \/ posts[i].author = u /\ "post.edit_own" \in Rights[u] /\ ~posts[i].old

CanDeletePost(u, i) ==
    /\ ~posts[i].is_deleted
    /\ \/ "post.delete_any" \in Rights[u]
       \/ posts[i].author = u /\ "post.delete_own" \in Rights[u]

CanUpdateTitle(u, old) ==
    \/ "thread.edit_any" \in Rights[u]
    \/ ~locked /\ u = starter /\ ~old

RequireAuthorOrMod(u) == u = starter \/ "thread.delete_any" \in Rights[u]

CanMarkSolved(u) == u = starter \/ "thread.lock" \in Rights[u]

(* The flags of the page.                                                  *)
Holds(r, right) == r \in User /\ right \in Rights[r]

thread_can_edit(r) == Holds(r, "thread.edit_any") \/ (r = starter /\ ~locked)
thread_can_delete(r) == Holds(r, "thread.delete_any") \/ r = starter
thread_can_mark_best_answer(r) == r = starter \/ Holds(r, "thread.lock")
post_can_edit(r, i) ==
    /\ ~posts[i].is_deleted
    /\ \/ Holds(r, "thread.edit_any")
       \/ posts[i].author = r /\ Holds(r, "post.edit_own")
(* Flags that tell a post's author by the thread's.                        *)
post_can_delete_starter(r, i) ==
    /\ ~posts[i].is_deleted
    /\ Holds(r, "post.delete_any") \/ (starter = r /\ Holds(r, "post.delete_own"))

post_can_delete(r, i) ==
    /\ ~posts[i].is_deleted
    /\ Holds(r, "post.delete_any") \/ (posts[i].author = r /\ Holds(r, "post.delete_own"))

-----------------------------------------------------------------------------
(* Reading.                                                                *)

(* Deleted posts stay in the list, as tombstones.                          *)
VisibilityCondition(r, i) ==
    posts[i].status = "published" \/ posts[i].author = r

SizeOf(per_page) == IF per_page < max_posts THEN per_page ELSE max_posts

Listed(r) == {i \in DOMAIN posts : VisibilityCondition(r, i)}

Before(r, i) == {j \in Listed(r) : j < i}

(* LIMIT and OFFSET of list_by_thread.                                     *)
ListByThread(r, page, per_page) ==
    LET size == SizeOf(per_page)
        offset == (page - 1) * size
    IN  {i \in Listed(r) : Cardinality(Before(r, i)) >= offset
                           /\ Cardinality(Before(r, i)) < offset + size}

Total(r) == Cardinality(Listed(r))

PositionInThread(r, i) == Cardinality(Before(r, i))

CanLocate(r, i) ==
    /\ ~posts[i].is_deleted
    /\ posts[i].status = "pending" => posts[i].author = r

LocatePost(r, i) == PositionInThread(r, i) \div SizeOf(PerPage) + 1

(* PaginationCtx: how many pages the page links to.                        *)
TotalPages(r) == (Total(r) + PerPage - 1) \div PerPage

(* The approval queue of a moderator of the category.                      *)
ListPending(u) ==
    {i \in DOMAIN posts : /\ "moderation.view_reports" \in Rights[u]
                          /\ posts[i].status = "pending" /\ ~posts[i].is_deleted}

-----------------------------------------------------------------------------
(* Writing.                                                                *)

CreatePost(u, caught) ==
    /\ ~locked /\ Len(posts) < MaxPosts
    /\ CanCreatePost(u)
    /\ posts' = Append(posts, [author |-> u, status |-> ResolvePostStatus(u, caught),
                               is_deleted |-> FALSE, old |-> FALSE])
    /\ UNCHANGED <<post_policy, starter, locked, max_posts>>

Write(i, field, value) ==
    /\ posts' = [posts EXCEPT ![i][field] = value]
    /\ UNCHANGED <<post_policy, starter, locked, max_posts>>

ApprovePost(u, i) == i \in ListPending(u) /\ Write(i, "status", "published")
RejectPost(u, i) == i \in ListPending(u) /\ Write(i, "is_deleted", TRUE)
DeletePost(u, i) == CanDeletePost(u, i) /\ Write(i, "is_deleted", TRUE)

Age(i) == ~posts[i].old /\ Write(i, "old", TRUE)

Lock(u, lock) ==
    /\ "thread.lock" \in Rights[u]
    /\ locked' = lock
    /\ UNCHANGED <<post_policy, starter, posts, max_posts>>

SetMaxPosts(n) ==
    /\ max_posts' = n
    /\ UNCHANGED <<post_policy, starter, locked, posts>>

Next ==
    \/ \E u \in User :
        \/ \E caught \in BOOLEAN : CreatePost(u, caught)
        \/ \E i \in DOMAIN posts : ApprovePost(u, i) \/ RejectPost(u, i) \/ DeletePost(u, i)
        \/ \E lock \in BOOLEAN : Lock(u, lock)
    \/ \E i \in DOMAIN posts : Age(i)
    \/ \E n \in Limits : SetMaxPosts(n)

Spec == Init /\ [][Next]_pageVars

-----------------------------------------------------------------------------

Readers == User \cup {Guest}

(* A link to a post "land[s] on the page the post actually renders on"     *)
(* (PostUseCase::locate_post), for every reader who can follow it and      *)
(* whatever was deleted, held back or approved before it; and the pages    *)
(* show each listed post once.                                             *)
LinksLand ==
    \A r \in Readers, i \in DOMAIN posts :
        /\ i \in Listed(r) /\ CanLocate(r, i) =>
              i \in ListByThread(r, LocatePost(r, i), PerPage)
        /\ \A p, q \in 1..MaxPosts :
              p # q => i \notin ListByThread(r, p, PerPage) \cap ListByThread(r, q, PerPage)
        /\ ~posts[i].is_deleted /\ posts[i].status = "pending" =>
              \A u \in User : "moderation.view_reports" \in Rights[u] => i \in ListPending(u)

(* The page offers a button to a reader exactly when the request behind it *)
(* is allowed; an author who is merely too late keeps the button, as the   *)
(* comments on the flags say.                                              *)
FlagsMirror ==
    \A r \in Readers :
        /\ thread_can_edit(r) = (r \in User /\ CanUpdateTitle(r, FALSE))
        /\ thread_can_delete(r) = (r \in User /\ RequireAuthorOrMod(r))
        /\ thread_can_mark_best_answer(r) = (r \in User /\ CanMarkSolved(r))
        /\ \A i \in DOMAIN posts :
            /\ post_can_delete(r, i) = (r \in User /\ CanDeletePost(r, i))
            /\ r \in User /\ CanEditPost(r, i) => post_can_edit(r, i)
            /\ post_can_edit(r, i) /\ ~posts[i].old => r \in User /\ CanEditPost(r, i)

(* The pages the page links to hold every listed post.  They do not when   *)
(* max_posts_per_page is below the page's own 20.                          *)
EveryPostOffered ==
    \A r \in Readers : \A i \in Listed(r) :
        \E p \in 1..TotalPages(r) : i \in ListByThread(r, p, PerPage)

=============================================================================
