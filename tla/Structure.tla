------------------------------ MODULE Structure ------------------------------
(***************************************************************************)
(* The structure of a board: categories in two levels, the threads in      *)
(* them, and the tags of threads.  Administrators change the categories    *)
(* while members write: each request reads what it checks statement by     *)
(* statement, and other requests run in between.  A row that others refer  *)
(* to cannot be deleted, nor one be written that refers to none.           *)
(***************************************************************************)
EXTENDS Naturals, FiniteSetsExt, TLC

CONSTANTS
  Admin, Author,     \* requests in flight of administrators and of members
  TagCreator,        \* the members who hold tag.create
  Category, Slug,    \* slugs that are not reserved
  Founding,          \* what there may be at first: slugs of top-level categories
  Topic, Tag,
  MaxTags,           \* MAX_TAGS_PER_THREAD
  StructureWorlds,   \* what requests of a behaviour do
  NoRow, Gone        \* no row yet, and no row any more: identifiers are not used again

CategoryRow == [slug: Slug, parent: Category \cup {NoRow}]
TopicRow == [category: Category, tags: SUBSET Tag, deleted: BOOLEAN, opened: BOOLEAN,
             failed: BOOLEAN]

(* What happens: categories are made, renamed and deleted, or deleted only, *)
(* and given other parents; threads are made and moved, their tags         *)
(* replaced, a first post is refused.  Calls about tags fail (the database *)
(* does, or a tag's name is one the table refuses), so does the deletion   *)
(* of a thread whose first post was refused (a plugin's hook may forbid    *)
(* it), and requests are dropped where they stand.                         *)
StructureConstants ==
  /\ TagCreator \subseteq Author /\ MaxTags \in Nat
  /\ NoRow # Gone /\ \A x \in {NoRow, Gone} : x \notin CategoryRow \cup TopicRow
  /\ \A slugs \in Founding : DOMAIN slugs \subseteq Category
       /\ \A c, d \in DOMAIN slugs : slugs[c] \in Slug /\ (slugs[c] = slugs[d] => c = d)
  /\ \A x \in StructureWorlds :
       x \subseteq {"categories", "delete", "reparent", "moves", "threads", "retag", "refuse",
                       "tag_error", "undo_error", "drop"}

VARIABLES
  structure_world,
  cats,        \* slug and parent of the categories there are
  topics,      \* category, tags, whether deleted, whether it has a post and, for the
               \* properties, whether a call of the request that wrote it failed
  tags,        \* the tags there are
  errand       \* what each request does, and where it stands

structureVars == <<structure_world, cats, topics, tags, errand>>

Worker == Admin \cup Author
Free == [op |-> "none", at |-> "idle", id |-> NoRow, slug |-> NoRow, parent |-> NoRow,
         asked |-> {}, found |-> {}]

Same == "same"   \* a field the request does not send

Errand == [op: {"none", "create", "update", "delete", "move", "thread", "retag"},
           at: {"idle", "slug", "parent", "insert", "write", "children", "threads", "delete",
                "target", "category", "allowed", "resolve", "make", "post", "undo", "attach"},
           id: Category \cup Topic \cup {NoRow}, slug: Slug \cup Tag \cup {NoRow},
           parent: Category \cup {NoRow, Same}, asked: SUBSET Tag, found: SUBSET Tag]

StructureTypeOK ==
  /\ structure_world \in StructureWorlds
  /\ cats \in [Category -> CategoryRow \cup {NoRow, Gone}]
  /\ topics \in [Topic -> TopicRow \cup {NoRow}]
  /\ tags \subseteq Tag
  /\ errand \in [Worker -> Errand]

StructureInit ==
  /\ structure_world \in StructureWorlds
  /\ \E slugs \in Founding :
       cats = [c \in Category |-> IF c \in DOMAIN slugs THEN [slug |-> slugs[c], parent |-> NoRow]
                                 ELSE NoRow]
  /\ topics = [t \in Topic |-> NoRow]
  /\ tags = {}
  /\ errand = [w \in Worker |-> Free]

Written(table) == {x \in DOMAIN table : table[x] \notin {NoRow, Gone}}
SlugTaken(s) == {c \in Written(cats) : cats[c].slug = s}
Children(c) == {x \in Written(cats) : cats[x].parent = c}
Housed(c) == {t \in Written(topics) : topics[t].category = c}

Turn(w, e) == errand' = [errand EXCEPT ![w] = e]
Goto(w, at) == errand' = [errand EXCEPT ![w].at = at]
Done(w) == Turn(w, Free)
At(w, op, at) == errand[w].op = op /\ errand[w].at = at
If(w, ok, at) == IF ok THEN Goto(w, at) ELSE Done(w)

Unwritten == UNCHANGED <<structure_world, cats, topics, tags>>

-----------------------------------------------------------------------------
(* Categories                                                              *)

BeginCreate(w) ==
  /\ errand[w] = Free /\ "categories" \in structure_world
  /\ \E s \in Slug, p \in Category \cup {NoRow} :
       Turn(w, [Free EXCEPT !.op = "create", !.at = "slug", !.slug = s, !.parent = p])
  /\ Unwritten

CheckSlug(w) ==
  /\ At(w, "create", "slug")
  /\ If(w, SlugTaken(errand[w].slug) = {}, IF errand[w].parent = NoRow THEN "insert" ELSE "parent")
  /\ Unwritten

CheckParent(w) ==
  /\ At(w, "create", "parent")
  /\ LET p == errand[w].parent
     IN  If(w, p \in Written(cats) /\ cats[p].parent = NoRow, "insert")
  /\ Unwritten

(* Whether a row may be written with that slug and parent.                 *)
Writable(c, s, p) == SlugTaken(s) \subseteq {c} /\ p \in Written(cats) \cup {NoRow, c}

create_category(w) ==
  /\ At(w, "create", "insert")
  /\ LET s == errand[w].slug
         p == errand[w].parent
         c == CHOOSE x \in Category : cats[x] = NoRow
     IN  /\ \E x \in Category : cats[x] = NoRow
         /\ cats' = IF Writable(c, s, p) THEN [cats EXCEPT ![c] = [slug |-> s, parent |-> p]]
                    ELSE cats
  /\ Done(w)
  /\ UNCHANGED <<structure_world, topics, tags>>

BeginUpdate(w) ==
  /\ errand[w] = Free /\ "categories" \in structure_world
  /\ \E c \in Written(cats), s \in Slug,
        p \in {Same} \cup IF "reparent" \in structure_world THEN Category \cup {NoRow} ELSE {} :
       Turn(w, [Free EXCEPT !.op = "update", !.at = "slug", !.id = c, !.slug = s, !.parent = p])
  /\ Unwritten

CheckOwnSlug(w) ==
  /\ At(w, "update", "slug")
  /\ If(w, SlugTaken(errand[w].slug) \subseteq {errand[w].id}, "write")
  /\ Unwritten

update_category(w) ==
  /\ At(w, "update", "write")
  /\ LET c == errand[w].id
         p == IF errand[w].parent # Same THEN errand[w].parent
              ELSE IF c \in Written(cats) THEN cats[c].parent ELSE NoRow
     IN  cats' = IF c \in Written(cats) /\ Writable(c, errand[w].slug, p)
                 THEN [cats EXCEPT ![c] = [slug |-> errand[w].slug, parent |-> p]] ELSE cats
  /\ Done(w)
  /\ UNCHANGED <<structure_world, topics, tags>>

BeginDelete(w) ==
  /\ errand[w] = Free /\ structure_world \cap {"categories", "delete"} # {}
  /\ \E c \in Written(cats) :
       Turn(w, [Free EXCEPT !.op = "delete", !.at = "children", !.id = c])
  /\ Unwritten

CheckEmpty(w) ==
  /\ errand[w].op = "delete"
  /\ \/ errand[w].at = "children" /\ If(w, Children(errand[w].id) = {}, "threads")
     \/ /\ errand[w].at = "threads"
        /\ If(w, \A t \in Housed(errand[w].id) : topics[t].deleted, "delete")
  /\ Unwritten

delete_categoryOnCheck(w) ==
  /\ At(w, "delete", "delete")
  /\ cats' = [cats EXCEPT ![errand[w].id] = Gone]
  /\ Done(w)
  /\ UNCHANGED <<structure_world, topics, tags>>

delete_category(w) ==
  /\ At(w, "delete", "delete")
  /\ LET c == errand[w].id
     IN  cats' = IF Children(c) \ {c} = {} /\ Housed(c) = {} THEN [cats EXCEPT ![c] = Gone]
                 ELSE cats
  /\ Done(w)
  /\ UNCHANGED <<structure_world, topics, tags>>

BeginMove(w) ==
  /\ errand[w] = Free /\ "moves" \in structure_world
  /\ \E t \in Written(topics), c \in Category :
       /\ ~topics[t].deleted
       /\ Turn(w, [Free EXCEPT !.op = "move", !.at = "target", !.id = t, !.parent = c])
  /\ Unwritten

CheckTarget(w) ==
  /\ At(w, "move", "target")
  /\ If(w, errand[w].parent \in Written(cats), "write")
  /\ Unwritten

move_to(w) ==
  /\ At(w, "move", "write")
  /\ topics' = IF errand[w].parent \in Written(cats)
               THEN [topics EXCEPT ![errand[w].id].category = errand[w].parent] ELSE topics
  /\ Done(w)
  /\ UNCHANGED <<structure_world, cats, tags>>

-----------------------------------------------------------------------------
(* Threads and their tags                                                  *)

BeginThread(w) ==
  /\ errand[w] = Free /\ "threads" \in structure_world
  /\ \E t \in Topic, c \in Category, asked \in SUBSET Tag :
       /\ topics[t] = NoRow /\ \A x \in Author : errand[x].id # t
       /\ Cardinality(asked) <= MaxTags
       /\ Turn(w, [Free EXCEPT !.op = "thread", !.at = "category", !.id = t, !.parent = c,
                               !.asked = asked])
  /\ Unwritten

FindCategory(w) ==
  /\ At(w, "thread", "category")
  /\ If(w, errand[w].parent \in Written(cats), "allowed")
  /\ Unwritten

(* A tag that is not there yet is refused before anything is written.      *)
PrevalidateTags(w) ==
  /\ At(w, "thread", "allowed")
  /\ If(w, w \in TagCreator \/ errand[w].asked \subseteq tags, "insert")
  /\ Unwritten

InsertThread(w) ==
  /\ At(w, "thread", "insert")
  /\ IF errand[w].parent \in Written(cats)
     THEN /\ topics' = [topics EXCEPT ![errand[w].id] =
                          [category |-> errand[w].parent, tags |-> {}, deleted |-> FALSE,
                           opened |-> FALSE, failed |-> FALSE]]
          /\ Goto(w, "resolve")
     ELSE Done(w) /\ UNCHANGED topics
  /\ UNCHANGED <<structure_world, cats, tags>>

Missing(w) == errand[w].asked \ errand[w].found

(* One tag is looked up: one that is there is taken.                       *)
FindTag(w) ==
  /\ errand[w].at = "resolve"
  /\ LET e == errand[w] IN
     \E x \in Missing(w) :
       Turn(w, IF x \in tags THEN [e EXCEPT !.found = e.found \cup {x}]
               ELSE IF w \in TagCreator THEN [e EXCEPT !.at = "make", !.slug = x]
               ELSE IF e.op = "retag" THEN [e EXCEPT !.asked = e.asked \ {x}]
               ELSE Free)
  /\ Unwritten

(* A request ends where it stands: nothing undoes what it has written.     *)
GiveUp(w) ==
  /\ topics' = [t \in Topic |->
                 IF t \in Written(topics) /\ errand[w].op = "thread" /\ t = errand[w].id
                 THEN [topics[t] EXCEPT !.failed = TRUE] ELSE topics[t]]
  /\ Done(w)

(* A tag is inserted, unless another request made it meanwhile.            *)
CreateTag(w) ==
  /\ errand[w].at = "make"
  /\ IF errand[w].slug \in tags
     THEN GiveUp(w) /\ UNCHANGED tags
     ELSE /\ tags' = tags \cup {errand[w].slug}
          /\ errand' = [errand EXCEPT ![w].at = "resolve", ![w].slug = NoRow,
                                      ![w].found = @ \cup {errand[w].slug}]
          /\ UNCHANGED topics
  /\ UNCHANGED <<structure_world, cats>>

(* Any call about tags ends its request when it fails.                     *)
FailTags(w) ==
  /\ errand[w].at \in {"resolve", "make", "attach"} /\ "tag_error" \in structure_world
  /\ GiveUp(w)
  /\ UNCHANGED <<structure_world, cats, tags>>

AssignTags(w) ==
  /\ errand[w].at = "resolve" /\ errand[w].op = "thread" /\ Missing(w) = {}
  /\ topics' = [topics EXCEPT ![errand[w].id].tags = @ \cup errand[w].found]
  /\ Goto(w, "post")
  /\ UNCHANGED <<structure_world, cats, tags>>

CreateFirstPost(w) ==
  /\ errand[w].at = "post"
  /\ \/ topics' = [topics EXCEPT ![errand[w].id].opened = TRUE] /\ Done(w)
     \/ /\ "refuse" \in structure_world \/ topics[errand[w].id].deleted
        /\ Goto(w, "undo") /\ UNCHANGED topics
  /\ UNCHANGED <<structure_world, cats, tags>>

(* Best effort: what the deletion says is not looked at.                   *)
Compensate(w) ==
  /\ errand[w].at = "undo"
  /\ \/ topics' = [topics EXCEPT ![errand[w].id].deleted = TRUE] /\ Done(w)
     \/ "undo_error" \in structure_world /\ GiveUp(w)
  /\ UNCHANGED <<structure_world, cats, tags>>

delete_by_slug(t) ==
  /\ "threads" \in structure_world
  /\ topics[t] # NoRow /\ ~topics[t].deleted
  /\ topics' = [topics EXCEPT ![t].deleted = TRUE]
  /\ UNCHANGED <<structure_world, cats, tags, errand>>

BeginRetag(w) ==
  /\ errand[w] = Free /\ "retag" \in structure_world
  /\ \E t \in Written(topics), asked \in SUBSET Tag :
       /\ ~topics[t].deleted /\ Cardinality(asked) <= MaxTags
       /\ Turn(w, [Free EXCEPT !.op = "retag", !.at = "resolve", !.id = t, !.asked = asked])
  /\ Unwritten

(* replace_thread_tags: two statements.                                    *)
ClearTags(w) ==
  /\ At(w, "retag", "resolve") /\ Missing(w) = {}
  /\ topics' = [topics EXCEPT ![errand[w].id].tags = {}]
  /\ Goto(w, "attach")
  /\ UNCHANGED <<structure_world, cats, tags>>

AttachTags(w) ==
  /\ At(w, "retag", "attach")
  /\ topics' = [topics EXCEPT ![errand[w].id].tags = @ \cup errand[w].found]
  /\ Done(w)
  /\ UNCHANGED <<structure_world, cats, tags>>

(* A client disconnects or the process stops.                              *)
DropRequest(w) ==
  /\ errand[w] # Free /\ "drop" \in structure_world
  /\ GiveUp(w)
  /\ UNCHANGED <<structure_world, cats, tags>>

Administer(w) ==
  \/ BeginCreate(w) \/ CheckSlug(w) \/ CheckParent(w) \/ create_category(w)
  \/ BeginUpdate(w) \/ CheckOwnSlug(w) \/ update_category(w)
  \/ BeginDelete(w) \/ CheckEmpty(w) \/ delete_category(w)
  \/ BeginMove(w) \/ CheckTarget(w) \/ move_to(w)

Compose(w) ==
  \/ BeginThread(w) \/ FindCategory(w) \/ PrevalidateTags(w) \/ InsertThread(w)
  \/ FindTag(w) \/ CreateTag(w) \/ AssignTags(w) \/ CreateFirstPost(w) \/ Compensate(w)
  \/ BeginRetag(w) \/ ClearTags(w) \/ AttachTags(w) \/ FailTags(w)

StructureNext ==
  \/ \E w \in Admin : Administer(w)
  \/ \E w \in Author : Compose(w)
  \/ \E w \in Worker : DropRequest(w)
  \/ \E t \in Topic : delete_by_slug(t)

StructureSpec == StructureInit /\ [][StructureNext]_structureVars

-----------------------------------------------------------------------------

(* However deletions of categories meet requests that write into them,     *)
(* every thread has its category and every subcategory its parent.         *)
Housing ==
  /\ \A t \in Written(topics) : topics[t].category \in Written(cats)
  /\ \A c \in Written(cats) : cats[c].parent \in Written(cats) \cup {NoRow}

(* Categories are two levels deep.                                         *)
TwoLevels ==
  \A c \in Written(cats) : cats[c].parent # NoRow =>
    c # cats[c].parent /\ cats[cats[c].parent].parent = NoRow

(* A thread without a post is deleted once its request is done, unless a   *)
(* call about its tags or its deletion failed, or the request was dropped: *)
(* to refuse a tag or a first post never leaves one, though both are       *)
(* refused by what is read while others make tags and delete threads.      *)
NoEmptyThread ==
  \A t \in Written(topics) : topics[t].opened \/ topics[t].deleted \/ topics[t].failed
    \/ \E w \in Author : errand[w].op = "thread" /\ errand[w].id = t

StructureHolds ==
  Housing /\ ("reparent" \notin structure_world => TwoLevels) /\ NoEmptyThread

=============================================================================
