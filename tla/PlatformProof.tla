------------------------------ MODULE PlatformProof ------------------------------
(***************************************************************************)
(* Proofs about what MCPlatform checks, for any values of the constants:   *)
(* the structure of a board (see Structure), connections and webhooks (see *)
(* Events), the runtime of a script plugin (see ScriptRuntime), the first  *)
(* run (see Setup) and themes (see Themes). Its limits, caches and         *)
(* statistics are the subject of CountersProof.                            *)
(***************************************************************************)
EXTENDS MCPlatform, Integers, Sequences, FiniteSetTheorems, TLAPS

LEMMA StructureRows ==
    /\ TagCreator \subseteq Author /\ NoRow # Gone
    /\ \A r \in CategoryRow \cup TopicRow : r # NoRow /\ r # Gone
  BY PlatformConstants DEF StructureConstants

(* What a request has found out or been given, by its kind and its stage.  *)
Addressed(w) ==
    LET e == errand[w]
    IN  /\ e.op = "none" => e.at = "idle"
        /\ e.op = "create" => /\ e.at \in {"slug", "parent", "insert"}
                              /\ e.slug \in Slug /\ e.parent \in Category \cup {NoRow}
        /\ e.op = "update" => /\ e.at \in {"slug", "write"}
                              /\ e.id \in Category /\ e.slug \in Slug
        /\ e.op = "delete" => e.at \in {"children", "threads", "delete"} /\ e.id \in Category
        /\ e.op = "move" => /\ e.at \in {"target", "write"}
                            /\ e.id \in Written(topics) /\ e.parent \in Category
        /\ e.op = "thread" =>
             /\ e.at \in {"category", "allowed", "insert", "resolve", "make", "post", "undo"}
             /\ e.id \in Topic /\ e.parent \in Category
             /\ e.at \notin {"category", "allowed", "insert"} => e.id \in Written(topics)
        /\ e.op = "retag" => /\ e.at \in {"resolve", "make", "attach"}
                             /\ e.id \in Written(topics)
        /\ e.at = "make" => e.slug \in Tag

StructureTyped == StructureTypeOK /\ \A w \in Worker : Addressed(w)

LEMMA WrittenRows ==
    ASSUME StructureTypeOK
    PROVE  /\ \A c \in Category : c \in Written(cats) <=> cats[c] \in CategoryRow
           /\ \A t \in Topic : t \in Written(topics) <=> topics[t] \in TopicRow
           /\ Written(cats) \subseteq Category /\ Written(topics) \subseteq Topic
  BY StructureRows DEF StructureTypeOK, Written

(* A step of a request leaves the others where they are.                   *)
LEMMA OneTurn ==
    ASSUME StructureTypeOK, NEW w \in Worker, NEW e \in Errand, Turn(w, e)
    PROVE  /\ errand' \in [Worker -> Errand] /\ errand'[w] = e
           /\ \A x \in Worker \ {w} : errand'[x] = errand[x]
  BY DEF StructureTypeOK, Turn

LEMMA FreeTyped == Free \in Errand
  BY DEF Free, Errand

Stage == {"idle", "slug", "parent", "insert", "write", "children", "threads", "delete",
          "target", "category", "allowed", "resolve", "make", "post", "undo", "attach"}

LEMMA OneMove ==
    ASSUME StructureTypeOK, NEW w \in Worker, NEW at \in Stage, Goto(w, at)
    PROVE  /\ errand' \in [Worker -> Errand]
           /\ errand'[w] = [errand[w] EXCEPT !.at = at] /\ errand'[w] \in Errand
           /\ \A x \in Worker \ {w} : errand'[x] = errand[x]
<1>1. errand[w] \in Errand
  BY DEF StructureTypeOK
<1>2. [errand[w] EXCEPT !.at = at] \in Errand
  BY <1>1 DEF Errand, Stage
<1> QED
  BY <1>2 DEF StructureTypeOK, Goto

(* Topics stay, and so do the requests that are about them.                *)
LEMMA OthersAddressed ==
    ASSUME StructureTyped, NEW w \in Worker, StructureTypeOK',
           Written(topics) \subseteq Written(topics)',
           \A x \in Worker \ {w} : errand'[x] = errand[x],
           Addressed(w)'
    PROVE  StructureTyped'
<1>1. ASSUME NEW x \in Worker \ {w} PROVE Addressed(x)'
  BY <1>1 DEF StructureTyped, Addressed
<1> QED
  BY <1>1 DEF StructureTyped, StructureTypeOK

Asking(w) == BeginCreate(w) \/ BeginUpdate(w) \/ BeginDelete(w) \/ BeginMove(w)
                \/ BeginThread(w) \/ BeginRetag(w)
Checking(w) == CheckSlug(w) \/ CheckParent(w) \/ CheckOwnSlug(w) \/ CheckEmpty(w)
                \/ CheckTarget(w) \/ FindCategory(w) \/ PrevalidateTags(w)

(* What a request sets out with.                                           *)
Begun(w, e) ==
    \/ /\ e.op = "create" /\ e.at = "slug" /\ e.asked = {}
       /\ e.slug \in Slug /\ e.parent \in Category \cup {NoRow}
    \/ /\ e.op = "update" /\ e.at = "slug" /\ e.asked = {}
       /\ e.id \in Category /\ e.slug \in Slug
       /\ "reparent" \notin structure_world => e.parent = Same
    \/ e.op = "delete" /\ e.at = "children" /\ e.asked = {} /\ e.id \in Category
    \/ /\ e.op = "move" /\ e.at = "target" /\ e.asked = {}
       /\ e.id \in Written(topics) /\ e.parent \in Category
    \/ /\ e.op = "thread" /\ e.at = "category"
       /\ e.id \in Topic /\ e.parent \in Category
       /\ topics[e.id] = NoRow /\ \A x \in Author : errand[x].id # e.id
    \/ e.op = "retag" /\ e.at = "resolve" /\ e.id \in Written(topics)

LEMMA AskingErrand ==
    ASSUME StructureTyped, NEW w \in Worker, Asking(w)
    PROVE  /\ UNCHANGED <<structure_world, cats, topics, tags>>
           /\ errand[w].op = "none"
           /\ errand' \in [Worker -> Errand] /\ Begun(w, errand'[w])
           /\ \A x \in Worker \ {w} : errand'[x] = errand[x]
<1>t. StructureTypeOK /\ UNCHANGED <<structure_world, cats, topics, tags>> /\ errand[w] = Free
  BY DEF StructureTyped, Asking, Unwritten, BeginCreate, BeginUpdate, BeginDelete, BeginMove,
         BeginThread, BeginRetag
<1>w. Written(cats) \subseteq Category /\ Written(topics) \subseteq Topic
  BY <1>t, WrittenRows
<1>f. Free = [op |-> "none", at |-> "idle", id |-> NoRow, slug |-> NoRow, parent |-> NoRow,
              asked |-> {}, found |-> {}]
  BY DEF Free
<1>1. ASSUME NEW e \in Errand, Turn(w, e), Begun(w, e)
      PROVE  /\ errand' \in [Worker -> Errand] /\ Begun(w, errand'[w])
             /\ \A x \in Worker \ {w} : errand'[x] = errand[x]
  BY <1>1, <1>t, OneTurn
<1>2. CASE BeginCreate(w)
  <2>1. PICK s \in Slug, p \in Category \cup {NoRow} :
          Turn(w, [Free EXCEPT !.op = "create", !.at = "slug", !.slug = s, !.parent = p])
    BY <1>2 DEF BeginCreate
  <2> DEFINE e == [Free EXCEPT !.op = "create", !.at = "slug", !.slug = s, !.parent = p]
  <2>2. e \in Errand /\ e.op = "create" /\ e.at = "slug" /\ e.slug = s /\ e.parent = p
        /\ e.asked = {}
    BY <1>f, <1>w DEF Errand
  <2>3. Turn(w, e)
    BY <2>1
  <2> HIDE DEF e
  <2>4. Begun(w, e)
    BY <2>1, <2>2, <1>w DEF Begun
  <2> QED
    BY <1>t, <1>f, <1>1, <2>2, <2>3, <2>4
<1>3. CASE BeginUpdate(w)
  <2>1. PICK c \in Written(cats), s \in Slug,
             p \in {Same} \cup IF "reparent" \in structure_world THEN Category \cup {NoRow}
                               ELSE {} :
          Turn(w, [Free EXCEPT !.op = "update", !.at = "slug", !.id = c, !.slug = s,
                                   !.parent = p])
    BY <1>3 DEF BeginUpdate
  <2> DEFINE e == [Free EXCEPT !.op = "update", !.at = "slug", !.id = c, !.slug = s,
                               !.parent = p]
  <2>2. e \in Errand /\ e.op = "update" /\ e.at = "slug" /\ e.id = c /\ e.slug = s /\ e.parent = p
        /\ e.asked = {}
    BY <1>f, <1>w DEF Errand
  <2>3. Turn(w, e)
    BY <2>1
  <2> HIDE DEF e
  <2>4. Begun(w, e)
    BY <2>1, <2>2, <1>w DEF Begun
  <2> QED
    BY <1>t, <1>f, <1>1, <2>2, <2>3, <2>4
<1>4. CASE BeginDelete(w)
  <2>1. PICK c \in Written(cats) :
          Turn(w, [Free EXCEPT !.op = "delete", !.at = "children", !.id = c])
    BY <1>4 DEF BeginDelete
  <2> DEFINE e == [Free EXCEPT !.op = "delete", !.at = "children", !.id = c]
  <2>2. e \in Errand /\ e.op = "delete" /\ e.at = "children" /\ e.id = c /\ e.asked = {}
    BY <1>f, <1>w DEF Errand
  <2>3. Turn(w, e)
    BY <2>1
  <2> HIDE DEF e
  <2>4. Begun(w, e)
    BY <2>1, <2>2, <1>w DEF Begun
  <2> QED
    BY <1>t, <1>f, <1>1, <2>2, <2>3, <2>4
<1>5. CASE BeginMove(w)
  <2>1. PICK t \in Written(topics), c \in Category :
          Turn(w, [Free EXCEPT !.op = "move", !.at = "target", !.id = t, !.parent = c])
    BY <1>5 DEF BeginMove
  <2> DEFINE e == [Free EXCEPT !.op = "move", !.at = "target", !.id = t, !.parent = c]
  <2>2. e \in Errand /\ e.op = "move" /\ e.at = "target" /\ e.id = t /\ e.parent = c /\ e.asked = {}
    BY <1>f, <1>w DEF Errand
  <2>3. Turn(w, e)
    BY <2>1
  <2> HIDE DEF e
  <2>4. Begun(w, e)
    BY <2>1, <2>2, <1>w DEF Begun
  <2> QED
    BY <1>t, <1>f, <1>1, <2>2, <2>3, <2>4
<1>6. CASE BeginThread(w)
  <2>1. PICK t \in Topic, c \in Category, wanted \in SUBSET Tag :
          /\ topics[t] = NoRow /\ (\A x \in Author : errand[x].id # t)
          /\ Turn(w, [Free EXCEPT !.op = "thread", !.at = "category", !.id = t, !.parent = c,
                                      !.asked = wanted])
    BY <1>6 DEF BeginThread
  <2> DEFINE e == [Free EXCEPT !.op = "thread", !.at = "category", !.id = t, !.parent = c,
                               !.asked = wanted]
  <2>2. e \in Errand /\ e.op = "thread" /\ e.at = "category" /\ e.id = t /\ e.parent = c
        /\ e.asked = wanted
    BY <1>f, <1>w DEF Errand
  <2>3. Turn(w, e)
    BY <2>1
  <2> HIDE DEF e
  <2>4. Begun(w, e)
    BY <2>1, <2>2, <1>w DEF Begun
  <2> QED
    BY <1>t, <1>f, <1>1, <2>2, <2>3, <2>4
<1>7. CASE BeginRetag(w)
  <2>1. PICK t \in Written(topics), wanted \in SUBSET Tag :
          Turn(w, [Free EXCEPT !.op = "retag", !.at = "resolve", !.id = t, !.asked = wanted])
    BY <1>7 DEF BeginRetag
  <2> DEFINE e == [Free EXCEPT !.op = "retag", !.at = "resolve", !.id = t, !.asked = wanted]
  <2>2. e \in Errand /\ e.op = "retag" /\ e.at = "resolve" /\ e.id = t /\ e.asked = wanted
    BY <1>f, <1>w DEF Errand
  <2>3. Turn(w, e)
    BY <2>1
  <2> HIDE DEF e
  <2>4. Begun(w, e)
    BY <2>1, <2>2, <1>w DEF Begun
  <2> QED
    BY <1>t, <1>f, <1>1, <2>2, <2>3, <2>4
<1> QED
  BY <1>t, <1>f, <1>2, <1>3, <1>4, <1>5, <1>6, <1>7 DEF Asking

LEMMA AskingTyped ==
    ASSUME StructureTyped, NEW w \in Worker, Asking(w)
    PROVE  StructureTyped'
<1>1. StructureTypeOK' /\ Written(topics)' = Written(topics)
  BY AskingErrand DEF StructureTyped, StructureTypeOK, Written
<1>2. Addressed(w)'
  BY AskingErrand, <1>1 DEF Begun, Addressed
<1> QED
  BY <1>1, <1>2, AskingErrand, OthersAddressed

LEMMA DoneTyped ==
    ASSUME StructureTyped, NEW w \in Worker,
           Written(topics) \subseteq Written(topics)', StructureTypeOK', Done(w)
    PROVE  StructureTyped'
<1>1. errand'[w] = Free /\ \A x \in Worker \ {w} : errand'[x] = errand[x]
  BY FreeTyped, OneTurn DEF Done, StructureTyped
<1>2. Free.op = "none" /\ Free.at = "idle"
  BY DEF Free
<1> QED
  BY <1>1, <1>2, OthersAddressed DEF Addressed

(* The stages that follow one another.                                     *)
Follows(from, op) ==
    CASE op = "create" -> {"slug", "parent", "insert"}
      [] op = "update" -> {"slug", "write"}
      [] op = "delete" -> {"children", "threads", "delete"}
      [] op = "move" -> {"target", "write"}
      [] op = "thread" /\ from \in {"category", "allowed", "insert"} ->
           {"category", "allowed", "insert"}
      [] op = "thread" /\ from \notin {"category", "allowed", "insert"} ->
           {"resolve", "post", "undo"}
      [] op = "retag" -> {"resolve", "attach"}
      [] OTHER -> {}

LEMMA GotoTyped ==
    ASSUME StructureTyped, NEW w \in Worker, NEW at \in Stage,
           Written(topics) \subseteq Written(topics)', StructureTypeOK',
           at \in Follows(errand[w].at, errand[w].op), Goto(w, at)
    PROVE  StructureTyped'
<1>1. errand'[w] = [errand[w] EXCEPT !.at = at] /\ errand[w] \in Errand
      /\ \A x \in Worker \ {w} : errand'[x] = errand[x]
  BY OneMove DEF StructureTyped, StructureTypeOK
<1>2. errand'[w].op = errand[w].op /\ errand'[w].at = at /\ errand'[w].id = errand[w].id
      /\ errand'[w].slug = errand[w].slug /\ errand'[w].parent = errand[w].parent
  BY <1>1 DEF Errand
<1>3. errand[w].op \in {"none", "create", "update", "delete", "move", "thread", "retag"}
  BY <1>1 DEF Errand
<1>4. Addressed(w)
  BY DEF StructureTyped
<1>5. Addressed(w)'
  BY <1>2, <1>3, <1>4 DEF Addressed, Follows
<1> QED
  BY <1>1, <1>5, OthersAddressed

LEMMA CheckingTyped ==
    ASSUME StructureTyped, NEW w \in Worker, Checking(w)
    PROVE  StructureTyped'
<1>a. UNCHANGED <<structure_world, cats, topics, tags>> /\ Addressed(w) /\ StructureTypeOK
  BY DEF Checking, Unwritten, StructureTyped, CheckSlug, CheckParent, CheckOwnSlug, CheckEmpty,
         CheckTarget, FindCategory, PrevalidateTags
<1>b. errand[w].op \in {"none", "create", "update", "delete", "move", "thread", "retag"}
  BY <1>a DEF StructureTypeOK, Errand
<1>1. Done(w) \/ \E at \in Stage : at \in Follows(errand[w].at, errand[w].op) /\ Goto(w, at)
  <2>1. CASE CheckSlug(w)
    BY <2>1 DEF CheckSlug, At, If, Follows, Stage
  <2>2. CASE CheckParent(w)
    BY <2>2 DEF CheckParent, At, If, Follows, Stage
  <2>3. CASE CheckOwnSlug(w)
    BY <2>3 DEF CheckOwnSlug, At, If, Follows, Stage
  <2>4. CASE CheckEmpty(w)
    BY <2>4 DEF CheckEmpty, If, Follows, Stage
  <2>5. CASE CheckTarget(w)
    BY <2>5 DEF CheckTarget, At, If, Follows, Stage
  <2>6. CASE FindCategory(w)
    BY <2>6 DEF FindCategory, At, If, Follows, Stage
  <2>7. CASE PrevalidateTags(w)
    BY <2>7 DEF PrevalidateTags, At, If, Follows, Stage
  <2> QED
    BY <2>1, <2>2, <2>3, <2>4, <2>5, <2>6, <2>7 DEF Checking
<1>2. StructureTypeOK' /\ Written(topics)' = Written(topics)
  <2>1. errand' \in [Worker -> Errand]
    BY <1>1, <1>a, FreeTyped, OneTurn, OneMove DEF Done
  <2> QED
    BY <1>a, <2>1 DEF StructureTypeOK, Written
<1> QED
  BY <1>1, <1>2, DoneTyped, GotoTyped

(* A thread whose first post was refused is deleted; a tag is made.        *)
Undo(w) ==
    /\ errand[w].at = "undo"
    /\ topics' = [topics EXCEPT ![errand[w].id].deleted = TRUE] /\ Done(w)
    /\ UNCHANGED <<structure_world, cats, tags>>
MakeTag(w) == CreateTag(w) /\ errand[w].slug \notin tags
Quitting(w) == GiveUp(w) /\ UNCHANGED <<structure_world, cats, tags>>

(* A request that gives up leaves its thread, if there is one, as it is    *)
(* but for the mark that it failed.                                        *)
LEMMA GivenUp ==
    ASSUME StructureTyped, NEW w \in Worker, Quitting(w)
    PROVE  /\ StructureTyped' /\ Done(w) /\ Written(topics)' = Written(topics)
           /\ \A t \in Topic : topics[t] = NoRow => topics'[t] = NoRow
           /\ \A t \in Written(topics) :
                /\ topics'[t].category = topics[t].category
                /\ topics'[t].opened = topics[t].opened
                /\ topics'[t].deleted = topics[t].deleted
                /\ topics[t].failed => topics'[t].failed
                /\ errand[w].op = "thread" /\ errand[w].id = t => topics'[t].failed
<1>a. StructureTypeOK /\ Done(w)
  BY DEF StructureTyped, Quitting, GiveUp
<1> DEFINE Mine(t) == t \in Written(topics) /\ errand[w].op = "thread" /\ t = errand[w].id
<1>1. ASSUME NEW t \in Topic
      PROVE  /\ Mine(t) => topics'[t] = [topics[t] EXCEPT !.failed = TRUE]
             /\ ~Mine(t) => topics'[t] = topics[t]
  BY DEF Quitting, GiveUp
<1>2. ASSUME NEW t \in Written(topics)
      PROVE  /\ t \in Topic /\ topics'[t] \in TopicRow
             /\ topics'[t].category = topics[t].category
             /\ topics'[t].opened = topics[t].opened
             /\ topics'[t].deleted = topics[t].deleted
             /\ topics[t].failed => topics'[t].failed
             /\ errand[w].op = "thread" /\ errand[w].id = t => topics'[t].failed
  <2>1. t \in Topic /\ topics[t] \in TopicRow
    BY <1>a, WrittenRows
  <2> QED
    BY <1>1, <2>1 DEF TopicRow
<1>3. ASSUME NEW t \in Topic, t \notin Written(topics)
      PROVE  topics'[t] = NoRow /\ topics[t] = NoRow
  BY <1>a, <1>1, <1>3, WrittenRows DEF StructureTypeOK
<1>4. topics' \in [Topic -> TopicRow \cup {NoRow}]
  <2>1. \A t \in Topic : topics'[t] \in TopicRow \cup {NoRow}
    BY <1>2, <1>3
  <2>2. topics' = [t \in Topic |-> topics'[t]]
    BY DEF Quitting, GiveUp
  <2> QED
    BY <2>1, <2>2
<1>5. StructureTypeOK'
  BY <1>a, <1>4, FreeTyped, OneTurn DEF StructureTypeOK, Quitting, Done
<1>6. Written(topics)' = Written(topics)
  <2>1. Written(topics)' \subseteq Topic /\ Written(topics) \subseteq Topic
    BY <1>a, <1>4 DEF Written, StructureTypeOK
  <2>2. \A t \in Topic : t \in Written(topics)' <=> topics'[t] \in TopicRow
    BY <1>4, StructureRows DEF Written
  <2>3. \A t \in Topic : t \notin Written(topics) => topics'[t] \notin TopicRow
    BY <1>3, StructureRows
  <2> QED
    BY <1>2, <2>1, <2>2, <2>3
<1>7. StructureTyped'
  BY <1>a, <1>5, <1>6, DoneTyped
<1>8. \A t \in Topic : topics[t] = NoRow => topics'[t] = NoRow
  BY <1>3, <1>2, StructureRows DEF Written
<1> QED
  BY <1>a, <1>2, <1>6, <1>7, <1>8

Writing(w) == create_category(w) \/ update_category(w) \/ delete_category(w) \/ move_to(w)
                \/ InsertThread(w) \/ AssignTags(w) \/ CreateFirstPost(w) \/ Undo(w)
                \/ ClearTags(w) \/ AttachTags(w)

(* Rows are written whole, and never written away but for a category's.    *)
LEMMA WritingRows ==
    ASSUME StructureTyped, NEW w \in Worker, Writing(w)
    PROVE  /\ cats' \in [Category -> CategoryRow \cup {NoRow, Gone}]
           /\ topics' \in [Topic -> TopicRow \cup {NoRow}]
           /\ Written(topics) \subseteq Written(topics)'
           /\ UNCHANGED <<structure_world, tags>>
<1>a. StructureTypeOK /\ Addressed(w) /\ errand[w] \in Errand
  BY DEF StructureTyped, StructureTypeOK
<1>w. /\ \A t \in Topic : t \in Written(topics) <=> topics[t] \in TopicRow
      /\ Written(topics) \subseteq Topic /\ Written(cats) \subseteq Category
      /\ \A c \in Category : c \in Written(cats) <=> cats[c] \in CategoryRow
  BY <1>a, WrittenRows
<1>t. /\ cats \in [Category -> CategoryRow \cup {NoRow, Gone}]
      /\ topics \in [Topic -> TopicRow \cup {NoRow}]
  BY <1>a DEF StructureTypeOK
<1>k. ASSUME topics' \in [Topic -> TopicRow \cup {NoRow}],
             \A t \in Topic : topics[t] \in TopicRow => topics'[t] \in TopicRow
      PROVE  Written(topics) \subseteq Written(topics)'
  BY <1>k, <1>w, <1>t, StructureRows DEF Written
<1>s. UNCHANGED topics => Written(topics) \subseteq Written(topics)'
  BY DEF Written
<1>1. CASE create_category(w)
  <2> DEFINE s == errand[w].slug
             p == errand[w].parent
             c == CHOOSE x \in Category : cats[x] = NoRow
  <2>1. c \in Category
    BY <1>1 DEF create_category
  <2>2. [slug |-> s, parent |-> p] \in CategoryRow
    BY <1>1, <1>a DEF create_category, Addressed, At, CategoryRow
  <2>3. cats' = [cats EXCEPT ![c] = [slug |-> s, parent |-> p]] \/ cats' = cats
    BY <1>1 DEF create_category
  <2> HIDE DEF s, p, c
  <2>4. cats' \in [Category -> CategoryRow \cup {NoRow, Gone}]
    BY <2>1, <2>2, <2>3, <1>t
  <2> QED
    BY <1>1, <2>4, <1>t, <1>s DEF create_category
<1>2. CASE update_category(w)
  <2> DEFINE c == errand[w].id
             p == IF errand[w].parent # Same THEN errand[w].parent
                  ELSE IF c \in Written(cats) THEN cats[c].parent ELSE NoRow
  <2>1. c \in Category /\ errand[w].slug \in Slug
    BY <1>2, <1>a DEF update_category, Addressed, At
  <2>2. p \in Category \cup {NoRow}
    BY <1>a, <1>w, <2>1 DEF Errand, CategoryRow, Same
  <2> HIDE DEF p
  <2>3. [slug |-> errand[w].slug, parent |-> p] \in CategoryRow
    BY <2>1, <2>2 DEF CategoryRow
  <2>4. cats' = [cats EXCEPT ![c] = [slug |-> errand[w].slug, parent |-> p]] \/ cats' = cats
    BY <1>2 DEF update_category, p
  <2>5. cats' \in [Category -> CategoryRow \cup {NoRow, Gone}]
    BY <2>1, <2>3, <2>4, <1>t
  <2> QED
    BY <1>2, <2>5, <1>t, <1>s DEF update_category
<1>3. CASE delete_category(w)
  <2>1. cats' = [cats EXCEPT ![errand[w].id] = Gone] \/ cats' = cats
    BY <1>3 DEF delete_category
  <2>2. errand[w].id \in Category
    BY <1>3, <1>a DEF delete_category, Addressed, At
  <2>3. cats' \in [Category -> CategoryRow \cup {NoRow, Gone}]
    BY <2>1, <2>2, <1>t
  <2> QED
    BY <1>3, <2>3, <1>t, <1>s DEF delete_category
<1> DEFINE t == errand[w].id
<1>4. ASSUME NEW r \in TopicRow, t \in Topic, topics' = [topics EXCEPT ![t] = r]
      PROVE  topics' \in [Topic -> TopicRow \cup {NoRow}]
             /\ Written(topics) \subseteq Written(topics)'
  BY <1>4, <1>t, <1>k
<1>5. CASE move_to(w)
  <2>1. t \in Topic /\ topics[t] \in TopicRow /\ errand[w].parent \in Category
    BY <1>5, <1>a, <1>w DEF move_to, Addressed, At
  <2>2. [topics[t] EXCEPT !.category = errand[w].parent] \in TopicRow
    BY <2>1 DEF TopicRow
  <2>3. \/ topics' = [topics EXCEPT ![t] = [topics[t] EXCEPT !.category = errand[w].parent]]
        \/ topics' = topics
    BY <1>5 DEF move_to
  <2> QED
    BY <1>5, <1>4, <2>1, <2>2, <2>3, <1>t, <1>s DEF move_to
<1>6. CASE InsertThread(w)
  <2> DEFINE r == [category |-> errand[w].parent, tags |-> {}, deleted |-> FALSE,
                   opened |-> FALSE, failed |-> FALSE]
  <2>1. t \in Topic /\ r \in TopicRow
    BY <1>6, <1>a DEF InsertThread, Addressed, At, TopicRow
  <2>2. topics' = [topics EXCEPT ![t] = r] \/ topics' = topics
    BY <1>6 DEF InsertThread
  <2> HIDE DEF r
  <2> QED
    BY <1>6, <1>4, <2>1, <2>2, <1>t, <1>s DEF InsertThread
<1>7. CASE AssignTags(w) \/ AttachTags(w) \/ ClearTags(w)
  <2>1. t \in Topic /\ topics[t] \in TopicRow /\ errand[w].found \in SUBSET Tag
    BY <1>7, <1>a, <1>w DEF AssignTags, AttachTags, ClearTags, Addressed, At, Errand
  <2>2. PICK x \in SUBSET Tag : topics' = [topics EXCEPT ![t] = [topics[t] EXCEPT !.tags = x]]
    <3>1. topics[t].tags \in SUBSET Tag
      BY <2>1 DEF TopicRow
    <3> QED
      BY <1>7, <2>1, <3>1 DEF AssignTags, AttachTags, ClearTags
  <2>3. [topics[t] EXCEPT !.tags = x] \in TopicRow
    BY <2>1 DEF TopicRow
  <2> QED
    BY <1>7, <1>4, <2>1, <2>2, <2>3, <1>t DEF AssignTags, AttachTags, ClearTags
<1>8. CASE CreateFirstPost(w) \/ Undo(w)
  <2>1. t \in Topic /\ topics[t] \in TopicRow
    BY <1>8, <1>a, <1>w DEF CreateFirstPost, Undo, Addressed, Errand
  <2>2. /\ [topics[t] EXCEPT !.opened = TRUE] \in TopicRow
        /\ [topics[t] EXCEPT !.deleted = TRUE] \in TopicRow
    BY <2>1 DEF TopicRow
  <2>3. \/ topics' = [topics EXCEPT ![t] = [topics[t] EXCEPT !.opened = TRUE]]
        \/ topics' = [topics EXCEPT ![t] = [topics[t] EXCEPT !.deleted = TRUE]]
        \/ topics' = topics
    BY <1>8 DEF CreateFirstPost, Undo
  <2> QED
    BY <1>8, <1>4, <2>1, <2>2, <2>3, <1>t, <1>s DEF CreateFirstPost, Undo
<1> QED
  BY <1>1, <1>2, <1>3, <1>5, <1>6, <1>7, <1>8 DEF Writing

LEMMA WritingTyped ==
    ASSUME StructureTyped, NEW w \in Worker, Writing(w)
    PROVE  StructureTyped'
<1>a. StructureTypeOK /\ Addressed(w) /\ errand[w] \in Errand
  BY DEF StructureTyped, StructureTypeOK
<1>1. \/ Done(w)
      \/ \E at \in Stage : at \in Follows(errand[w].at, errand[w].op) /\ Goto(w, at)
      \/ InsertThread(w) /\ errand[w].parent \in Written(cats)
  <2>1. CASE create_category(w) \/ update_category(w) \/ delete_category(w) \/ move_to(w)
    BY <2>1 DEF create_category, update_category, delete_category, move_to
  <2>2. CASE InsertThread(w)
    BY <2>2 DEF InsertThread
  <2>3. CASE AssignTags(w) \/ ClearTags(w) \/ AttachTags(w)
    BY <2>3 DEF AssignTags, ClearTags, AttachTags, At, Follows, Stage
  <2>4. CASE CreateFirstPost(w) \/ Undo(w)
    BY <2>4, <1>a DEF CreateFirstPost, Undo, Follows, Stage, Addressed, Errand
  <2> QED
    BY <2>1, <2>2, <2>3, <2>4 DEF Writing
<1>2. StructureTypeOK'
  <2>1. errand' \in [Worker -> Errand]
    BY <1>1, <1>a, FreeTyped, OneTurn, OneMove DEF Done, InsertThread, Stage
  <2> QED
    BY <1>a, <2>1, WritingRows DEF StructureTypeOK
<1>3. CASE InsertThread(w) /\ errand[w].parent \in Written(cats)
  <2>1. Goto(w, "resolve") /\ errand[w].op = "thread" /\ errand[w].id \in Topic
        /\ errand[w].parent \in Category
    BY <1>3, <1>a DEF InsertThread, At, Addressed
  <2>2. errand'[w] = [errand[w] EXCEPT !.at = "resolve"]
        /\ \A x \in Worker \ {w} : errand'[x] = errand[x]
    BY <2>1, <1>a, OneMove DEF Stage
  <2>3. errand'[w].op = "thread" /\ errand'[w].at = "resolve" /\ errand'[w].id = errand[w].id
        /\ errand'[w].parent = errand[w].parent
    BY <2>1, <2>2, <1>a DEF Errand
  <2>4. errand[w].id \in Written(topics)'
    <3>1. topics'[errand[w].id] = [category |-> errand[w].parent, tags |-> {},
                                   deleted |-> FALSE, opened |-> FALSE,
                                   failed |-> FALSE]
      BY <1>3, <1>a, <2>1 DEF InsertThread, StructureTypeOK
    <3>2. topics'[errand[w].id] \in TopicRow
      BY <2>1, <3>1 DEF TopicRow
    <3> QED
      BY <3>2, <2>1, <1>2, WrittenRows, StructureRows DEF Written, StructureTypeOK
  <2>5. Addressed(w)'
    BY <2>1, <2>3, <2>4 DEF Addressed
  <2> QED
    BY <2>2, <2>5, <1>2, OthersAddressed, WritingRows
<1> QED
  BY <1>1, <1>2, <1>3, DoneTyped, GotoTyped, WritingRows

LEMMA TaggingTyped ==
    ASSUME StructureTyped, NEW w \in Worker, FindTag(w) \/ MakeTag(w)
    PROVE  StructureTyped'
<1>a. StructureTypeOK /\ Addressed(w) /\ errand[w] \in Errand
  BY DEF StructureTyped, StructureTypeOK
<1>b. /\ UNCHANGED <<structure_world, cats, topics>> /\ tags \subseteq tags'
      /\ Written(topics)' = Written(topics)
  BY DEF FindTag, MakeTag, CreateTag, Unwritten, Written
<1>c. errand[w].op \in {"thread", "retag"}
  BY <1>a DEF FindTag, MakeTag, CreateTag, Addressed, Errand
<1>1. tags' \subseteq Tag
  BY <1>a DEF FindTag, MakeTag, CreateTag, Unwritten, StructureTypeOK, Addressed
<1>2. ASSUME NEW e \in Errand, errand' = [errand EXCEPT ![w] = e],
             \/ /\ e.op = errand[w].op /\ e.id = errand[w].id /\ e.parent = errand[w].parent
                /\ e.at \in {"resolve", "make"} /\ (e.at = "make" => e.slug \in Tag)
             \/ e = Free
      PROVE  StructureTyped'
  <2>1. errand' \in [Worker -> Errand] /\ errand'[w] = e
        /\ \A x \in Worker \ {w} : errand'[x] = errand[x]
    BY <1>2, <1>a, OneTurn DEF Turn
  <2>2. StructureTypeOK'
    BY <1>a, <1>b, <1>1, <2>1 DEF StructureTypeOK
  <2>3. CASE e = Free
    BY <1>2, <1>b, <2>2, <2>3, DoneTyped DEF Done, Turn
  <2>4. CASE e # Free
    <3>1. Addressed(w)'
      BY <1>2, <1>a, <1>b, <1>c, <2>1, <2>4 DEF Addressed, FindTag, MakeTag, CreateTag
    <3> QED
      BY <1>b, <2>1, <2>2, <3>1, OthersAddressed
  <2> QED
    BY <2>3, <2>4
<1>3. CASE FindTag(w)
  <2>1. PICK x \in Missing(w) :
          Turn(w, IF x \in tags THEN [errand[w] EXCEPT !.found = errand[w].found \cup {x}]
                  ELSE IF w \in TagCreator THEN [errand[w] EXCEPT !.at = "make", !.slug = x]
                  ELSE IF errand[w].op = "retag"
                    THEN [errand[w] EXCEPT !.asked = errand[w].asked \ {x}]
                  ELSE Free)
    BY <1>3 DEF FindTag
  <2>2. x \in Tag /\ errand[w].at = "resolve"
    BY <1>3, <1>a DEF Missing, Errand, FindTag
  <2>3. CASE x \in tags
    <3> DEFINE e == [errand[w] EXCEPT !.found = errand[w].found \cup {x}]
    <3>1. e \in Errand /\ e.op = errand[w].op /\ e.id = errand[w].id
          /\ e.parent = errand[w].parent /\ e.at = "resolve"
      BY <2>2, <1>a DEF Errand
    <3>2. errand' = [errand EXCEPT ![w] = e]
      BY <2>1, <2>3 DEF Turn
    <3> HIDE DEF e
    <3> QED
      BY <3>1, <3>2, <1>2
  <2>4. CASE x \notin tags /\ w \in TagCreator
    <3> DEFINE e == [errand[w] EXCEPT !.at = "make", !.slug = x]
    <3>1. e \in Errand /\ e.op = errand[w].op /\ e.id = errand[w].id
          /\ e.parent = errand[w].parent /\ e.at = "make" /\ e.slug = x
      BY <2>2, <1>a DEF Errand
    <3>2. errand' = [errand EXCEPT ![w] = e]
      BY <2>1, <2>4 DEF Turn
    <3> HIDE DEF e
    <3> QED
      BY <3>1, <3>2, <2>2, <1>2
  <2>5. CASE x \notin tags /\ w \notin TagCreator /\ errand[w].op = "retag"
    <3> DEFINE e == [errand[w] EXCEPT !.asked = errand[w].asked \ {x}]
    <3>1. e \in Errand /\ e.op = errand[w].op /\ e.id = errand[w].id
          /\ e.parent = errand[w].parent /\ e.at = "resolve"
      BY <2>2, <1>a DEF Errand
    <3>2. errand' = [errand EXCEPT ![w] = e]
      BY <2>1, <2>5 DEF Turn
    <3> HIDE DEF e
    <3> QED
      BY <3>1, <3>2, <1>2
  <2>6. CASE x \notin tags /\ w \notin TagCreator /\ errand[w].op # "retag"
    <3>1. errand' = [errand EXCEPT ![w] = Free]
      BY <2>1, <2>6 DEF Turn
    <3> QED
      BY <3>1, FreeTyped, <1>2
  <2> QED
    BY <2>3, <2>4, <2>5, <2>6
<1>4. CASE MakeTag(w)
  <2> DEFINE e == [errand[w] EXCEPT !.at = "resolve", !.slug = NoRow,
                                    !.found = errand[w].found \cup {errand[w].slug}]
  <2>1. errand[w].slug \in Tag
    BY <1>4, <1>a DEF MakeTag, CreateTag, Addressed
  <2>2. e \in Errand /\ e.op = errand[w].op /\ e.id = errand[w].id
        /\ e.parent = errand[w].parent /\ e.at = "resolve"
    BY <2>1, <1>a DEF Errand
  <2>3. errand' = [errand EXCEPT ![w] = e]
    BY <1>4, <1>a DEF MakeTag, CreateTag, StructureTypeOK, Errand
  <2> HIDE DEF e
  <2> QED
    BY <2>2, <2>3, <1>2
<1> QED
  BY <1>3, <1>4

(* delete_by_slug is one statement.                                        *)
LEMMA DeletedTyped ==
    ASSUME StructureTyped, NEW t \in Topic, delete_by_slug(t)
    PROVE  StructureTyped' /\ Written(topics)' = Written(topics)
<1>a. StructureTypeOK
  BY DEF StructureTyped
<1>1. topics[t] \in TopicRow /\ topics' = [topics EXCEPT ![t] = [topics[t] EXCEPT !.deleted = TRUE]]
  BY <1>a DEF delete_by_slug, StructureTypeOK
<1>2. [topics[t] EXCEPT !.deleted = TRUE] \in TopicRow
  BY <1>1 DEF TopicRow
<1>3. StructureTypeOK' /\ UNCHANGED errand
  BY <1>a, <1>1, <1>2 DEF StructureTypeOK, delete_by_slug
<1>4. Written(topics)' = Written(topics)
  BY <1>a, <1>1, <1>2, <1>3, StructureRows DEF Written, StructureTypeOK
<1> QED
  BY <1>3, <1>4 DEF StructureTyped, Addressed

(* The actions that may give up do so or go on.                            *)
LEMMA Parting ==
    ASSUME NEW w
    PROVE  /\ CreateTag(w) => MakeTag(w) \/ Quitting(w)
           /\ Compensate(w) => Undo(w) \/ Quitting(w)
           /\ FailTags(w) \/ DropRequest(w) => Quitting(w)
  BY DEF CreateTag, MakeTag, Compensate, Undo, FailTags, DropRequest, Quitting

LEMMA NextSteps ==
    ASSUME StructureNext
    PROVE  \/ \E w \in Worker : \/ Asking(w) \/ Checking(w) \/ Writing(w)
                               \/ FindTag(w) \/ MakeTag(w) \/ Quitting(w)
           \/ \E t \in Topic : delete_by_slug(t)
<1>1. ASSUME NEW w \in Author, Compose(w)
      PROVE  \/ Asking(w) \/ Checking(w) \/ Writing(w) \/ FindTag(w) \/ MakeTag(w) \/ Quitting(w)
  BY <1>1, Parting DEF Compose, Asking, Checking, Writing
<1> QED
  BY <1>1 DEF StructureNext, Administer, Worker, Asking, Checking, Writing, DropRequest, Quitting

LEMMA InitStructureTyped ==
    ASSUME StructureInit
    PROVE  StructureTyped
<1>1. cats \in [Category -> CategoryRow \cup {NoRow, Gone}]
  <2>1. PICK slugs \in Founding : 
          cats = [c \in Category |-> IF c \in DOMAIN slugs
                                       THEN [slug |-> slugs[c], parent |-> NoRow]
                                     ELSE NoRow]
    BY DEF StructureInit
  <2>2. \A c \in DOMAIN slugs : slugs[c] \in Slug
    BY PlatformConstants DEF StructureConstants
  <2> QED
    BY <2>1, <2>2 DEF CategoryRow
<1>2. StructureTypeOK
  BY <1>1, FreeTyped DEF StructureInit, StructureTypeOK
<1>3. Free.op = "none" /\ Free.at = "idle"
  BY DEF Free
<1> QED
  BY <1>2, <1>3 DEF StructureTyped, Addressed, StructureInit

LEMMA NextStructureTyped == StructureTyped /\ [StructureNext]_structureVars => StructureTyped'
<1> SUFFICES ASSUME StructureTyped, [StructureNext]_structureVars PROVE StructureTyped'
  OBVIOUS
<1>1. CASE UNCHANGED structureVars
  BY <1>1 DEF structureVars, StructureTyped, StructureTypeOK, Addressed, Written
<1>2. CASE StructureNext
  BY <1>2, NextSteps, AskingTyped, CheckingTyped, WritingTyped, TaggingTyped, DeletedTyped, GivenUp
<1> QED
  BY <1>1, <1>2

-----------------------------------------------------------------------------
(* Housing and levels.                                                     *)

(* A new category goes under one that is, or was, at the top: parents do   *)
(* not change unless the world says so, and identifiers are not used again. *)
Levelled(w) ==
    LET e == errand[w]
    IN  /\ e.op = "create" /\ e.at = "insert" /\ e.parent # NoRow =>
             /\ cats[e.parent] # NoRow
             /\ e.parent \in Written(cats) => cats[e.parent].parent = NoRow
        /\ e.op = "update" => e.parent = Same

LevelsInv ==
    /\ Housing
    /\ "reparent" \notin structure_world => TwoLevels /\ \A w \in Worker : Levelled(w)

LEMMA LevelsKept ==
    ASSUME StructureTyped, LevelsInv, NEW w \in Worker, UNCHANGED <<structure_world, cats>>,
           \A t \in Written(topics)' : topics'[t].category \in Written(cats),
           \A x \in Worker \ {w} : errand'[x] = errand[x],
           "reparent" \notin structure_world => Levelled(w)'
    PROVE  LevelsInv'
<1>1. Housing' /\ (TwoLevels => TwoLevels')
  BY DEF LevelsInv, Housing, TwoLevels, Written
<1>2. ASSUME NEW x \in Worker, "reparent" \notin structure_world PROVE Levelled(x)'
  BY <1>2 DEF LevelsInv, Levelled, Written
<1> QED
  BY <1>1, <1>2 DEF LevelsInv

LEMMA DoneLevelled ==
    ASSUME StructureTyped, NEW w \in Worker, Done(w)
    PROVE  Levelled(w)' /\ \A x \in Worker \ {w} : errand'[x] = errand[x]
<1>1. errand'[w] = Free /\ \A x \in Worker \ {w} : errand'[x] = errand[x]
  BY FreeTyped, OneTurn DEF Done, StructureTyped
<1> QED
  BY <1>1 DEF Free, Levelled

LEMMA AskingLevels ==
    ASSUME StructureTyped, LevelsInv, NEW w \in Worker, Asking(w)
    PROVE  LevelsInv'
<1>1. \A t \in Written(topics)' : topics'[t].category \in Written(cats)
  BY AskingErrand DEF LevelsInv, Housing, Written
<1>2. "reparent" \notin structure_world => Levelled(w)'
  BY AskingErrand DEF Begun, Levelled
<1> QED
  BY <1>1, <1>2, AskingErrand, LevelsKept

LEMMA CheckingLevels ==
    ASSUME StructureTyped, LevelsInv, NEW w \in Worker, Checking(w)
    PROVE  LevelsInv'
<1>a. UNCHANGED <<structure_world, cats, topics, tags>> /\ StructureTypeOK /\ Addressed(w)
      /\ errand[w] \in Errand
  BY DEF Checking, Unwritten, StructureTyped, StructureTypeOK, CheckSlug, CheckParent, CheckOwnSlug,
         CheckEmpty, CheckTarget, FindCategory, PrevalidateTags
<1>h. \A t \in Written(topics)' : topics'[t].category \in Written(cats)
  BY <1>a DEF LevelsInv, Housing, Written
<1>1. CASE Done(w)
  BY <1>1, <1>a, <1>h, DoneLevelled, LevelsKept
<1>2. ASSUME NEW at \in Stage, Goto(w, at),
             \/ errand[w].op # "create" \/ at # "insert"
             \/ errand[w].parent = NoRow
             \/ errand[w].parent \in Written(cats) /\ cats[errand[w].parent].parent = NoRow
      PROVE  LevelsInv'
  <2>1. errand'[w] = [errand[w] EXCEPT !.at = at]
        /\ \A x \in Worker \ {w} : errand'[x] = errand[x]
    BY <1>2, <1>a, OneMove
  <2>2. errand'[w].op = errand[w].op /\ errand'[w].at = at
        /\ errand'[w].parent = errand[w].parent
    BY <2>1, <1>a DEF Errand
  <2>3. "reparent" \notin structure_world => Levelled(w)'
    BY <1>2, <1>a, <2>2 DEF LevelsInv, Levelled, Written
  <2> QED
    BY <1>a, <1>h, <2>1, <2>3, LevelsKept
<1>3. CASE CheckSlug(w)
  BY <1>1, <1>2, <1>3 DEF CheckSlug, If, Stage
<1>4. CASE CheckParent(w)
  BY <1>1, <1>2, <1>4 DEF CheckParent, If, Stage
<1>5. CASE CheckOwnSlug(w) \/ CheckEmpty(w) \/ CheckTarget(w)
  BY <1>1, <1>2, <1>5 DEF CheckOwnSlug, CheckEmpty, CheckTarget, If, Stage, At
<1>6. CASE FindCategory(w) \/ PrevalidateTags(w)
  BY <1>1, <1>2, <1>6 DEF FindCategory, PrevalidateTags, If, Stage, At
<1> QED
  BY <1>3, <1>4, <1>5, <1>6 DEF Checking

LEMMA CategoryLevels ==
    ASSUME StructureTyped, LevelsInv, NEW w \in Worker,
           create_category(w) \/ update_category(w) \/ delete_category(w)
    PROVE  LevelsInv'
<1>a. StructureTypeOK /\ Addressed(w) /\ errand[w] \in Errand
      /\ UNCHANGED <<structure_world, topics>> /\ Done(w)
  BY DEF StructureTyped, StructureTypeOK, create_category, update_category, delete_category
<1>w. /\ Written(topics)' = Written(topics)
      /\ \A c \in Category : c \in Written(cats) <=> cats[c] \in CategoryRow
      /\ Written(cats) \subseteq Category
      /\ \A t \in Written(topics) : topics[t].category \in Written(cats)
  BY <1>a, WrittenRows DEF Written, LevelsInv, Housing
<1>d. Levelled(w)' /\ \A x \in Worker \ {w} : errand'[x] = errand[x]
  BY <1>a, DoneLevelled
<1>s. CASE UNCHANGED cats
  BY <1>s, <1>a, <1>w, <1>d, LevelsKept
<1>r. ASSUME NEW c \in Category, NEW r, cats' = [cats EXCEPT ![c] = r]
      PROVE  /\ cats'[c] = r /\ \A x \in Category \ {c} : cats'[x] = cats[x]
             /\ r \in CategoryRow => Written(cats)' = Written(cats) \cup {c}
             /\ r = Gone => Written(cats)' = Written(cats) \ {c}
  <2>1. cats'[c] = r /\ DOMAIN cats' = Category /\ \A x \in Category \ {c} : cats'[x] = cats[x]
    BY <1>r, <1>a DEF StructureTypeOK
  <2> QED
    BY <2>1, <1>a, StructureRows DEF Written, StructureTypeOK
<1>1. CASE create_category(w) /\ cats' # cats
  <2> DEFINE s == errand[w].slug
             p == errand[w].parent
             c == CHOOSE x \in Category : cats[x] = NoRow
  <2>1. c \in Category /\ cats[c] = NoRow
    BY <1>1 DEF create_category
  <2>2. [slug |-> s, parent |-> p] \in CategoryRow
    BY <1>1, <1>a DEF create_category, Addressed, At, CategoryRow
  <2>3. cats' = [cats EXCEPT ![c] = [slug |-> s, parent |-> p]]
        /\ p \in Written(cats) \cup {NoRow, c}
    BY <1>1 DEF create_category, Writable
  <2>4. errand[w].op = "create" /\ errand[w].at = "insert" /\ p = errand[w].parent
    BY <1>1 DEF create_category, At
  <2> HIDE DEF s, p, c
  <2> DEFINE r == [slug |-> s, parent |-> p]
  <2>r. r \in CategoryRow /\ r.parent = p /\ cats' = [cats EXCEPT ![c] = r]
    BY <2>2, <2>3
  <2> HIDE DEF r
  <2>5. /\ cats'[c].parent = p /\ \A x \in Category \ {c} : cats'[x] = cats[x]
        /\ Written(cats)' = Written(cats) \cup {c} /\ c \notin Written(cats)
    BY <2>1, <2>r, <1>r, <1>w, StructureRows
  <2>6. Housing'
    BY <2>3, <2>5, <1>a, <1>w DEF Housing, LevelsInv
  <2>7. ASSUME "reparent" \notin structure_world PROVE TwoLevels'
    <3>1. p # NoRow => p # c /\ p \in Written(cats) /\ cats[p].parent = NoRow
      BY <2>1, <2>3, <2>4, <2>7 DEF LevelsInv, Levelled
    <3>2. ASSUME NEW x \in Written(cats), cats[x].parent # NoRow
          PROVE  cats[x].parent \in Written(cats) /\ x # cats[x].parent
                 /\ cats[cats[x].parent].parent = NoRow
      BY <3>2, <2>7 DEF LevelsInv, Housing, TwoLevels
    <3> QED
      BY <3>1, <3>2, <2>5, <1>w DEF TwoLevels
  <2>8. ASSUME "reparent" \notin structure_world, NEW x \in Worker \ {w} PROVE Levelled(x)'
    <3>1. Levelled(x) /\ Addressed(x) /\ errand'[x] = errand[x]
      BY <2>8, <1>d DEF LevelsInv, StructureTyped
    <3> QED
      BY <3>1, <2>1, <2>5, <1>w DEF Levelled, Addressed
  <2> QED
    BY <2>6, <2>7, <2>8, <1>a, <1>d DEF LevelsInv
<1>2. CASE update_category(w) /\ cats' # cats
  <2> DEFINE c == errand[w].id
             p == IF errand[w].parent # Same THEN errand[w].parent
                  ELSE IF c \in Written(cats) THEN cats[c].parent ELSE NoRow
  <2>1. c \in Category /\ errand[w].slug \in Slug /\ errand[w].op = "update"
    BY <1>2, <1>a DEF update_category, Addressed, At
  <2>2. p \in Category \cup {NoRow}
    BY <1>a, <1>w, <2>1 DEF Errand, CategoryRow, Same
  <2>3. cats' = [cats EXCEPT ![c] = [slug |-> errand[w].slug, parent |-> p]]
        /\ c \in Written(cats) /\ p \in Written(cats) \cup {NoRow, c}
    BY <1>2 DEF update_category, Writable
  <2>4. "reparent" \notin structure_world => p = cats[c].parent
    BY <2>1, <2>3 DEF LevelsInv, Levelled
  <2> HIDE DEF p
  <2>5. [slug |-> errand[w].slug, parent |-> p] \in CategoryRow
    BY <2>1, <2>2 DEF CategoryRow
  <2> HIDE DEF c
  <2> DEFINE r == [slug |-> errand[w].slug, parent |-> p]
  <2>r. r \in CategoryRow /\ r.parent = p /\ cats' = [cats EXCEPT ![c] = r]
    BY <2>3, <2>5
  <2> HIDE DEF r
  <2>6. /\ cats'[c].parent = p /\ \A x \in Category \ {c} : cats'[x] = cats[x]
        /\ Written(cats)' = Written(cats)
    <3>1. c \in Written(cats)
      BY <2>3
    <3>2. Written(cats)' = Written(cats) \cup {c}
      BY <2>1, <2>r, <1>r
    <3>3. Written(cats) \cup {c} = Written(cats)
      BY <3>1
    <3>4. cats'[c] = r /\ \A x \in Category \ {c} : cats'[x] = cats[x]
      BY <2>1, <2>r, <1>r
    <3> QED
      BY <2>r, <3>2, <3>3, <3>4
  <2>7. Housing'
    BY <2>3, <2>6, <1>a, <1>w DEF Housing, LevelsInv
  <2>8. ASSUME "reparent" \notin structure_world
        PROVE  TwoLevels' /\ \A x \in Worker \ {w} : Levelled(x)'
    <3>1. \A x \in Category : cats[x] \in CategoryRow => cats'[x].parent = cats[x].parent
      BY <2>4, <2>6, <2>8
    <3>2. ASSUME NEW x \in Category PROVE cats[x] # NoRow => cats'[x] # NoRow
      BY <2>3, <2>5, <2>6, <1>a, StructureRows, <2>1, <1>r
    <3>3. TwoLevels'
      <4>1. ASSUME NEW x \in Written(cats), cats[x].parent # NoRow
            PROVE  cats[x].parent \in Written(cats) /\ x # cats[x].parent
                   /\ cats[cats[x].parent].parent = NoRow
        BY <4>1, <2>8 DEF LevelsInv, Housing, TwoLevels
      <4> QED
        BY <4>1, <3>1, <2>6, <1>w DEF TwoLevels
    <3>4. ASSUME NEW x \in Worker \ {w} PROVE Levelled(x)'
      <4>1. Levelled(x) /\ Addressed(x) /\ errand'[x] = errand[x]
        BY <2>8, <1>d DEF LevelsInv, StructureTyped
      <4> QED
        BY <4>1, <3>1, <3>2, <2>6, <1>w DEF Levelled, Addressed
    <3> QED
      BY <3>3, <3>4
  <2> QED
    BY <2>7, <2>8, <1>a, <1>d DEF LevelsInv
<1>3. CASE delete_category(w) /\ cats' # cats
  <2> DEFINE c == errand[w].id
  <2>1. c \in Category
    BY <1>3, <1>a DEF delete_category, Addressed, At
  <2>2. cats' = [cats EXCEPT ![c] = Gone] /\ Children(c) \ {c} = {} /\ Housed(c) = {}
    BY <1>3 DEF delete_category
  <2> HIDE DEF c
  <2>3. /\ cats'[c] = Gone /\ \A x \in Category \ {c} : cats'[x] = cats[x]
        /\ Written(cats)' = Written(cats) \ {c}
    BY <2>1, <2>2, <1>r
  <2>4. /\ \A t \in Written(topics) : topics[t].category # c
        /\ \A x \in Written(cats) \ {c} : cats[x].parent # c
    BY <2>2 DEF Children, Housed
  <2>5. Housing'
    BY <2>3, <2>4, <1>a, <1>w DEF Housing, LevelsInv
  <2>6. "reparent" \notin structure_world => TwoLevels'
    <3> SUFFICES ASSUME "reparent" \notin structure_world PROVE TwoLevels'
      OBVIOUS
    <3>1. ASSUME NEW x \in Written(cats), cats[x].parent # NoRow
          PROVE  cats[x].parent \in Written(cats) /\ x # cats[x].parent
                 /\ cats[cats[x].parent].parent = NoRow
      BY <3>1 DEF LevelsInv, Housing, TwoLevels
    <3> QED
      BY <3>1, <2>3, <2>4, <1>w DEF TwoLevels
  <2>7. ASSUME "reparent" \notin structure_world, NEW x \in Worker \ {w} PROVE Levelled(x)'
    <3>1. Levelled(x) /\ Addressed(x) /\ errand'[x] = errand[x]
      BY <2>7, <1>d DEF LevelsInv, StructureTyped
    <3> QED
      BY <3>1, <2>3, <1>w, StructureRows DEF Levelled, Addressed
  <2> QED
    BY <2>5, <2>6, <2>7, <1>a, <1>d DEF LevelsInv
<1> QED
  BY <1>s, <1>1, <1>2, <1>3

LEMMA TopicLevels ==
    ASSUME StructureTyped, LevelsInv, NEW w \in Worker, Writing(w),
           ~(create_category(w) \/ update_category(w) \/ delete_category(w))
    PROVE  LevelsInv'
<1>a. StructureTypeOK /\ Addressed(w) /\ errand[w] \in Errand /\ UNCHANGED <<structure_world, cats>>
  BY WritingRows DEF StructureTyped, StructureTypeOK, Writing, move_to, InsertThread, AssignTags,
     CreateFirstPost, Undo, ClearTags, AttachTags
<1>b. errand[w].op \notin {"create", "update"}
  BY <1>a DEF Addressed, Writing, At, Errand, move_to, InsertThread, AssignTags,
     CreateFirstPost, Undo, ClearTags, AttachTags
<1>1. Done(w) \/ \E at \in Stage : Goto(w, at)
  BY DEF Writing, move_to, InsertThread, AssignTags, CreateFirstPost, Undo, ClearTags,
     AttachTags, Stage
<1>2. Levelled(w)' /\ \A x \in Worker \ {w} : errand'[x] = errand[x]
  <2>1. CASE Done(w)
    BY <2>1, DoneLevelled
  <2>2. CASE \E at \in Stage : Goto(w, at)
    <3>1. /\ \A x \in Worker \ {w} : errand'[x] = errand[x]
          /\ errand'[w].op = errand[w].op
      BY <2>2, <1>a, OneMove DEF Errand
    <3> QED
      BY <3>1, <1>b DEF Levelled
  <2> QED
    BY <1>1, <2>1, <2>2
<1>3. \A t \in Written(topics)' : topics'[t].category \in Written(cats)
  <2> DEFINE t == errand[w].id
  <2>1. t \in Topic /\ (~InsertThread(w) => t \in Written(topics) /\ topics[t] \in TopicRow)
    BY <1>a, WrittenRows DEF Addressed, Writing, At, Errand, move_to, InsertThread, AssignTags,
       CreateFirstPost, Undo, ClearTags, AttachTags
  <2>2. \/ UNCHANGED topics
        \/ \E r : /\ topics' = [topics EXCEPT ![t] = r]
                  /\ r.category \in Written(cats)
    <3>0. ~InsertThread(w) => topics[t].category \in Written(cats)
      BY <2>1 DEF LevelsInv, Housing
    <3>1. CASE move_to(w)
      <4>1. ~InsertThread(w)
        BY <3>1 DEF move_to, InsertThread, At
      <4>2. [topics[t] EXCEPT !.category = errand[w].parent].category = errand[w].parent
        BY <4>1, <2>1 DEF TopicRow
      <4> QED
        BY <3>1, <4>2 DEF move_to
    <3>2. CASE InsertThread(w)
      BY <3>2 DEF InsertThread
    <3>3. CASE ~InsertThread(w) /\ (AssignTags(w) \/ ClearTags(w) \/ AttachTags(w))
      <4>1. \E x : topics' = [topics EXCEPT ![t] = [topics[t] EXCEPT !.tags = x]]
        BY <3>3, <2>1 DEF AssignTags, ClearTags, AttachTags, TopicRow
      <4>2. \A x : [topics[t] EXCEPT !.tags = x].category = topics[t].category
        BY <2>1, <3>3 DEF TopicRow
      <4> QED
        BY <4>1, <4>2, <3>0, <3>3
    <3>4. CASE ~InsertThread(w) /\ (CreateFirstPost(w) \/ Undo(w))
      BY <3>4, <3>0, <2>1 DEF CreateFirstPost, Undo, TopicRow
    <3> QED
      BY <3>1, <3>2, <3>3, <3>4 DEF Writing
  <2> HIDE DEF t
  <2> QED
    BY <2>1, <2>2, <1>a DEF LevelsInv, Housing, Written, StructureTypeOK
<1> QED
  BY <1>a, <1>2, <1>3, LevelsKept

LEMMA TaggingLevels ==
    ASSUME StructureTyped, LevelsInv, NEW w \in Worker, FindTag(w) \/ MakeTag(w)
    PROVE  LevelsInv'
<1>a. StructureTypeOK /\ Addressed(w) /\ errand[w] \in Errand
      /\ UNCHANGED <<structure_world, cats, topics>>
  BY DEF StructureTyped, StructureTypeOK, FindTag, MakeTag, CreateTag, Unwritten
<1>b. errand[w].op \in {"thread", "retag"}
  BY <1>a DEF Addressed, FindTag, MakeTag, CreateTag, Errand
<1>1. PICK e : errand' = [errand EXCEPT ![w] = e] /\ e.op \in {"none", "thread", "retag"}
  <2>0. Free.op = "none"
    BY DEF Free
  <2>1. CASE FindTag(w)
    <3>1. /\ \A x : [errand[w] EXCEPT !.found = errand[w].found \cup {x}].op = errand[w].op
          /\ \A x : [errand[w] EXCEPT !.at = "make", !.slug = x].op = errand[w].op
          /\ \A x : [errand[w] EXCEPT !.asked = errand[w].asked \ {x}].op = errand[w].op
      BY <1>a DEF Errand
    <3>2. PICK x : \/ Turn(w, [errand[w] EXCEPT !.found = errand[w].found \cup {x}])
                   \/ Turn(w, [errand[w] EXCEPT !.at = "make", !.slug = x])
                   \/ Turn(w, [errand[w] EXCEPT !.asked = errand[w].asked \ {x}])
                   \/ Turn(w, Free)
      BY <2>1 DEF FindTag
    <3>3. ASSUME NEW e, Turn(w, e), e.op \in {"none", "thread", "retag"}
          PROVE  \E f : errand' = [errand EXCEPT ![w] = f] /\ f.op \in {"none", "thread", "retag"}
      BY <3>3 DEF Turn
    <3> QED
      BY <2>0, <3>1, <3>2, <3>3, <1>b
  <2>2. CASE MakeTag(w)
    <3>1. errand'[w].op = errand[w].op /\ errand' = [errand EXCEPT ![w] = errand'[w]]
      BY <2>2, <1>a DEF MakeTag, CreateTag, StructureTypeOK, Errand
    <3> QED
      BY <3>1, <1>b
  <2> QED
    BY <2>1, <2>2
<1>2. errand'[w] = e /\ \A x \in Worker \ {w} : errand'[x] = errand[x]
  BY <1>1, <1>a DEF StructureTypeOK
<1>3. Levelled(w)'
  BY <1>1, <1>2 DEF Levelled
<1>4. \A t \in Written(topics)' : topics'[t].category \in Written(cats)
  BY <1>a DEF LevelsInv, Housing, Written
<1> QED
  BY <1>a, <1>2, <1>3, <1>4, LevelsKept

LEMMA QuittingLevels ==
    ASSUME StructureTyped, LevelsInv, NEW w \in Worker, Quitting(w)
    PROVE  LevelsInv'
<1>1. UNCHANGED <<structure_world, cats>> /\ Done(w)
  BY GivenUp DEF Quitting
<1>2. \A t \in Written(topics)' : topics'[t].category \in Written(cats)
  BY GivenUp DEF LevelsInv, Housing
<1> QED
  BY <1>1, <1>2, DoneLevelled, LevelsKept

LEMMA InitLevels == StructureInit => LevelsInv
<1> SUFFICES ASSUME StructureInit PROVE LevelsInv
  OBVIOUS
<1>1. Written(topics) = {} /\ \A w \in Worker : errand[w] = Free
  BY DEF StructureInit, Written
<1>2. \A c \in Written(cats) : cats[c].parent = NoRow
  BY DEF StructureInit, Written
<1> QED
  BY <1>1, <1>2 DEF LevelsInv, Housing, TwoLevels, Levelled, Free

LEMMA NextLevels == StructureTyped /\ LevelsInv /\ [StructureNext]_structureVars => LevelsInv'
<1> SUFFICES ASSUME StructureTyped, LevelsInv, [StructureNext]_structureVars PROVE LevelsInv'
  OBVIOUS
<1>1. CASE UNCHANGED structureVars
  BY <1>1 DEF structureVars, LevelsInv, Housing, TwoLevels, Levelled, Written
<1>2. ASSUME NEW t \in Topic, delete_by_slug(t) PROVE LevelsInv'
  <2>1. UNCHANGED <<structure_world, cats, errand>> /\ Written(topics)' = Written(topics)
    BY <1>2, DeletedTyped DEF delete_by_slug
  <2>2. \A u \in Written(topics) : topics'[u].category = topics[u].category
    BY <1>2, WrittenRows DEF delete_by_slug, StructureTyped, StructureTypeOK, TopicRow
  <2> QED
    BY <2>1, <2>2 DEF LevelsInv, Housing, TwoLevels, Levelled, Written
<1> QED
  BY <1>1, <1>2, NextSteps, AskingLevels, CheckingLevels, CategoryLevels, TopicLevels,
     TaggingLevels, QuittingLevels

-----------------------------------------------------------------------------
(* No empty threads.                                                       *)

(* A thread is written by the one request it is for, which may make every  *)
(* tag it goes on with or finds it.                                        *)
Opening(w) ==
    LET e == errand[w]
    IN  /\ e.op = "thread" /\ e.at \in {"category", "allowed", "insert"} => topics[e.id] = NoRow
        /\ e.op = "thread" /\ e.at \in {"insert", "resolve", "make"} =>
             w \in TagCreator \/ e.asked \subseteq tags

Apart ==
    \A w \in Author : \A x \in Author \ {w} :
        errand[w].op = "thread" /\ errand[x].op = "thread" => errand[w].id # errand[x].id

OpeningInv ==
    /\ \A w \in Author : Opening(w)
    /\ Apart
    /\ NoEmptyThread

(* What a step of w that begins nothing leaves as it is.                   *)
LEMMA OpeningKept ==
    ASSUME StructureTyped, StructureTyped', OpeningInv, NEW w \in Worker,
           UNCHANGED structure_world,
           \A x \in Worker \ {w} : errand'[x] = errand[x],
           \A t \in Written(topics)' :
              \/ /\ t \in Written(topics)
                 /\ topics[t].opened => topics'[t].opened
                 /\ topics[t].deleted => topics'[t].deleted
                 /\ topics[t].failed => topics'[t].failed
              \/ /\ w \in Author /\ t = errand[w].id /\ errand[w].op = "thread"
                 /\ errand'[w].op = "thread" /\ errand'[w].id = t,
           tags \subseteq tags',
           errand'[w].op = "thread" => errand[w].op = "thread" /\ errand'[w].id = errand[w].id,
           w \in Author => Opening(w)',
           w \in Author /\ errand[w].op = "thread" /\ errand[w].id \in Written(topics)'
              => errand'[w].op = "thread" \/ topics'[errand[w].id].opened
                   \/ topics'[errand[w].id].deleted \/ topics'[errand[w].id].failed
    PROVE  OpeningInv'
<1>a. Author \subseteq Worker
  BY DEF Worker
<1>1. ASSUME NEW x \in Author \ {w} PROVE Opening(x)'
  <2>1. Opening(x) /\ errand'[x] = errand[x] /\ Addressed(x)
    BY <1>a DEF OpeningInv, StructureTyped
  <2>2. ASSUME errand[x].op = "thread", topics[errand[x].id] = NoRow
        PROVE  topics'[errand[x].id] = NoRow
    <3>1. errand[x].id \in Topic /\ errand[x].id \notin Written(topics)
      BY <2>1, <2>2 DEF Addressed, Written
    <3>2. w \in Author /\ errand[w].op = "thread" => errand[w].id # errand[x].id
      BY <2>2 DEF OpeningInv, Apart
    <3>3. errand[x].id \notin Written(topics)'
      BY <3>1, <3>2
    <3> QED
      BY <3>1, <3>3, StructureRows DEF StructureTyped, StructureTypeOK, Written
  <2> QED
    BY <2>1, <2>2 DEF Opening
<1>2. Apart'
  <2>1. ASSUME NEW x \in Author, NEW y \in Author \ {x}
        PROVE  errand'[x].op = "thread" /\ errand'[y].op = "thread"
                 => errand'[x].id # errand'[y].id
    <3>1. errand[x].op = "thread" /\ errand[y].op = "thread" => errand[x].id # errand[y].id
      BY DEF OpeningInv, Apart
    <3>2. CASE x = w
      BY <3>1, <3>2, <1>a
    <3>3. CASE y = w
      BY <3>1, <3>3, <1>a
    <3>4. CASE x # w /\ y # w
      BY <3>1, <3>4, <1>a
    <3> QED
      BY <3>2, <3>3, <3>4
  <2> QED
    BY <2>1 DEF Apart
<1>3. ASSUME NEW t \in Written(topics)'
      PROVE  topics'[t].opened \/ topics'[t].deleted \/ topics'[t].failed
               \/ \E v \in Author : errand'[v].op = "thread" /\ errand'[v].id = t
  <2>1. CASE /\ t \in Written(topics)
             /\ ~topics[t].opened /\ ~topics[t].deleted /\ ~topics[t].failed
    <3>1. PICK v \in Author : errand[v].op = "thread" /\ errand[v].id = t
      BY <1>3, <2>1 DEF OpeningInv, NoEmptyThread
    <3>2. CASE v = w
      BY <1>3, <3>1, <3>2
    <3>3. CASE v # w
      BY <3>1, <3>3, <1>a
    <3> QED
      BY <3>2, <3>3
  <2> QED
    BY <1>3, <2>1
<1> QED
  BY <1>1, <1>2, <1>3 DEF OpeningInv, NoEmptyThread

LEMMA DoneFacts ==
    ASSUME StructureTyped, NEW w \in Worker, Done(w)
    PROVE  /\ \A x \in Worker \ {w} : errand'[x] = errand[x]
           /\ errand'[w].op = "none" /\ errand'[w].at = "idle" /\ errand'[w].asked = {}
<1>1. errand'[w] = Free /\ \A x \in Worker \ {w} : errand'[x] = errand[x]
  BY FreeTyped, OneTurn DEF Done, StructureTyped
<1> QED
  BY <1>1 DEF Free

LEMMA GotoFacts ==
    ASSUME StructureTyped, NEW w \in Worker, NEW at \in Stage, Goto(w, at)
    PROVE  /\ \A x \in Worker \ {w} : errand'[x] = errand[x]
           /\ errand'[w].op = errand[w].op /\ errand'[w].at = at
           /\ errand'[w].id = errand[w].id /\ errand'[w].asked = errand[w].asked
           /\ errand'[w].slug = errand[w].slug
<1>1. errand'[w] = [errand[w] EXCEPT !.at = at] /\ errand[w] \in Errand
      /\ \A x \in Worker \ {w} : errand'[x] = errand[x]
  BY OneMove DEF StructureTyped, StructureTypeOK
<1> QED
  BY <1>1 DEF Errand

(* Rows that are written stay as open and as deleted as they were.         *)
LEMMA StatusKept ==
    ASSUME StructureTyped, NEW w \in Worker,
           \/ AssignTags(w) \/ ClearTags(w) \/ AttachTags(w) \/ move_to(w)
           \/ CreateFirstPost(w) \/ Undo(w)
    PROVE  /\ UNCHANGED <<structure_world, tags>>
           /\ \A t \in Written(topics)' :
                /\ t \in Written(topics)
                /\ topics[t].opened => topics'[t].opened
                /\ topics[t].deleted => topics'[t].deleted
                /\ topics[t].failed => topics'[t].failed
           /\ CreateFirstPost(w) /\ Done(w) => topics'[errand[w].id].opened
           /\ Undo(w) => topics'[errand[w].id].deleted
<1>a. StructureTypeOK /\ Addressed(w) /\ errand[w] \in Errand
  BY DEF StructureTyped, StructureTypeOK
<1> DEFINE t == errand[w].id
<1>1. t \in Topic /\ topics[t] \in TopicRow
  BY <1>a, WrittenRows DEF Addressed, At, Errand, move_to, AssignTags, CreateFirstPost,
     Undo, ClearTags, AttachTags
<1>2. ASSUME NEW r, topics' = [topics EXCEPT ![t] = r], r \in TopicRow,
             topics[t].opened => r.opened, topics[t].deleted => r.deleted,
             topics[t].failed => r.failed
      PROVE  /\ \A u \in Written(topics)' :
                  /\ u \in Written(topics)
                  /\ topics[u].opened => topics'[u].opened
                  /\ topics[u].deleted => topics'[u].deleted
                  /\ topics[u].failed => topics'[u].failed
             /\ topics'[t] = r
  BY <1>1, <1>2, <1>a, StructureRows DEF Written, StructureTypeOK
<1>3. CASE move_to(w)
  <2>1. LET r == [topics[t] EXCEPT !.category = errand[w].parent]
        IN  r.opened = topics[t].opened /\ r.deleted = topics[t].deleted
            /\ r.failed = topics[t].failed
            /\ (errand[w].parent \in Category => r \in TopicRow)
    BY <1>1 DEF TopicRow
  <2>2. errand[w].parent \in Category
    BY <1>3, <1>a DEF move_to, At, Addressed
  <2> QED
    BY <1>3, <1>1, <1>2, <2>1, <2>2 DEF move_to, CreateFirstPost, Undo, At, Written
<1>4. CASE AssignTags(w) \/ ClearTags(w) \/ AttachTags(w)
  <2>1. PICK x \in SUBSET Tag : topics' = [topics EXCEPT ![t] = [topics[t] EXCEPT !.tags = x]]
    BY <1>4, <1>1, <1>a DEF AssignTags, ClearTags, AttachTags, TopicRow, Errand
  <2>2. LET r == [topics[t] EXCEPT !.tags = x]
        IN  r.opened = topics[t].opened /\ r.deleted = topics[t].deleted
            /\ r.failed = topics[t].failed /\ r \in TopicRow
    BY <1>1 DEF TopicRow
  <2>3. ~CreateFirstPost(w) /\ ~Undo(w) /\ UNCHANGED <<structure_world, tags>>
    BY <1>4 DEF AssignTags, ClearTags, AttachTags, At, CreateFirstPost, Undo
  <2> QED
    BY <1>2, <2>1, <2>2, <2>3
<1>5. CASE Undo(w)
  <2>1. LET r == [topics[t] EXCEPT !.deleted = TRUE]
        IN  r.opened = topics[t].opened /\ r.deleted /\ r.failed = topics[t].failed
            /\ r \in TopicRow
    BY <1>1 DEF TopicRow
  <2> QED
    BY <1>5, <1>1, <1>2, <2>1 DEF Undo, CreateFirstPost
<1>6. CASE CreateFirstPost(w) /\ topics' # topics
  <2>1. LET r == [topics[t] EXCEPT !.opened = TRUE]
        IN  r.deleted = topics[t].deleted /\ r.opened /\ r.failed = topics[t].failed
            /\ r \in TopicRow
    BY <1>1 DEF TopicRow
  <2> QED
    BY <1>6, <1>1, <1>2, <2>1 DEF Undo, CreateFirstPost
<1>7. CASE CreateFirstPost(w) /\ topics' = topics
  <2>1. Done(w) => topics[t].opened
    <3> SUFFICES ASSUME Done(w), ~(topics' = [topics EXCEPT ![t].opened = TRUE]) PROVE FALSE
      BY <1>7, <1>1, <1>a DEF StructureTypeOK, TopicRow
    <3>1. Goto(w, "undo")
      BY <1>7 DEF CreateFirstPost
    <3> QED
      BY <3>1, DoneFacts, GotoFacts DEF Stage
  <2> QED
    BY <1>7, <2>1 DEF CreateFirstPost, Undo, Written
<1> QED
  BY <1>3, <1>4, <1>5, <1>6, <1>7

LEMMA AskingOpening ==
    ASSUME StructureTyped, StructureTyped', OpeningInv, NEW w \in Worker, Asking(w)
    PROVE  OpeningInv'
<1>a. /\ UNCHANGED <<structure_world, topics, tags>> /\ Written(topics)' = Written(topics)
      /\ errand[w].op = "none" /\ Begun(w, errand'[w])
      /\ \A x \in Author \ {w} : errand'[x] = errand[x]
  BY AskingErrand DEF Written, Worker
<1>1. \A x \in Author : Opening(x)'
  <2>1. Opening(w)'
    BY <1>a DEF Opening, Begun
  <2> QED
    BY <2>1, <1>a DEF Opening, OpeningInv
<1>2. Apart'
  <2>1. \A x \in Author \ {w} : errand'[w].op = "thread" => errand[x].id # errand'[w].id
    BY <1>a DEF Begun
  <2>2. ASSUME NEW x \in Author, NEW y \in Author \ {x}
        PROVE  errand'[x].op = "thread" /\ errand'[y].op = "thread"
                 => errand'[x].id # errand'[y].id
    <3>1. CASE x = w
      BY <2>1, <3>1, <1>a
    <3>2. CASE y = w
      BY <2>1, <3>2, <1>a
    <3>3. CASE x # w /\ y # w
      BY <3>3, <1>a DEF OpeningInv, Apart
    <3> QED
      BY <3>1, <3>2, <3>3
  <2> QED
    BY <2>2, <1>a DEF Apart
<1>3. NoEmptyThread'
  BY <1>a DEF OpeningInv, NoEmptyThread
<1> QED
  BY <1>a, <1>1, <1>2, <1>3 DEF OpeningInv

LEMMA AdministerOpening ==
    ASSUME StructureTyped, StructureTyped', OpeningInv, NEW w \in Worker, Administer(w),
           ~Asking(w)
    PROVE  OpeningInv'
<1>1. errand[w].op # "thread"
  BY DEF Administer, Asking, At, CheckSlug, CheckParent, CheckOwnSlug, CheckEmpty, CheckTarget,
         create_category, update_category, delete_category, move_to
<1>2. Done(w) \/ \E at \in Stage \ {"make"} : Goto(w, at)
  BY DEF Administer, Asking, At, If, Stage, CheckSlug, CheckParent, CheckOwnSlug, CheckEmpty,
         CheckTarget, create_category, update_category, delete_category, move_to
<1>3. /\ UNCHANGED <<structure_world, tags>>
      /\ \A t \in Written(topics)' :
           /\ t \in Written(topics)
           /\ topics[t].opened => topics'[t].opened
           /\ topics[t].deleted => topics'[t].deleted
           /\ topics[t].failed => topics'[t].failed
  <2>1. CASE move_to(w)
    BY <2>1, StatusKept
  <2>2. CASE ~move_to(w)
    BY <2>2 DEF Administer, Asking, CheckSlug, CheckParent, CheckOwnSlug, CheckEmpty,
       CheckTarget, create_category, update_category, delete_category, Unwritten, Written
  <2> QED
    BY <2>1, <2>2
<1>4. /\ \A x \in Worker \ {w} : errand'[x] = errand[x]
      /\ errand'[w].op # "thread"
  BY <1>1, <1>2, DoneFacts, GotoFacts
<1>5. Opening(w)'
  BY <1>4 DEF Opening
<1> QED
  BY <1>1, <1>3, <1>4, <1>5, OpeningKept

(* A request that goes on without writing topics or tags.                  *)
LEMMA PassingOpening ==
    ASSUME StructureTyped, StructureTyped', OpeningInv, NEW w \in Author,
           FindCategory(w) \/ PrevalidateTags(w)
    PROVE  OpeningInv'
<1>a. w \in Worker /\ UNCHANGED <<structure_world, topics, tags>>
      /\ Written(topics)' = Written(topics)
  BY DEF Worker, FindCategory, PrevalidateTags, Unwritten, Written
<1>b. errand[w].op = "thread" /\ errand[w].at \in {"category", "allowed"} /\ Opening(w)
  BY DEF FindCategory, PrevalidateTags, At, OpeningInv
<1>c. topics[errand[w].id] = NoRow /\ errand[w].id \notin Written(topics)
  BY <1>b DEF Opening, Written
<1>1. CASE Done(w)
  <2>1. Opening(w)'
    BY <1>a, <1>1, DoneFacts DEF Opening
  <2> QED
    BY <1>a, <1>c, <1>1, <2>1, DoneFacts, OpeningKept
<1>2. CASE ~Done(w)
  <2>1. PICK at \in Stage : /\ Goto(w, at) /\ at \in {"allowed", "insert"}
                            /\ at = "insert" => w \in TagCreator \/ errand[w].asked \subseteq tags
    BY <1>2 DEF FindCategory, PrevalidateTags, If, Stage
  <2>2. Opening(w)'
    BY <1>a, <1>b, <1>c, <2>1, GotoFacts DEF Opening
  <2> QED
    BY <1>a, <1>b, <1>c, <2>1, <2>2, GotoFacts, OpeningKept
<1> QED
  BY <1>1, <1>2

LEMMA InsertOpening ==
    ASSUME StructureTyped, StructureTyped', OpeningInv, NEW w \in Author, InsertThread(w)
    PROVE  OpeningInv'
<1>a. w \in Worker /\ UNCHANGED <<structure_world, tags>> /\ StructureTypeOK /\ Addressed(w)
  BY DEF Worker, InsertThread, StructureTyped
<1>b. errand[w].op = "thread" /\ errand[w].at = "insert" /\ Opening(w)
      /\ errand[w].id \in Topic
  BY <1>a DEF InsertThread, At, OpeningInv, Addressed
<1>c. topics[errand[w].id] = NoRow /\ errand[w].id \notin Written(topics)
  BY <1>b DEF Opening, Written
<1>1. CASE errand[w].parent \notin Written(cats)
  <2>1. Done(w) /\ UNCHANGED topics /\ Written(topics)' = Written(topics)
    BY <1>1 DEF InsertThread, Written
  <2>2. Opening(w)'
    BY <1>a, <2>1, DoneFacts DEF Opening
  <2> QED
    BY <1>a, <1>c, <2>1, <2>2, DoneFacts, OpeningKept
<1>2. CASE errand[w].parent \in Written(cats)
  <2>1. Goto(w, "resolve") /\ "resolve" \in Stage
    BY <1>2 DEF InsertThread, Stage
  <2>2. \A t \in Written(topics)' : \/ t = errand[w].id
                                    \/ t \in Written(topics) /\ topics'[t] = topics[t]
    BY <1>2, <1>a, <1>b DEF InsertThread, Written, StructureTypeOK
  <2>3. Opening(w)'
    BY <1>a, <1>b, <2>1, GotoFacts DEF Opening
  <2> QED
    BY <1>a, <1>b, <2>1, <2>2, <2>3, GotoFacts, OpeningKept
<1> QED
  BY <1>1, <1>2

LEMMA WritingOpening ==
    ASSUME StructureTyped, StructureTyped', OpeningInv, NEW w \in Author,
           \/ AssignTags(w) \/ ClearTags(w) \/ AttachTags(w)
           \/ CreateFirstPost(w) \/ Undo(w)
    PROVE  OpeningInv'
<1>a. w \in Worker /\ StructureTypeOK /\ Addressed(w) /\ errand[w] \in Errand
  BY DEF Worker, StructureTyped, StructureTypeOK
<1>b. errand[w].op \in {"thread", "retag"}
  BY <1>a DEF Addressed, Errand, At, AssignTags, ClearTags, AttachTags, CreateFirstPost, Undo
<1>e. UNCHANGED <<structure_world, tags>>
  BY <1>a, StatusKept
<1>1. CASE Done(w)
  <2>1. Opening(w)'
    BY <1>a, <1>1, DoneFacts DEF Opening
  <2>2. errand[w].op = "thread" => topics'[errand[w].id].opened \/ topics'[errand[w].id].deleted
    <3>1. AssignTags(w) => errand'[w].at = "post"
      BY <1>a, GotoFacts DEF AssignTags, Stage
    <3>2. ~AssignTags(w)
      BY <3>1, <1>1, <1>a, DoneFacts
    <3>3. errand[w].op = "thread" => CreateFirstPost(w) \/ Undo(w)
      BY <3>2 DEF ClearTags, AttachTags, At
    <3> QED
      BY <3>3, <1>1, <1>a, StatusKept
  <2> QED
    BY <1>a, <1>e, <1>1, <2>1, <2>2, StatusKept, DoneFacts, OpeningKept
<1>2. CASE ~Done(w)
  <2>1. PICK at \in Stage : Goto(w, at) /\ at \in {"post", "undo", "attach"}
    BY <1>2 DEF AssignTags, ClearTags, AttachTags, CreateFirstPost, Undo, Stage
  <2>2. Opening(w)'
    BY <1>a, <2>1, GotoFacts DEF Opening
  <2> QED
    BY <1>a, <1>e, <2>1, <2>2, StatusKept, GotoFacts, OpeningKept
<1> QED
  BY <1>1, <1>2

(* Tags are found or made: a request that may make none finds them all.    *)
LEMMA TaggingOpening ==
    ASSUME StructureTyped, StructureTyped', OpeningInv, NEW w \in Author,
           FindTag(w) \/ MakeTag(w)
    PROVE  OpeningInv'
<1>a. w \in Worker /\ StructureTypeOK /\ Addressed(w) /\ errand[w] \in Errand
      /\ UNCHANGED <<structure_world, topics>> /\ Written(topics)' = Written(topics)
      /\ tags \subseteq tags' /\ Opening(w)
  BY DEF Worker, StructureTyped, StructureTypeOK, FindTag, MakeTag, CreateTag, Unwritten, Written,
         OpeningInv
<1>1. ASSUME NEW e \in Errand, errand' = [errand EXCEPT ![w] = e],
             e.op \in {"none", errand[w].op}, e.id = errand[w].id \/ e.op = "none",
             errand[w].op = "thread"
                => e.op = "thread" /\ (w \in TagCreator \/ e.asked \subseteq tags),
             e.at \in {"idle", "resolve", "make"}
      PROVE  OpeningInv'
  <2>1. errand'[w] = e /\ \A x \in Worker \ {w} : errand'[x] = errand[x]
    BY <1>1, <1>a, OneTurn DEF Turn
  <2>2. Opening(w)'
    BY <1>1, <1>a, <2>1 DEF Opening
  <2> QED
    BY <1>1, <1>a, <2>1, <2>2, OpeningKept
<1>2. CASE FindTag(w)
  <2>1. PICK x \in Missing(w) :
          Turn(w, IF x \in tags THEN [errand[w] EXCEPT !.found = errand[w].found \cup {x}]
                  ELSE IF w \in TagCreator THEN [errand[w] EXCEPT !.at = "make", !.slug = x]
                  ELSE IF errand[w].op = "retag"
                    THEN [errand[w] EXCEPT !.asked = errand[w].asked \ {x}]
                  ELSE Free)
    BY <1>2 DEF FindTag
  <2>2. x \in Tag /\ x \in errand[w].asked /\ errand[w].at = "resolve" /\ tags' = tags
    BY <1>2, <1>a DEF Missing, Errand, FindTag, Unwritten
  <2>0. errand[w].op = "thread"
           => w \in TagCreator \/ errand[w].asked \subseteq tags
    BY <1>a, <2>2 DEF Opening
  <2>3. CASE x \in tags
    <3> DEFINE e == [errand[w] EXCEPT !.found = errand[w].found \cup {x}]
    <3>1. e \in Errand /\ e.op = errand[w].op /\ e.id = errand[w].id
          /\ e.asked = errand[w].asked /\ e.at = "resolve"
      BY <2>2, <1>a DEF Errand
    <3>2. errand' = [errand EXCEPT ![w] = e]
      BY <2>1, <2>3 DEF Turn
    <3> HIDE DEF e
    <3> QED
      BY <2>0, <3>1, <3>2, <1>1
  <2>4. CASE x \notin tags /\ w \in TagCreator
    <3> DEFINE e == [errand[w] EXCEPT !.at = "make", !.slug = x]
    <3>1. e \in Errand /\ e.op = errand[w].op /\ e.id = errand[w].id
          /\ e.asked = errand[w].asked /\ e.at = "make" /\ e.slug = x
      BY <2>2, <1>a DEF Errand
    <3>2. errand' = [errand EXCEPT ![w] = e]
      BY <2>1, <2>4 DEF Turn
    <3> HIDE DEF e
    <3> QED
      BY <2>0, <2>2, <2>4, <3>1, <3>2, <1>1
  <2>5. CASE x \notin tags /\ w \notin TagCreator /\ errand[w].op = "retag"
    <3> DEFINE e == [errand[w] EXCEPT !.asked = errand[w].asked \ {x}]
    <3>1. e \in Errand /\ e.op = errand[w].op /\ e.id = errand[w].id
          /\ e.asked \subseteq errand[w].asked /\ e.at = "resolve"
      BY <2>2, <1>a DEF Errand
    <3>2. errand' = [errand EXCEPT ![w] = e]
      BY <2>1, <2>5 DEF Turn
    <3> HIDE DEF e
    <3> QED
      BY <2>5, <3>1, <3>2, <1>1
  <2>6. CASE x \notin tags /\ w \notin TagCreator /\ errand[w].op # "retag"
    <3>1. errand' = [errand EXCEPT ![w] = Free]
      BY <2>1, <2>6 DEF Turn
    <3>2. Free.op = "none" /\ Free.at = "idle" /\ Free.asked = {}
      BY DEF Free
    <3>3. errand[w].op # "thread"
      BY <2>0, <2>2, <2>6
    <3> QED
      BY <3>1, <3>2, <3>3, FreeTyped, <1>1
  <2> QED
    BY <2>3, <2>4, <2>5, <2>6
<1>3. CASE MakeTag(w)
  <2> DEFINE e == [errand[w] EXCEPT !.at = "resolve", !.slug = NoRow,
                                    !.found = errand[w].found \cup {errand[w].slug}]
  <2>0. errand[w].op = "thread" => w \in TagCreator \/ errand[w].asked \subseteq tags
    BY <1>3, <1>a DEF MakeTag, CreateTag, Opening
  <2>1. errand[w].slug \in Tag
    BY <1>3, <1>a DEF MakeTag, CreateTag, Addressed
  <2>2. e \in Errand /\ e.op = errand[w].op /\ e.id = errand[w].id
        /\ e.asked = errand[w].asked /\ e.at = "resolve"
    BY <2>1, <1>a DEF Errand
  <2>3. errand' = [errand EXCEPT ![w] = e]
    BY <1>3, <1>a DEF MakeTag, CreateTag, StructureTypeOK, Errand
  <2> HIDE DEF e
  <2> QED
    BY <2>0, <2>2, <2>3, <1>1
<1> QED
  BY <1>2, <1>3

LEMMA DeleteOpening ==
    ASSUME StructureTyped, OpeningInv, NEW t \in Topic, delete_by_slug(t)
    PROVE  OpeningInv'
<1>1. UNCHANGED <<structure_world, tags, errand>> /\ Written(topics)' = Written(topics)
      /\ topics[t] \in TopicRow /\ t \in Written(topics)
  BY DeletedTyped, WrittenRows DEF delete_by_slug, StructureTyped, StructureTypeOK
<1>2. /\ \A u \in Topic \ {t} : topics'[u] = topics[u]
      /\ topics'[t].deleted
  BY <1>1 DEF delete_by_slug, StructureTyped, StructureTypeOK, TopicRow
<1>3. ASSUME NEW w \in Author PROVE Opening(w)'
  <2>1. Opening(w) /\ Addressed(w) /\ w \in Worker
    BY DEF OpeningInv, StructureTyped, Worker
  <2>2. errand[w].op = "thread" /\ topics[errand[w].id] = NoRow
           => errand[w].id # t /\ errand[w].id \in Topic
    BY <1>1, <2>1 DEF Addressed, Written
  <2> QED
    BY <1>1, <1>2, <2>1, <2>2 DEF Opening
<1>4. Apart'
  BY <1>1 DEF OpeningInv, Apart
<1>5. NoEmptyThread'
  <2>1. \A u \in Written(topics) : u \in Topic
    BY WrittenRows DEF StructureTyped
  <2> QED
    BY <1>1, <1>2, <2>1 DEF OpeningInv, NoEmptyThread
<1> QED
  BY <1>1, <1>3, <1>4, <1>5 DEF OpeningInv

LEMMA QuittingOpening ==
    ASSUME StructureTyped, StructureTyped', OpeningInv, NEW w \in Worker, Quitting(w)
    PROVE  OpeningInv'
<1>1. /\ UNCHANGED <<structure_world, tags>> /\ Written(topics)' = Written(topics)
      /\ errand'[w].op = "none" /\ errand'[w].at = "idle"
      /\ \A x \in Worker \ {w} : errand'[x] = errand[x]
  BY GivenUp, DoneFacts DEF Quitting
<1>2. Opening(w)'
  BY <1>1 DEF Opening
<1> QED
  BY <1>1, <1>2, GivenUp, OpeningKept

LEMMA InitOpening == StructureInit => OpeningInv
<1> SUFFICES ASSUME StructureInit PROVE OpeningInv
  OBVIOUS
<1>1. Written(topics) = {} /\ \A w \in Author : errand[w] = Free
  BY DEF StructureInit, Written, Worker
<1>2. Free.op = "none" /\ Free.at = "idle" /\ Free.asked = {}
  BY DEF Free
<1> QED
  BY <1>1, <1>2 DEF OpeningInv, Opening, Apart, NoEmptyThread

LEMMA NextOpening ==
    StructureTyped /\ StructureTyped' /\ OpeningInv /\ [StructureNext]_structureVars
       => OpeningInv'
<1> SUFFICES ASSUME StructureTyped, StructureTyped', OpeningInv, [StructureNext]_structureVars
             PROVE  OpeningInv'
  OBVIOUS
<1>1. CASE UNCHANGED structureVars
  BY <1>1 DEF structureVars, OpeningInv, Opening, Apart, NoEmptyThread, Written
<1>2. ASSUME NEW w \in Worker, Asking(w) PROVE OpeningInv'
  BY <1>2, AskingOpening
<1>3. ASSUME NEW w \in Admin, Administer(w) PROVE OpeningInv'
  BY <1>2, <1>3, AdministerOpening DEF Worker
<1>4. ASSUME NEW w \in Author, Compose(w) PROVE OpeningInv'
  BY <1>2, <1>4, Parting, PassingOpening, InsertOpening, WritingOpening, TaggingOpening,
     QuittingOpening DEF Compose, Asking, Worker
<1>5. ASSUME NEW w \in Worker, DropRequest(w) PROVE OpeningInv'
  BY <1>5, Parting, QuittingOpening
<1> QED
  BY <1>1, <1>3, <1>4, <1>5, DeleteOpening DEF StructureNext

(* All of it, while the structure is what a behaviour is about.            *)
StructureInv == StructureTyped /\ LevelsInv /\ OpeningInv
BoardInv == side = "structure" => StructureInv

LEMMA InitBoard == PlatformInit => BoardInv
  BY InitStructureTyped, InitLevels, InitOpening DEF PlatformInit, BoardInv, StructureInv

LEMMA NextBoard == BoardInv /\ [PlatformNext]_platformVars => BoardInv'
<1> SUFFICES ASSUME BoardInv, [PlatformNext]_platformVars, side' = "structure" PROVE StructureInv'
  BY DEF BoardInv
<1>1. StructureInv /\ [StructureNext]_structureVars
  BY DEF BoardInv, PlatformNext, platformVars
<1> QED
  BY <1>1, NextStructureTyped, NextLevels, NextOpening DEF StructureInv

(* Whatever categories, threads and tags there are and however many        *)
(* requests are in flight, fail or are dropped: every thread is in a       *)
(* category there is, and every subcategory has its parent.  Unless        *)
(* categories are given other parents, which update_category does not look *)
(* at, no parent is a subcategory itself.  And a thread is left without a  *)
(* post only by a request whose call about a tag failed, whose best-effort *)
(* deletion of it failed, or which was dropped (categories.rs and          *)
(* threads.rs check and write in separate statements).                     *)
THEOREM BoardAlwaysHolds == PlatformSpec => []BoardHolds
<1>1. BoardInv => BoardHolds
  BY DEF BoardInv, StructureInv, StructureTyped, LevelsInv, OpeningInv, StructureHolds, BoardHolds
<1> QED
  BY <1>1, InitBoard, NextBoard, PTL DEF PlatformSpec

-----------------------------------------------------------------------------
(* Events: a publication, the connections of the user, the webhooks.       *)

Job == [event : Event, hook : Hook, step : {"send", "disable"}]
Publication == {"new", "row", "audit", "push", "remove", "webhooks", "after", "done"}

(* Both kinds of event keep to their own way, and what is pushed has its   *)
(* row unless the row could not be written.                                *)
Published ==
    \A e \in Event :
      /\ stage[e] \in {"row", "push", "remove"} => e \in Notice
      /\ stage[e] = "audit" => e \notin Notice
      /\ stage[e] = "push" /\ "error" \notin event_world => e \in DOMAIN inbox

(* An open connection has its sender in the entry.                         *)
Connected == \A c \in Conn : conn[c] = "open" => c \in senders

(* The count of a webhook's row is its failures since a success.           *)
CountsAgree == \A h \in Hook : webhooks[h].failures = streak[h]

EventsInv ==
    /\ Events!TypeOK
    /\ stage \in [Event -> Publication] /\ jobs \subseteq Job
    /\ Published /\ Connected /\ CountsAgree /\ Events!NoticesHeard

LEMMA EventFacts ==
    /\ Notice \subseteq Event /\ MaxFailures \in Nat \ {0}
    /\ Events!Sent = {e \in Event : stage[e] \in {"remove", "webhooks", "after", "done"}}
    /\ Events!Sent' = {e \in Event : stage'[e] \in {"remove", "webhooks", "after", "done"}}
  BY PlatformConstants DEF Events!EventConstants, Events!Sent

LEMMA EventsInitially ==
    ASSUME Events!Init
    PROVE  EventsInv
  BY DEF Events!Init, EventsInv, Events!TypeOK, Publication, Published, Connected, CountsAgree,
     Events!NoticesHeard, Events!Sent

(* A publication goes on.  No notice counts as sent that was not.          *)
LEMMA PublicationMoves ==
    ASSUME EventsInv, NEW e \in Event, NEW s \in Publication, Events!To(e, s),
           UNCHANGED <<event_world, senders, conn, heard, known>>,
           s \in {"remove", "webhooks", "after", "done"} =>
             e \notin Notice \/ stage[e] \in {"remove", "webhooks", "after", "done"},
           DOMAIN inbox \subseteq DOMAIN inbox'
    PROVE  /\ stage' \in [Event -> Publication] /\ stage'[e] = s
           /\ \A d \in Event \ {e} : stage'[d] = stage[d]
           /\ Connected' /\ Events!NoticesHeard'
<1>1. /\ stage' \in [Event -> Publication] /\ stage'[e] = s
      /\ \A d \in Event \ {e} : stage'[d] = stage[d]
  BY DEF EventsInv, Events!To
<1>2. Events!Sent' \cap Notice \subseteq Events!Sent \cap Notice
  BY <1>1, EventFacts
<1>3. Connected'
  BY DEF EventsInv, Connected
<1>4. Events!NoticesHeard'
  BY <1>2 DEF EventsInv, Events!NoticesHeard
<1> QED
  BY <1>1, <1>3, <1>4

LEMMA Publishing ==
    ASSUME EventsInv, NEW e \in Event, Events!Publish(e) \/ Events!FireAfterEvent(e)
    PROVE  EventsInv'
<1>1. PICK s \in Publication :
        /\ Events!To(e, s)
        /\ \/ s \in {"webhooks", "after", "audit"} /\ e \notin Notice
           \/ s = "row" /\ e \in Notice
           \/ s = "done" /\ stage[e] = "after"
        /\ UNCHANGED <<event_world, inbox, audit_log, senders, conn, heard, known, jobs,
                       webhooks, streak>>
  BY DEF Events!Publish, Events!FireAfterEvent, Events!At, Events!clients, Events!deliveries,
     Publication
<1>2. /\ stage' \in [Event -> Publication] /\ stage'[e] = s
      /\ \A d \in Event \ {e} : stage'[d] = stage[d]
      /\ Connected' /\ Events!NoticesHeard'
  BY <1>1, PublicationMoves
<1>3. Published'
  BY <1>1, <1>2 DEF EventsInv, Published
<1> QED
  BY <1>1, <1>2, <1>3 DEF EventsInv, Events!TypeOK, CountsAgree

LEMMA RowCreated ==
    ASSUME EventsInv, NEW e \in Event, Events!CreateRow(e)
    PROVE  EventsInv'
<1>1. /\ stage[e] = "row" /\ e \in Notice /\ Events!To(e, "push") /\ "push" \in Publication
      /\ UNCHANGED <<event_world, audit_log, senders, conn, heard, known, jobs, webhooks, streak>>
  BY DEF Events!CreateRow, Events!At, Events!clients, Events!deliveries, EventsInv, Published,
     Publication
<1>2. /\ DOMAIN inbox' \in {DOMAIN inbox, DOMAIN inbox \cup {e}}
      /\ "error" \notin event_world => e \in DOMAIN inbox'
  BY DEF Events!CreateRow
<1>3. /\ stage' \in [Event -> Publication] /\ stage'[e] = "push"
      /\ \A d \in Event \ {e} : stage'[d] = stage[d]
      /\ Connected' /\ Events!NoticesHeard'
  BY <1>1, <1>2, PublicationMoves
<1>4. Published'
  BY <1>1, <1>2, <1>3 DEF EventsInv, Published
<1>5. Events!TypeOK'
  BY <1>1, <1>2 DEF EventsInv, Events!TypeOK
<1> QED
  BY <1>1, <1>3, <1>4, <1>5 DEF EventsInv, CountsAgree

LEMMA Audited ==
    ASSUME EventsInv, NEW e \in Event, Events!Audit(e)
    PROVE  EventsInv'
<1>1. PICK s \in Publication :
        /\ Events!To(e, s) /\ s \in {"webhooks", "after"} /\ e \notin Notice
        /\ audit_log' \subseteq audit_log \cup {e}
        /\ UNCHANGED <<event_world, inbox, senders, conn, heard, known, jobs, webhooks, streak>>
  BY DEF Events!Audit, Events!At, Events!clients, Events!deliveries, EventsInv, Published,
     Publication
<1>2. /\ stage' \in [Event -> Publication] /\ stage'[e] = s
      /\ \A d \in Event \ {e} : stage'[d] = stage[d]
      /\ Connected' /\ Events!NoticesHeard'
  BY <1>1, PublicationMoves
<1>3. Published' /\ Events!TypeOK'
  BY <1>1, <1>2 DEF EventsInv, Published, Events!TypeOK
<1> QED
  BY <1>1, <1>2, <1>3 DEF EventsInv, CountsAgree

(* The push: whoever is connected is sent the notice.                      *)
LEMMA Pushed ==
    ASSUME EventsInv, NEW e \in Event, Events!Push(e)
    PROVE  EventsInv'
<1> DEFINE live == {c \in senders : conn[c] = "open"}
<1>1. PICK s \in Publication :
        /\ Events!To(e, s) /\ s \in {"remove", "webhooks"}
        /\ stage[e] = "push" /\ e \in Notice
        /\ heard' = [c \in Conn |-> IF c \in live THEN heard[c] \cup {e} ELSE heard[c]]
        /\ senders' = live
        /\ UNCHANGED <<event_world, inbox, audit_log, conn, known, jobs, webhooks, streak>>
  BY DEF Events!Push, Events!At, Events!deliveries, EventsInv, Published, Publication,
     Events!Live
<1>2. /\ stage' \in [Event -> Publication] /\ stage'[e] = s
      /\ \A d \in Event \ {e} : stage'[d] = stage[d]
  BY <1>1 DEF EventsInv, Events!To
<1>3. Published' /\ Connected' /\ CountsAgree'
  BY <1>1, <1>2 DEF EventsInv, Published, Connected, CountsAgree
<1>4. Events!TypeOK'
  BY <1>1 DEF EventsInv, Events!TypeOK
<1>5. Events!NoticesHeard'
  <2> SUFFICES ASSUME NEW c \in Conn
               PROVE  /\ conn'[c] = "open" /\ "restart" \notin event_world' =>
                           (Events!Sent' \cap Notice) \ known'[c] \subseteq heard'[c]
                      /\ "error" \notin event_world' => heard'[c] \subseteq DOMAIN inbox'
    BY DEF Events!NoticesHeard
  <2>1. /\ conn[c] = "open" /\ "restart" \notin event_world =>
             (Events!Sent \cap Notice) \ known[c] \subseteq heard[c]
        /\ "error" \notin event_world => heard[c] \subseteq DOMAIN inbox /\ e \in DOMAIN inbox
    BY <1>1 DEF EventsInv, Events!NoticesHeard, Published
  <2>2. Events!Sent' \subseteq Events!Sent \cup {e}
    BY <1>2, EventFacts
  <2>3. conn[c] = "open" => c \in live
    BY DEF EventsInv, Connected
  <2>4. heard'[c] = IF c \in live THEN heard[c] \cup {e} ELSE heard[c]
    BY <1>1
  <2> HIDE DEF live
  <2> QED
    BY <1>1, <2>1, <2>2, <2>3, <2>4
<1> QED
  BY <1>1, <1>2, <1>3, <1>4, <1>5 DEF EventsInv

LEMMA EntryRemoved ==
    ASSUME EventsInv, NEW e \in Event, Events!RemoveEntry(e)
    PROVE  EventsInv'
<1>1. /\ stage[e] = "remove" /\ Events!To(e, "webhooks")
      /\ conn' = [c \in Conn |-> IF c \in senders THEN "closed" ELSE conn[c]]
      /\ senders' = {}
      /\ UNCHANGED <<event_world, inbox, audit_log, heard, known, jobs, webhooks, streak>>
  BY DEF Events!RemoveEntry, Events!At, Events!deliveries
<1>2. /\ stage' \in [Event -> Publication] /\ stage'[e] = "webhooks"
      /\ \A d \in Event \ {e} : stage'[d] = stage[d]
  BY <1>1 DEF EventsInv, Events!To, Publication
<1>3. Published' /\ CountsAgree' /\ Events!TypeOK'
  BY <1>1, <1>2 DEF EventsInv, Published, CountsAgree, Events!TypeOK
<1>4. \A c \in Conn : conn'[c] # "open"
  BY <1>1 DEF EventsInv, Connected
<1>5. Connected' /\ Events!NoticesHeard'
  BY <1>1, <1>4 DEF EventsInv, Connected, Events!NoticesHeard
<1> QED
  BY <1>1, <1>2, <1>3, <1>5 DEF EventsInv

LEMMA WebhooksDispatched ==
    ASSUME EventsInv, NEW e \in Event, Events!DispatchWebhooks(e)
    PROVE  EventsInv'
<1>1. /\ stage[e] = "webhooks" /\ Events!To(e, "after") /\ "after" \in Publication
      /\ jobs' \subseteq jobs \cup {[event |-> e, hook |-> h, step |-> "send"] : h \in Hook}
      /\ UNCHANGED <<event_world, inbox, audit_log, senders, conn, heard, known, webhooks, streak>>
  BY DEF Events!DispatchWebhooks, Events!At, Events!clients, Publication,
     Events!find_subscribed
<1>2. /\ stage' \in [Event -> Publication] /\ stage'[e] = "after"
      /\ \A d \in Event \ {e} : stage'[d] = stage[d]
      /\ Connected' /\ Events!NoticesHeard'
  BY <1>1, PublicationMoves
<1>3. jobs' \subseteq Job
  BY <1>1 DEF EventsInv, Job
<1>4. Published' /\ Events!TypeOK'
  BY <1>1, <1>2 DEF EventsInv, Published, Events!TypeOK
<1> QED
  BY <1>1, <1>2, <1>3, <1>4 DEF EventsInv, CountsAgree

(* The user: what is not a publication sends nothing and takes nothing     *)
(* back.                                                                   *)
LEMMA UserActs ==
    ASSUME EventsInv,
           \/ \E c \in Conn : Events!Subscribe(c) \/ Events!Disconnect(c)
           \/ Events!Evict \/ Events!MarkAllRead
           \/ \E e \in Event : Events!MarkRead(e)
    PROVE  EventsInv'
<1>1. CASE Events!MarkAllRead \/ \E e \in Event : Events!MarkRead(e)
  <2>1. /\ DOMAIN inbox' = DOMAIN inbox
        /\ UNCHANGED <<event_world, stage, audit_log, senders, conn, heard, known, jobs,
                       webhooks, streak>>
    BY <1>1 DEF Events!MarkAllRead, Events!MarkRead, Events!clients, Events!deliveries
  <2>2. Events!Sent' = Events!Sent
    BY <2>1, EventFacts
  <2> QED
    BY <2>1, <2>2 DEF EventsInv, Events!TypeOK, Published, Connected, CountsAgree,
       Events!NoticesHeard
<1>2. ASSUME NEW c \in Conn, Events!Subscribe(c)
      PROVE  EventsInv'
  <2>1. /\ conn[c] = "new" /\ conn' = [conn EXCEPT ![c] = "open"]
        /\ senders' = {d \in senders : conn[d] = "open"} \cup {c}
        /\ known' = [known EXCEPT ![c] = Events!Sent]
        /\ UNCHANGED <<event_world, stage, inbox, audit_log, heard, jobs, webhooks, streak>>
    BY <1>2 DEF Events!Subscribe, Events!Live, Events!deliveries
  <2>2. Events!Sent' = Events!Sent /\ Events!Sent \subseteq Event
    BY <2>1, EventFacts
  <2>3. Events!TypeOK'
    BY <2>1, <2>2 DEF EventsInv, Events!TypeOK
  <2>4. Published' /\ Connected' /\ CountsAgree'
    BY <2>1 DEF EventsInv, Events!TypeOK, Published, Connected, CountsAgree
  <2>5. Events!NoticesHeard'
    BY <2>1, <2>2 DEF EventsInv, Events!TypeOK, Events!NoticesHeard
  <2> QED
    BY <2>1, <2>3, <2>4, <2>5 DEF EventsInv
<1>3. ASSUME NEW c \in Conn, Events!Disconnect(c)
      PROVE  EventsInv'
  <2>1. /\ conn[c] = "open" /\ conn' = [conn EXCEPT ![c] = "closed"]
        /\ UNCHANGED <<event_world, stage, inbox, audit_log, senders, heard, known, jobs,
                       webhooks, streak>>
    BY <1>3 DEF Events!Disconnect, Events!deliveries
  <2>2. Events!Sent' = Events!Sent
    BY <2>1, EventFacts
  <2>3. Events!TypeOK'
    BY <2>1 DEF EventsInv, Events!TypeOK
  <2>4. Published' /\ Connected' /\ CountsAgree' /\ Events!NoticesHeard'
    BY <2>1, <2>2 DEF EventsInv, Events!TypeOK, Published, Connected, CountsAgree,
       Events!NoticesHeard
  <2> QED
    BY <2>1, <2>3, <2>4 DEF EventsInv
<1>4. CASE Events!Evict
  <2>1. /\ senders' = {d \in senders : conn[d] = "open"}
        /\ UNCHANGED <<event_world, stage, inbox, audit_log, conn, heard, known, jobs,
                       webhooks, streak>>
    BY <1>4 DEF Events!Evict, Events!Live, Events!deliveries
  <2>2. Events!Sent' = Events!Sent
    BY <2>1, EventFacts
  <2> QED
    BY <2>1, <2>2 DEF EventsInv, Events!TypeOK, Published, Connected, CountsAgree,
       Events!NoticesHeard
<1> QED
  BY <1>1, <1>2, <1>3, <1>4

(* A webhook's task, or the administrator's change of a webhook: the count *)
(* of failures and their history go together.                              *)
LEMMA DeliveryMoves ==
    ASSUME EventsInv, jobs' \subseteq Job, CountsAgree',
           webhooks' \in [Hook -> [active : BOOLEAN, failures : Nat]], streak' \in [Hook -> Nat],
           UNCHANGED <<event_world, stage, inbox, audit_log, senders, conn, heard, known>>
    PROVE  EventsInv'
<1>1. Events!Sent' = Events!Sent
  BY EventFacts
<1> QED
  BY <1>1 DEF EventsInv, Events!TypeOK, Published, Connected, Events!NoticesHeard

LEMMA Delivered ==
    ASSUME EventsInv, NEW j \in jobs,
           Events!DeliveryAccepted(j) \/ Events!DeliveryFailed(j) \/ Events!DisableWebhook(j)
             \/ Events!RecordingFails(j)
    PROVE  /\ EventsInv'
           /\ Events!DisableWebhook(j) =>
                (webhooks'[j.hook].active # webhooks[j.hook].active =>
                   streak[j.hook] >= MaxFailures)
<1>0. /\ j \in Job /\ j.hook \in Hook /\ jobs \subseteq Job
      /\ webhooks \in [Hook -> [active : BOOLEAN, failures : Nat]] /\ streak \in [Hook -> Nat]
      /\ \A h \in Hook : webhooks[h].failures = streak[h]
  BY DEF EventsInv, Events!TypeOK, Job, CountsAgree
<1>u. UNCHANGED <<event_world, stage, inbox, audit_log, senders, conn, heard, known>>
  BY DEF Events!DeliveryAccepted, Events!DeliveryFailed, Events!DisableWebhook,
     Events!RecordingFails, Events!clients
<1>1. CASE Events!DeliveryAccepted(j)
  <2>1. /\ jobs' = jobs \ {j} /\ streak' = [streak EXCEPT ![j.hook] = 0]
        /\ webhooks' = [webhooks EXCEPT ![j.hook] = [webhooks[j.hook] EXCEPT !.failures = 0]]
    BY <1>0, <1>1 DEF Events!DeliveryAccepted
  <2>2. CountsAgree'
    BY <1>0, <2>1 DEF CountsAgree
  <2> QED
    BY <1>0, <1>u, <1>1, <2>1, <2>2, DeliveryMoves
    DEF Events!DeliveryAccepted, Events!DisableWebhook
<1>2. CASE Events!DeliveryFailed(j)
  <2>1. /\ jobs' = (jobs \ {j}) \cup {[j EXCEPT !.step = "disable"]}
        /\ streak' = [streak EXCEPT ![j.hook] = streak[j.hook] + 1]
        /\ webhooks' = [webhooks EXCEPT ![j.hook] =
                          [webhooks[j.hook] EXCEPT !.failures = webhooks[j.hook].failures + 1]]
    BY <1>0, <1>2 DEF Events!DeliveryFailed
  <2>2. CountsAgree'
    BY <1>0, <2>1 DEF CountsAgree
  <2>3. jobs' \subseteq Job
    BY <1>0, <2>1 DEF Job
  <2> QED
    BY <1>0, <1>u, <1>2, <2>1, <2>2, <2>3, DeliveryMoves
    DEF Events!DeliveryFailed, Events!DisableWebhook
<1>3. CASE Events!DisableWebhook(j)
  <2> DEFINE b == webhooks[j.hook].active /\ webhooks[j.hook].failures < MaxFailures
  <2>1. /\ jobs' = jobs \ {j} /\ streak' = streak
        /\ webhooks' = [webhooks EXCEPT ![j.hook] = [webhooks[j.hook] EXCEPT !.active = b]]
    BY <1>0, <1>3 DEF Events!DisableWebhook
  <2>2. b \in BOOLEAN
    OBVIOUS
  <2>3. webhooks[j.hook].active # b => streak[j.hook] >= MaxFailures
    BY <1>0, EventFacts
  <2> HIDE DEF b
  <2>4. CountsAgree' /\ webhooks' \in [Hook -> [active : BOOLEAN, failures : Nat]]
    BY <1>0, <2>1, <2>2 DEF CountsAgree
  <2>5. webhooks'[j.hook].active = b
    BY <1>0, <2>1
  <2> QED
    BY <1>0, <1>u, <2>1, <2>3, <2>4, <2>5, DeliveryMoves
<1>4. CASE Events!RecordingFails(j)
  <2>1. jobs' = jobs \ {j} /\ UNCHANGED <<webhooks, streak>>
    BY <1>4 DEF Events!RecordingFails
  <2> QED
    BY <1>0, <1>u, <2>1, DeliveryMoves DEF CountsAgree
<1> QED
  BY <1>1, <1>2, <1>3, <1>4

LEMMA HookSet ==
    ASSUME EventsInv, NEW h \in Hook, NEW b \in BOOLEAN, Events!SetActive(h, b)
    PROVE  EventsInv'
<1>1. /\ webhooks' = [webhooks EXCEPT ![h] = [webhooks[h] EXCEPT !.active = b]]
      /\ UNCHANGED <<event_world, stage, inbox, audit_log, senders, conn, heard, known, jobs,
                     streak>>
  BY DEF Events!SetActive, Events!clients, EventsInv, Events!TypeOK
<1>2. CountsAgree' /\ webhooks' \in [Hook -> [active : BOOLEAN, failures : Nat]]
  BY <1>1 DEF EventsInv, Events!TypeOK, CountsAgree
<1> QED
  BY <1>1, <1>2, DeliveryMoves DEF EventsInv, Events!TypeOK

LEMMA EventsRestart ==
    ASSUME EventsInv, Events!Restart
    PROVE  EventsInv'
<1>1. /\ "restart" \in event_world
      /\ stage' = [e \in Event |-> IF stage[e] = "new" THEN "new" ELSE "done"]
      /\ senders' = {} /\ jobs' = {}
      /\ conn' = [c \in Conn |-> IF conn[c] = "open" THEN "closed" ELSE conn[c]]
      /\ UNCHANGED <<event_world, inbox, audit_log, heard, known, webhooks, streak>>
  BY DEF Events!Restart
<1> QED
  BY <1>1 DEF EventsInv, Events!TypeOK, Publication, Published, Connected, CountsAgree,
     Events!NoticesHeard

LEMMA EventsNext ==
    ASSUME EventsInv, Events!Next
    PROVE  EventsInv' /\ Events!DisablingStep
<1>1. EventsInv'
  BY Publishing, RowCreated, Audited, Pushed, EntryRemoved, WebhooksDispatched, UserActs,
     Delivered, HookSet, EventsRestart DEF Events!Next
<1>2. Events!DisablingStep
  BY Delivered DEF Events!DisablingStep
<1> QED
  BY <1>1, <1>2

EventsSide == side = "events" => EventsInv

LEMMA EventsSideHolds == PlatformSpec => []EventsSide
<1>1. PlatformInit => EventsSide
  BY EventsInitially DEF PlatformInit, EventsSide
<1>2. EventsSide /\ [PlatformNext]_platformVars => EventsSide'
  <2>1. ASSUME EventsInv, UNCHANGED eventVars
        PROVE  EventsInv'
    <3>1. Events!Sent' = Events!Sent
      BY <2>1, EventFacts DEF eventVars
    <3> QED
      BY <2>1, <3>1 DEF eventVars, EventsInv, Events!TypeOK, Published, Connected, CountsAgree,
         Events!NoticesHeard
  <2> QED
    BY <2>1, EventsNext DEF PlatformNext, platformVars, EventsSide
<1> QED
  BY <1>1, <1>2, PTL DEF PlatformSpec

(* An open connection has been sent every notice since it was made, and    *)
(* what it was sent is in the inbox (notifications.rs, sse_bus.rs),        *)
(* however publications, connections, evictions and errors interleave.     *)
THEOREM NoticesAlwaysHeard == PlatformSpec => []NoticesHeard
<1>1. EventsSide => NoticesHeard
  BY DEF EventsSide, EventsInv, NoticesHeard
<1> QED
  BY <1>1, EventsSideHolds, PTL

(* No task disables a webhook short of the threshold of failures since a   *)
(* success (webhook_repository.rs), however many deliver at once.          *)
THEOREM DisabledForFailuresOnly == PlatformSpec => DisabledByFailures
<1>1. EventsSide /\ [PlatformNext]_platformVars =>
        [side = "events" => Events!DisablingStep]_eventVars
  BY EventsNext DEF EventsSide, PlatformNext, platformVars
<1> QED
  BY <1>1, EventsSideHolds, PTL DEF PlatformSpec, DisabledByFailures

-----------------------------------------------------------------------------
(* The runtime of a script plugin.                                         *)

Calls == HookCall \cup RpcCall \cup AfterEvent
Runtimes == 1 .. MaxRuntimes
Message == Calls \cup {Shutdown}

ScriptTyped ==
    /\ Scripts!TypeOK
    /\ made # 0 /\ (turn # "idle" => made < MaxRuntimes)
    /\ queue \in [Runtimes -> Seq(Message)]
    /\ hand \in [Runtimes -> Nat \cup {NoValue}]

(* A runtime that was let go has been replaced and nobody waits on it; a   *)
(* thread ends for that or because its bundle did not load; one that runs  *)
(* a handler runs a call of its own.                                       *)
Let(g) ==
    /\ g \in let_go => g # current /\ \A c \in Calls : told[c] = "waiting" => home[c] # g
    /\ worker[g] = "ended" => g \in let_go \cup failed
    /\ g > made => worker[g] = "none"
    /\ running[g] # Nobody => /\ worker[g] = "running"
                              /\ home[running[g]] = g /\ post[running[g]] = "running"
    /\ hand[g] # NoValue => running[g] # Nobody /\ deed[running[g]] = "count"

(* A call is in the channel of its runtime once, while it is queued, and a *)
(* Shutdown only in that of a runtime that was let go.                     *)
InLine(q, g, closed, h, p) ==
    \A i \in 1 .. Len(q) :
      IF q[i] = Shutdown THEN closed
      ELSE /\ h[q[i]] = g /\ p[q[i]] = "queued"
           /\ \A j \in 1 .. Len(q) : q[j] = q[i] => j = i

(* Where a call stands with its caller and where its message does.         *)
Posted(c) ==
    /\ told[c] \in {"idle", "found"} => post[c] = "none"
    /\ told[c] = "found" => c \in RpcCall
    /\ told[c] = "waiting" => home[c] # 0 /\ (c \in AfterEvent => post[c] = "none")
    /\ post[c] \in {"sending", "queued", "running"} => home[c] # 0
    /\ post[c] = "sending" => c \notin AfterEvent
    /\ c \notin AfterEvent => post[c] # "handled"
    /\ told[c] = "waiting" /\ c \notin AfterEvent /\ post[c] = "dropped" => home[c] \in failed
    /\ told[c] = "unheard" => home[c] \in failed

Counted == {c \in Calls : deed[c] = "count" /\ post[c] \in Scripts!Over \ {"dropped"}}

(* What the plugin has counted, and what a handler has in hand.            *)
Tally ==
    /\ kv <= Cardinality(Counted)
    /\ \A g \in Runtimes : hand[g] # NoValue => hand[g] <= Cardinality(Counted)
    /\ made = 1 /\ "db_error" \notin script_world.events =>
         /\ kv = Cardinality(Counted)
         /\ \A g \in Runtimes : hand[g] # NoValue => hand[g] = kv

ScriptInv ==
    /\ ScriptTyped
    /\ \A g \in Runtimes : Let(g) /\ InLine(queue[g], g, g \in let_go, home, post)
    /\ \A c \in Calls : Posted(c)
    /\ Tally

LEMMA ScriptFacts ==
    /\ Scripts!ScriptCall = Calls /\ Scripts!Runtime = Runtimes
    /\ Capacity \in Nat \ {0} /\ MaxRuntimes \in Nat \ {0}
    /\ HookCall \cap RpcCall = {} /\ AfterEvent \cap (HookCall \cup RpcCall) = {}
    /\ IsFiniteSet(Calls) /\ Nobody \notin Calls /\ Shutdown \notin Calls
    /\ NoValue \notin Nat
  BY PlatformConstants DEF Scripts!ScriptConstants, Scripts!IsFiniteSet, IsFiniteSet, Calls,
     Runtimes, Scripts!ScriptCall, Scripts!Runtime

LEMMA TypedScripts ==
    ASSUME ScriptTyped
    PROVE  /\ script_world \in ScriptWorlds
           /\ enabled \in BOOLEAN /\ turn \in {"idle", "remove", "insert"}
           /\ made \in 1 .. MaxRuntimes /\ current \in 0 .. made
           /\ let_go \subseteq 1 .. made /\ failed \subseteq 1 .. made
           /\ worker \in [Runtimes -> {"none", "booting", "ready", "running", "ended"}]
           /\ \A g \in Runtimes : Len(queue[g]) <= Capacity
           /\ running \in [Runtimes -> Calls \cup {Nobody}]
           /\ deed \in [Calls -> Scripts!Deed] /\ home \in [Calls -> 0 .. made]
           /\ told \in [Calls -> Scripts!Told] /\ post \in [Calls -> Scripts!Fate]
           /\ kv \in 0 .. Cardinality(Calls)
           /\ Cardinality(Calls) \in Nat
<1>1. Scripts!Cardinality(Calls) = Cardinality(Calls)
  BY DEF Scripts!Cardinality, Cardinality, Scripts!IsFiniteSet, IsFiniteSet
<1>2. Cardinality(Calls) \in Nat
  BY FS_CardinalityType, ScriptFacts
<1> QED
  BY <1>1, <1>2, ScriptFacts DEF ScriptTyped, Scripts!TypeOK, Runtimes

LEMMA ScriptsTyped ==
    ASSUME script_world' \in ScriptWorlds,
           enabled' \in BOOLEAN, turn' \in {"idle", "remove", "insert"},
           made' \in 1 .. MaxRuntimes, current' \in 0 .. made',
           turn' # "idle" => made' < MaxRuntimes,
           let_go' \subseteq 1 .. made', failed' \subseteq 1 .. made',
           worker' \in [Runtimes -> {"none", "booting", "ready", "running", "ended"}],
           queue' \in [Runtimes -> Seq(Message)],
           \A g \in Runtimes : Len(queue'[g]) <= Capacity,
           hand' \in [Runtimes -> Nat \cup {NoValue}],
           running' \in [Runtimes -> Calls \cup {Nobody}],
           deed' \in [Calls -> Scripts!Deed], home' \in [Calls -> 0 .. made'],
           told' \in [Calls -> Scripts!Told], post' \in [Calls -> Scripts!Fate],
           kv' \in 0 .. Cardinality(Calls)
    PROVE  ScriptTyped'
<1>1. Scripts!Cardinality(Calls) = Cardinality(Calls)
  BY DEF Scripts!Cardinality, Cardinality, Scripts!IsFiniteSet, IsFiniteSet
<1>2. Scripts!TypeOK'
  BY <1>1, ScriptFacts DEF Scripts!TypeOK, Runtimes
<1> QED
  BY <1>2 DEF ScriptTyped

LEMMA LineClosed ==
    ASSUME NEW q \in Seq(Message), NEW g, NEW h, NEW p, InLine(q, g, TRUE, h, p)
    PROVE  /\ Append(q, Shutdown) \in Seq(Message)
           /\ Len(Append(q, Shutdown)) = Len(q) + 1
           /\ InLine(Append(q, Shutdown), g, TRUE, h, p)
<1> DEFINE r == Append(q, Shutdown)
<1>1. /\ r \in Seq(Message) /\ Len(r) = Len(q) + 1 /\ Len(q) \in Nat
      /\ r[Len(q) + 1] = Shutdown
      /\ \A i \in 1 .. Len(q) : r[i] = q[i]
  BY DEF Message
<1>2. \A i \in 1 .. Len(r) : i \in 1 .. Len(q) \/ i = Len(q) + 1
  BY <1>1
<1>3. InLine(r, g, TRUE, h, p)
  <2> HIDE DEF r
  <2> QED
    BY <1>1, <1>2 DEF InLine
<1> QED
  BY <1>1, <1>3

LEMMA LineGrown ==
    ASSUME NEW q \in Seq(Message), NEW g, NEW L, NEW h, NEW p, NEW pp,
           NEW x \in Calls, InLine(q, g, g \in L, h, p), h[x] = g, p[x] # "queued",
           pp[x] = "queued", \A c \in Calls \ {x} : pp[c] = p[c]
    PROVE  /\ Append(q, x) \in Seq(Message)
           /\ Len(Append(q, x)) = Len(q) + 1
           /\ InLine(Append(q, x), g, g \in L, h, pp)
<1> DEFINE r == Append(q, x)
<1>1. /\ r \in Seq(Message) /\ Len(r) = Len(q) + 1 /\ Len(q) \in Nat
      /\ r[Len(q) + 1] = x
      /\ \A i \in 1 .. Len(q) : r[i] = q[i]
  BY DEF Message
<1>2. \A i \in 1 .. Len(r) : i \in 1 .. Len(q) \/ i = Len(q) + 1
  BY <1>1
<1>3. \A i \in 1 .. Len(q) : q[i] \in Calls \cup {Shutdown} /\ q[i] # x
  <2>1. \A i \in 1 .. Len(q) : q[i] \in Calls \cup {Shutdown}
    BY DEF Message
  <2> QED
    BY <2>1, ScriptFacts DEF InLine
<1>4. InLine(r, g, g \in L, h, pp)
  <2> HIDE DEF r
  <2> QED
    BY <1>1, <1>2, <1>3, ScriptFacts DEF InLine
<1> QED
  BY <1>1, <1>4

LEMMA LineServed ==
    ASSUME NEW q \in Seq(Message), q # <<>>, NEW g, NEW L, NEW h, NEW p, NEW pp,
           NEW x, x = Head(q), x # Shutdown, InLine(q, g, g \in L, h, p),
           \A c \in Calls \ {x} : pp[c] = p[c]
    PROVE  /\ Tail(q) \in Seq(Message) /\ Len(Tail(q)) <= Len(q)
           /\ InLine(Tail(q), g, g \in L, h, pp)
<1> DEFINE r == Tail(q)
<1>1. /\ r \in Seq(Message) /\ Len(r) = Len(q) - 1 /\ Len(q) \in Nat \ {0}
      /\ x = q[1] /\ x \in Message
      /\ \A i \in 1 .. Len(q) - 1 : r[i] = q[i + 1]
  OBVIOUS
<1>2. \A i \in 1 .. Len(r) : i + 1 \in 1 .. Len(q) /\ r[i] = q[i + 1]
  BY <1>1
<1>3. \A i \in 1 .. Len(r) : r[i] \in Calls \cup {Shutdown} /\ r[i] # x
  <2>1. \A i \in 1 .. Len(r) : r[i] \in Calls \cup {Shutdown}
    BY <1>1 DEF Message
  <2>2. 1 \in 1 .. Len(q) /\ \A i \in 1 .. Len(r) : i + 1 # 1
    BY <1>1
  <2> QED
    BY <2>1, <2>2, <1>1, <1>2 DEF InLine
<1>4. InLine(r, g, g \in L, h, pp)
  <2> HIDE DEF r
  <2> SUFFICES ASSUME NEW i \in 1 .. Len(r)
               PROVE  IF r[i] = Shutdown THEN g \in L
                      ELSE /\ h[r[i]] = g /\ pp[r[i]] = "queued"
                           /\ \A j \in 1 .. Len(r) : r[j] = r[i] => j = i
    BY DEF InLine
  <2>1. IF q[i + 1] = Shutdown THEN g \in L
        ELSE /\ h[q[i + 1]] = g /\ p[q[i + 1]] = "queued"
             /\ \A j \in 1 .. Len(q) : q[j] = q[i + 1] => j = i + 1
    BY <1>2 DEF InLine
  <2>2. \A j \in 1 .. Len(r) : j + 1 = i + 1 => j = i
    OBVIOUS
  <2> QED
    BY <2>1, <2>2, <1>2, <1>3
<1> QED
  BY <1>1, <1>4
LEMMA CountedFinite ==
    /\ Cardinality(Counted) \in Nat /\ Cardinality(Counted) <= Cardinality(Calls)
    /\ Cardinality(Counted') \in Nat /\ Cardinality(Counted') <= Cardinality(Calls)
    /\ IsFiniteSet(Counted)
<1>1. \A S : S \subseteq Calls =>
        IsFiniteSet(S) /\ Cardinality(S) \in Nat /\ Cardinality(S) <= Cardinality(Calls)
  BY ScriptFacts, FS_Subset, FS_CardinalityType
<1>2. Counted \subseteq Calls /\ Counted' \subseteq Calls
  BY DEF Counted
<1> QED
  BY <1>1, <1>2

(* Nothing is counted, and no handler counts or stops counting.            *)
LEMMA TallyKept ==
    ASSUME ScriptInv, Counted' = Counted, kv' = kv, hand' = hand,
           script_world' = script_world, made' \in Nat, made' >= made
    PROVE  Tally'
<1>1. made' = 1 => made = 1
  BY TypedScripts DEF ScriptInv
<1> QED
  BY <1>1 DEF ScriptInv, Tally

LEMMA ScriptsInitially ==
    ASSUME Scripts!Init
    PROVE  ScriptInv
<1>1. /\ script_world \in ScriptWorlds
      /\ enabled = TRUE /\ turn = "idle" /\ current = 1 /\ made = 1
      /\ let_go = {} /\ failed = {}
      /\ worker = [g \in Runtimes |-> IF g = 1 THEN "booting" ELSE "none"]
      /\ queue = [g \in Runtimes |-> <<>>]
      /\ running = [g \in Runtimes |-> Nobody]
      /\ hand = [g \in Runtimes |-> NoValue]
      /\ deed = [c \in Calls |-> "missing"]
      /\ home = [c \in Calls |-> 0]
      /\ told = [c \in Calls |-> "idle"]
      /\ post = [c \in Calls |-> "none"]
      /\ kv = 0
  BY ScriptFacts DEF Scripts!Init
<1>2. Scripts!Cardinality(Calls) = Cardinality(Calls) /\ Cardinality(Calls) \in Nat
  BY ScriptFacts, FS_CardinalityType
     DEF Scripts!Cardinality, Cardinality, Scripts!IsFiniteSet, IsFiniteSet
<1>3. \A g \in Runtimes : queue[g] \in Seq(Message) /\ Len(queue[g]) = 0
  BY <1>1
<1>4. Scripts!TypeOK
  <2>1. /\ made \in 0 .. MaxRuntimes /\ current \in 0 .. made
        /\ let_go \subseteq 1 .. made /\ failed \subseteq 1 .. made
    BY <1>1, ScriptFacts
  <2>2. \A g \in Runtimes : Len(queue[g]) <= Capacity
    BY <1>3, ScriptFacts
  <2>3. /\ deed \in [Calls -> Scripts!Deed] /\ home \in [Calls -> 0 .. made]
        /\ told \in [Calls -> Scripts!Told] /\ post \in [Calls -> Scripts!Fate]
    BY <1>1 DEF Scripts!Deed, Scripts!Told, Scripts!Fate
  <2> QED
    BY <1>1, <1>2, <2>1, <2>2, <2>3, ScriptFacts DEF Scripts!TypeOK
<1>5. ScriptTyped
  BY <1>1, <1>3, <1>4 DEF ScriptTyped
<1>6. \A g \in Runtimes : Let(g) /\ InLine(queue[g], g, g \in let_go, home, post)
  <2> SUFFICES ASSUME NEW g \in Runtimes
               PROVE  Let(g) /\ InLine(queue[g], g, g \in let_go, home, post)
    OBVIOUS
  <2>1. Let(g)
    BY <1>1 DEF Let, Runtimes
  <2>2. InLine(queue[g], g, g \in let_go, home, post)
    BY <1>3 DEF InLine
  <2> QED
    BY <2>1, <2>2
<1>7. \A c \in Calls : Posted(c)
  BY <1>1 DEF Posted
<1>8. Tally
  <2>1. Counted = {}
    BY <1>1 DEF Counted
  <2> QED
    BY <1>1, <2>1, FS_EmptySet DEF Tally
<1> QED
  BY <1>5, <1>6, <1>7, <1>8 DEF ScriptInv

(* A channel nobody writes to or reads from.                               *)
LEMMA LineKept ==
    ASSUME ScriptInv, NEW g \in Runtimes, queue'[g] = queue[g], let_go \subseteq let_go',
           \A c \in Calls : home[c] = g /\ post[c] = "queued" =>
                            home'[c] = g /\ post'[c] = "queued"
    PROVE  /\ InLine(queue[g], g, g \in let_go', home', post')
           /\ InLine(queue[g], g, g \in let_go, home, post)'
<1>1. \A i \in 1 .. Len(queue[g]) : queue[g][i] \in Calls \cup {Shutdown}
  BY DEF ScriptInv, ScriptTyped, Message
<1>2. InLine(queue[g], g, g \in let_go, home, post)
  BY DEF ScriptInv
<1>3. InLine(queue[g], g, g \in let_go', home', post')
  BY <1>1, <1>2 DEF InLine
<1> QED
  BY <1>3

(* A call is made: it is turned away, or it holds the runtime in the       *)
(* registry and has a message to send.                                     *)
LEMMA CallMade ==
    ASSUME ScriptInv, NEW c \in Calls, Scripts!Request(c)
    PROVE  ScriptInv'
<1> DEFINE d == deed'[c]
           t == told'[c]
           p == post'[c]
           h == home'[c]
<1> USE ScriptFacts
<1>1. /\ UNCHANGED <<script_world, enabled, turn, current, made, let_go, failed, worker,
                     queue, running, hand, kv>>
      /\ told[c] \in {"idle", "found"}
      /\ deed' = [deed EXCEPT ![c] = d] /\ d \in Scripts!Deed
      /\ told' = [told EXCEPT ![c] = t] /\ t \in Scripts!Told \ {"idle", "unheard"}
      /\ post' = [post EXCEPT ![c] = p]
      /\ home' = [home EXCEPT ![c] = h]
      /\ IF t = "waiting"
         THEN /\ h = current /\ current # 0
              /\ p = IF c \in AfterEvent THEN "none" ELSE "sending"
         ELSE p = "none" /\ h \in {home[c], current} /\ (t = "found" => c \in RpcCall)
  <2>1. ScriptTyped /\ Posted(c)
    BY DEF ScriptInv
  <2>2. /\ script_world.deeds \subseteq Scripts!Deed
        /\ "missing" \in Scripts!Deed
    BY <2>1, TypedScripts, PlatformConstants DEF Scripts!ScriptConstants, Scripts!Deed
  <2>3. CASE Scripts!DispatchHook(c)
    BY <2>1, <2>2, <2>3, TypedScripts
       DEF Scripts!DispatchHook, Scripts!Arrives, Scripts!registryVars, Scripts!Told
  <2>4. CASE Scripts!InvokeRpc(c)
    BY <2>1, <2>2, <2>4, TypedScripts
       DEF Scripts!InvokeRpc, Scripts!Arrives, Scripts!registryVars, Scripts!Told, Posted
  <2>5. CASE Scripts!DispatchRpc(c)
    BY <2>1, <2>2, <2>5, TypedScripts
       DEF Scripts!DispatchRpc, Scripts!registryVars, Scripts!Told, Posted
  <2>6. CASE Scripts!DispatchEvent(c)
    BY <2>1, <2>2, <2>6, TypedScripts
       DEF Scripts!DispatchEvent, Scripts!Arrives, Scripts!registryVars, Scripts!Told, Posted
  <2> QED
    BY <2>3, <2>4, <2>5, <2>6 DEF Scripts!Request
<1> HIDE DEF d, t, p, h
<1>2. ScriptTyped /\ Posted(c) /\ post[c] = "none"
  BY <1>1 DEF ScriptInv, Posted
<1>3. ScriptTyped'
  <2>1. p \in Scripts!Fate /\ h \in 0 .. made
    BY <1>1, <1>2, TypedScripts DEF Scripts!Fate
  <2>2. /\ deed' \in [Calls -> Scripts!Deed] /\ home' \in [Calls -> 0 .. made']
        /\ told' \in [Calls -> Scripts!Told] /\ post' \in [Calls -> Scripts!Fate]
    BY <1>1, <1>2, <2>1, TypedScripts
  <2> QED
    BY <1>1, <1>2, <2>2, TypedScripts, ScriptsTyped DEF ScriptTyped
<1>4. \A b \in Calls \ {c} : /\ deed'[b] = deed[b] /\ told'[b] = told[b]
                             /\ post'[b] = post[b] /\ home'[b] = home[b]
  BY <1>1, <1>2, TypedScripts
<1>5. ASSUME NEW g \in Runtimes
      PROVE  Let(g)' /\ InLine(queue[g], g, g \in let_go, home, post)'
  <2>1. Let(g) /\ InLine(queue[g], g, g \in let_go, home, post)
    BY DEF ScriptInv
  <2>2. running[g] # Nobody => running[g] \in Calls \ {c}
    BY <1>2, <2>1, TypedScripts DEF Let
  <2>3. Let(g)'
    BY <1>1, <1>2, <1>4, <2>1, <2>2, TypedScripts DEF Let
  <2>4. InLine(queue[g], g, g \in let_go, home, post)'
    BY <1>1, <1>2, <1>4, LineKept
  <2> QED
    BY <2>3, <2>4
<1>6. ASSUME NEW b \in Calls
      PROVE  Posted(b)'
  <2>1. CASE b = c
    BY <1>1, <1>2, <2>1, TypedScripts DEF Posted
  <2>2. CASE b # c
    <3>1. Posted(b)
      BY DEF ScriptInv
    <3> QED
      BY <1>1, <1>4, <2>2, <3>1 DEF Posted
  <2> QED
    BY <2>1, <2>2
<1>7. Tally'
  <2>1. Counted' = Counted
    <3>1. c \notin Counted /\ c \notin Counted'
      BY <1>1, <1>2, TypedScripts DEF Counted, Scripts!Over
    <3> QED
      BY <1>4, <3>1 DEF Counted
  <2> QED
    BY <1>1, <1>2, <2>1, TallyKept, TypedScripts
<1> QED
  BY <1>3, <1>5, <1>6, <1>7 DEF ScriptInv

(* The administrator changes the plugin; the registry lets its runtime go  *)
(* and takes another.                                                      *)
LEMMA Changed ==
    ASSUME ScriptInv, Scripts!Change \/ Scripts!InsertRuntime
    PROVE  ScriptInv'
<1> USE ScriptFacts
<1>1. /\ UNCHANGED <<script_world, let_go, failed, queue, running, hand, deed, home, told,
                     post, kv>>
      /\ enabled' \in BOOLEAN /\ turn' \in {"idle", "remove", "insert"}
      /\ turn' # "idle" => made' < MaxRuntimes
      /\ \/ UNCHANGED <<current, made, worker>>
         \/ /\ made' = made + 1 /\ current' = made + 1 /\ made < MaxRuntimes
            /\ worker' = [worker EXCEPT ![made + 1] = "booting"]
  BY TypedScripts DEF Scripts!Change, Scripts!InsertRuntime, Scripts!NewRuntime,
     Scripts!callVars, ScriptInv, ScriptTyped
<1>2. ScriptTyped
  BY DEF ScriptInv
<1>3. made' \in 1 .. MaxRuntimes /\ made' >= made /\ made \in Nat /\ current' \in 0 .. made'
  BY <1>1, <1>2, TypedScripts
<1>4. ScriptTyped'
  <2>1. worker' \in [Runtimes -> {"none", "booting", "ready", "running", "ended"}]
    BY <1>1, <1>2, TypedScripts
  <2>2. \A n \in 0 .. made : n \in 0 .. made'
    BY <1>3
  <2>3. home \in [Calls -> 0 .. made'] /\ let_go \subseteq 1 .. made' /\ failed \subseteq 1 .. made'
    BY <1>2, <1>3, <2>2, TypedScripts
  <2> QED
    BY <1>1, <1>2, <1>3, <2>1, <2>3, TypedScripts, ScriptsTyped DEF ScriptTyped
<1>5. ASSUME NEW g \in Runtimes
      PROVE  Let(g)' /\ InLine(queue[g], g, g \in let_go, home, post)'
  <2>1. Let(g)
    BY DEF ScriptInv
  <2>2. g \in let_go => g # current' /\ g <= made
    BY <1>1, <1>2, <2>1, TypedScripts DEF Let, Runtimes
  <2>3. /\ g > made' => worker'[g] = "none"
        /\ worker'[g] # worker[g] => worker[g] = "none" /\ worker'[g] = "booting"
    <3>1. CASE UNCHANGED <<current, made, worker>>
      BY <2>1, <3>1 DEF Let
    <3>2. CASE /\ made' = made + 1
               /\ worker' = [worker EXCEPT ![made + 1] = "booting"]
      BY <1>2, <2>1, <3>2, TypedScripts DEF Let, Runtimes
    <3> QED
      BY <1>1, <3>1, <3>2
  <2>4. Let(g)'
    BY <1>1, <2>1, <2>2, <2>3 DEF Let
  <2>5. InLine(queue[g], g, g \in let_go, home, post)'
    BY <1>1, LineKept
  <2> QED
    BY <2>4, <2>5
<1>6. ASSUME NEW b \in Calls
      PROVE  Posted(b)'
  BY <1>1 DEF ScriptInv, Posted
<1>7. Tally'
  BY <1>1, <1>2, <1>3, TallyKept DEF Counted
<1> QED
  BY <1>4, <1>5, <1>6, <1>7 DEF ScriptInv

(* The last holder of a runtime lets it go.                                *)
LEMMA RuntimeRemoved ==
    ASSUME ScriptInv, Scripts!RemoveRuntime
    PROVE  ScriptInv'
<1> USE ScriptFacts
<1>1. /\ UNCHANGED <<script_world, enabled, made, failed, worker, running, hand, deed, home,
                     told, post, kv>>
      /\ turn = "remove" /\ turn' = "insert" /\ current' = 0
      /\ \/ UNCHANGED <<queue, let_go>>
         \/ /\ current # 0 /\ \A c \in Calls : told[c] = "waiting" => home[c] # current
            /\ let_go' = let_go \cup {current}
            /\ queue' = [queue EXCEPT ![current] = Scripts!Closing(current, queue[current])]
  BY DEF Scripts!RemoveRuntime, Scripts!callVars, Scripts!HeldBy
<1>2. ScriptTyped /\ made < MaxRuntimes
  BY <1>1 DEF ScriptInv, ScriptTyped
<1>3. /\ queue' \in [Runtimes -> Seq(Message)]
      /\ \A g \in Runtimes : /\ Len(queue'[g]) <= Capacity
                             /\ InLine(queue[g], g, g \in let_go, home, post)'
  <2>1. CASE UNCHANGED <<queue, let_go>>
    BY <1>1, <1>2, <2>1, LineKept, TypedScripts DEF ScriptTyped
  <2>2. ASSUME current # 0, let_go' = let_go \cup {current},
               queue' = [queue EXCEPT ![current] = Scripts!Closing(current, queue[current])]
        PROVE  /\ queue' \in [Runtimes -> Seq(Message)]
               /\ \A g \in Runtimes : /\ Len(queue'[g]) <= Capacity
                                      /\ InLine(queue[g], g, g \in let_go, home, post)'
    <3>1. current \in Runtimes /\ queue[current] \in Seq(Message)
      BY <1>2, <2>2, TypedScripts DEF Runtimes, ScriptTyped
    <3>2. InLine(queue[current], current, TRUE, home, post)
      BY <3>1 DEF ScriptInv, InLine
    <3>3. queue'[current] = queue[current] \/ /\ queue'[current] = Append(queue[current], Shutdown)
                                              /\ Len(queue[current]) < Capacity
      BY <1>2, <2>2, <3>1 DEF Scripts!Closing, ScriptTyped
    <3>4. /\ queue'[current] \in Seq(Message) /\ Len(queue'[current]) <= Capacity
          /\ InLine(queue'[current], current, TRUE, home, post)
      <4>1. CASE queue'[current] = queue[current]
        BY <1>2, <3>1, <3>2, <4>1, TypedScripts
      <4>2. CASE /\ queue'[current] = Append(queue[current], Shutdown)
                 /\ Len(queue[current]) < Capacity
        <5>1. Len(queue[current]) \in Nat
          BY <3>1
        <5>2. /\ Append(queue[current], Shutdown) \in Seq(Message)
              /\ Len(Append(queue[current], Shutdown)) = Len(queue[current]) + 1
              /\ InLine(Append(queue[current], Shutdown), current, TRUE, home, post)
          BY <3>1, <3>2, LineClosed
        <5>3. Len(queue[current]) + 1 <= Capacity
          BY <4>2, <5>1
        <5> HIDE DEF Message
        <5> QED
          BY <4>2, <5>2, <5>3
      <4> QED
        BY <3>3, <4>1, <4>2
    <3>5. ASSUME NEW g \in Runtimes \ {current}
          PROVE  queue'[g] = queue[g] /\ InLine(queue[g], g, g \in let_go, home, post)'
      BY <1>1, <1>2, <2>2, LineKept DEF ScriptTyped
    <3>6. ASSUME NEW g \in Runtimes, g = current
          PROVE  InLine(queue[g], g, g \in let_go, home, post)'
      BY <1>1, <2>2, <3>4, <3>6 DEF InLine
    <3>7. queue' \in [Runtimes -> Seq(Message)]
      BY <1>2, <2>2, <3>1, <3>4, <3>5 DEF ScriptTyped
    <3> QED
      BY <1>2, <3>4, <3>5, <3>6, <3>7, TypedScripts
  <2> QED
    BY <1>1, <2>1, <2>2
<1>4. ScriptTyped'
  BY <1>1, <1>2, <1>3, TypedScripts, ScriptsTyped DEF ScriptTyped
<1>5. ASSUME NEW g \in Runtimes
      PROVE  Let(g)'
  <2>1. Let(g)
    BY DEF ScriptInv
  <2> QED
    BY <1>1, <1>2, <2>1, TypedScripts DEF Let, Runtimes
<1>6. ASSUME NEW b \in Calls
      PROVE  Posted(b)'
  BY <1>1 DEF ScriptInv, Posted
<1>7. Tally'
  BY <1>1, <1>2, TypedScripts, TallyKept DEF Counted
<1> QED
  BY <1>3, <1>4, <1>5, <1>6, <1>7 DEF ScriptInv

(* The caller of c stops waiting: its runtime, when it was replaced and c  *)
(* was the last to hold it, is let go with a Shutdown in its channel, if   *)
(* there is room.                                                          *)
LEMMA Released ==
    ASSUME ScriptInv, NEW c \in Calls, told[c] = "waiting", NEW s \in Scripts!Told \ {"waiting"},
           told' = [told EXCEPT ![c] = s],
           UNCHANGED <<made, current, failed, worker, running, hand, deed, home>>,
           NEW q \in Seq(Message), Len(q) <= Capacity, Scripts!Release(c, home[c], q),
           InLine(q, home[c], home[c] \in let_go, home, post'),
           \A d \in Calls : post[d] = "queued" => post'[d] = "queued",
           \A d \in Calls : post[d] = "running" => post'[d] = "running"
    PROVE  /\ queue' \in [Runtimes -> Seq(Message)] /\ let_go' \subseteq 1 .. made'
           /\ \A g \in Runtimes : /\ Len(queue'[g]) <= Capacity /\ Let(g)'
                                  /\ InLine(queue[g], g, g \in let_go, home, post)'
<1> USE ScriptFacts
<1> DEFINE g == home[c]
<1>1. ScriptTyped /\ g \in 1 .. made /\ g \in Runtimes
  BY TypedScripts DEF ScriptInv, Posted, Runtimes
<1>2. \/ UNCHANGED let_go /\ queue' = [queue EXCEPT ![g] = q]
      \/ /\ current # g /\ \A d \in Calls \ {c} : told[d] = "waiting" => home[d] # g
         /\ let_go' = let_go \cup {g}
         /\ queue' = [queue EXCEPT ![g] = Scripts!Closing(g, q)]
  BY <1>1 DEF Scripts!Release, Scripts!HeldBy
<1>3. let_go \subseteq let_go' /\ let_go' \subseteq 1 .. made' /\ let_go' \subseteq let_go \cup {g}
  BY <1>1, <1>2, TypedScripts
<1>4. /\ queue'[g] \in Seq(Message) /\ Len(queue'[g]) <= Capacity
      /\ InLine(queue'[g], g, g \in let_go', home', post')
  <2>1. InLine(q, g, TRUE, home, post')
    BY DEF InLine
  <2>2. CASE queue' = [queue EXCEPT ![g] = q]
    <3>1. queue'[g] = q
      BY <1>1, <2>2 DEF ScriptTyped
    <3>2. InLine(q, g, g \in let_go', home', post')
      BY <1>3 DEF InLine
    <3> QED
      BY <3>1, <3>2
  <2>3. CASE /\ g \in let_go' /\ Len(q) < Capacity
             /\ queue' = [queue EXCEPT ![g] = Append(q, Shutdown)]
    <3>1. queue'[g] = Append(q, Shutdown)
      BY <1>1, <2>3 DEF ScriptTyped
    <3>2. /\ Append(q, Shutdown) \in Seq(Message) /\ Len(Append(q, Shutdown)) = Len(q) + 1
          /\ InLine(Append(q, Shutdown), g, TRUE, home, post')
      BY <2>1, LineClosed
    <3>3. Len(q) \in Nat /\ Len(q) + 1 <= Capacity
      BY <2>3
    <3>4. InLine(Append(q, Shutdown), g, g \in let_go', home', post')
      BY <2>3, <3>2 DEF InLine
    <3> HIDE DEF Message, g
    <3> QED
      BY <3>1, <3>2, <3>3, <3>4
  <2> QED
    BY <1>2, <2>2, <2>3 DEF Scripts!Closing
<1>5. ASSUME NEW h \in Runtimes \ {g}
      PROVE  queue'[h] = queue[h] /\ InLine(queue[h], h, h \in let_go, home, post)'
  <2>1. queue'[h] = queue[h]
    BY <1>1, <1>2, <1>5 DEF ScriptTyped
  <2> QED
    BY <1>3, <2>1, LineKept
<1>6. ASSUME NEW h \in Runtimes, h = g
      PROVE  InLine(queue[h], h, h \in let_go, home, post)'
  BY <1>4, <1>6 DEF InLine
<1>7. ASSUME NEW h \in Runtimes
      PROVE  Let(h)'
  <2>1. Let(h)
    BY DEF ScriptInv
  <2>2. h \in let_go' => h # current' /\ \A d \in Calls : told'[d] = "waiting" => home'[d] # h
    BY <1>1, <1>2, <1>3, <2>1, TypedScripts DEF Let
  <2> QED
    BY <1>1, <1>3, <2>1, <2>2, TypedScripts DEF Let
<1>8. queue' \in [Runtimes -> Seq(Message)]
  BY <1>1, <1>2, <1>4, <1>5 DEF ScriptTyped
<1> HIDE DEF g
<1>9. \A h \in Runtimes : Len(queue'[h]) <= Capacity
  BY <1>1, <1>4, <1>5, TypedScripts DEF g
<1> QED
  BY <1>3, <1>5, <1>6, <1>7, <1>8, <1>9 DEF g

(* The message of an after-event is sent, or there is no room for it.      *)
LEMMA EventSent ==
    ASSUME ScriptInv, NEW c \in Calls, Scripts!TrySend(c)
    PROVE  ScriptInv'
<1> USE ScriptFacts
<1> DEFINE g == home[c]
           room == Len(queue[g]) < Capacity /\ worker[g] # "ended"
           q == IF room THEN Append(queue[g], c) ELSE queue[g]
<1>1. /\ c \in AfterEvent /\ told[c] = "waiting"
      /\ post' = [post EXCEPT ![c] = IF room THEN "queued" ELSE "dropped"]
      /\ Scripts!Release(c, g, q)
      /\ told' = [told EXCEPT ![c] = "sent"]
      /\ UNCHANGED <<script_world, enabled, turn, current, made, failed, worker, running, hand,
                     deed, home, kv>>
  BY DEF Scripts!TrySend, Scripts!registryVars
<1>2. ScriptTyped /\ g \in Runtimes /\ queue[g] \in Seq(Message) /\ post[c] = "none"
  BY SMTT(30), <1>1, TypedScripts DEF ScriptInv, Posted, Runtimes, ScriptTyped
<1>3. \A d \in Calls \ {c} : post'[d] = post[d] /\ told'[d] = told[d]
  BY <1>1, <1>2, TypedScripts
<1>4. post'[c] \in {"queued", "dropped"} /\ told'[c] = "sent"
  BY <1>1, <1>2, TypedScripts
<1>5. /\ q \in Seq(Message) /\ Len(q) <= Capacity
      /\ InLine(q, g, g \in let_go, home, post')
  <2>1. InLine(queue[g], g, g \in let_go, home, post)
    BY <1>2 DEF ScriptInv
  <2>2. CASE room
    <3>1. post'[c] = "queued" /\ post[c] # "queued"
      BY <1>1, <1>2, <2>2, TypedScripts
    <3>2. /\ Append(queue[g], c) \in Seq(Message)
          /\ Len(Append(queue[g], c)) = Len(queue[g]) + 1
          /\ InLine(Append(queue[g], c), g, g \in let_go, home, post')
      BY <1>2, <1>3, <2>1, <3>1, LineGrown
    <3>3. Len(queue[g]) \in Nat /\ Len(queue[g]) + 1 <= Capacity
      BY <1>2, <2>2
    <3>4. q = Append(queue[g], c)
      BY <2>2
    <3> HIDE DEF g, room, q, Message
    <3> QED
      BY <3>2, <3>3, <3>4
  <2>3. CASE ~room
    <3>1. \A d \in Calls : home[d] = g /\ post[d] = "queued" => post'[d] = "queued"
      BY <1>2, <1>3
    <3>2. \A i \in 1 .. Len(queue[g]) : queue[g][i] \in Calls \cup {Shutdown}
      BY <1>2 DEF Message
    <3>3. InLine(queue[g], g, g \in let_go, home, post')
      BY <2>1, <3>1, <3>2 DEF InLine
    <3> QED
      BY <1>2, <2>3, <3>3, TypedScripts
  <2> QED
    BY <2>2, <2>3
<1> HIDE DEF q, room
<1>6. /\ queue' \in [Runtimes -> Seq(Message)] /\ let_go' \subseteq 1 .. made'
      /\ \A h \in Runtimes : /\ Len(queue'[h]) <= Capacity /\ Let(h)'
                             /\ InLine(queue[h], h, h \in let_go, home, post)'
  BY <1>1, <1>2, <1>3, <1>5, Released DEF Scripts!Told
<1>7. ScriptTyped'
  <2>1. told' \in [Calls -> Scripts!Told] /\ post' \in [Calls -> Scripts!Fate]
    BY <1>1, <1>2, TypedScripts DEF Scripts!Told, Scripts!Fate
  <2> QED
    BY <1>1, <1>2, <1>6, <2>1, TypedScripts, ScriptsTyped DEF ScriptTyped
<1>8. ASSUME NEW b \in Calls
      PROVE  Posted(b)'
  <2>1. Posted(b)
    BY DEF ScriptInv
  <2> QED
    BY <1>1, <1>2, <1>3, <1>4, <2>1 DEF Posted
<1>9. Tally'
  <2>1. Counted' = Counted
    <3>1. c \notin Counted /\ c \notin Counted'
      BY <1>2, <1>4 DEF Counted, Scripts!Over
    <3> QED
      BY <1>1, <1>3, <3>1 DEF Counted
  <2> QED
    BY <1>1, <1>2, <2>1, TallyKept, TypedScripts
<1> QED
  BY <1>6, <1>7, <1>8, <1>9 DEF ScriptInv

(* The blocking send finds room, or the thread gone.                       *)
LEMMA MessageSent ==
    ASSUME ScriptInv, NEW c \in Calls, Scripts!Send(c)
    PROVE  ScriptInv'
<1> USE ScriptFacts
<1> DEFINE g == home[c]
<1>1. /\ post[c] = "sending"
      /\ UNCHANGED <<script_world, enabled, turn, current, made, let_go, failed, worker, running,
                     hand, deed, home, told, kv>>
      /\ \/ /\ worker[g] = "ended" /\ UNCHANGED queue
            /\ post' = [post EXCEPT ![c] = "dropped"]
         \/ /\ Len(queue[g]) < Capacity
            /\ post' = [post EXCEPT ![c] = "queued"]
            /\ queue' = [queue EXCEPT ![g] = Append(queue[g], c)]
  BY DEF Scripts!Send, Scripts!registryVars
<1>2. /\ ScriptTyped /\ g \in Runtimes /\ queue[g] \in Seq(Message)
      /\ c \notin AfterEvent /\ told[c] # "idle" /\ told[c] # "found" /\ Let(g) /\ home[c] # 0
  BY <1>1, TypedScripts DEF ScriptInv, Posted, Runtimes, ScriptTyped
<1>3. \A d \in Calls \ {c} : post'[d] = post[d]
  BY <1>1, <1>2, TypedScripts
<1>4. /\ post'[c] \in {"queued", "dropped"}
      /\ post'[c] = "dropped" => worker[g] = "ended"
  BY <1>1, <1>2, TypedScripts
<1>5. /\ queue'[g] \in Seq(Message) /\ Len(queue'[g]) <= Capacity
      /\ InLine(queue'[g], g, g \in let_go, home, post')
      /\ \A h \in Runtimes \ {g} : queue'[h] = queue[h]
      /\ DOMAIN queue' = Runtimes /\ queue' = [h \in Runtimes |-> queue'[h]]
  <2>1. CASE UNCHANGED queue
    <3>1. InLine(queue[g], g, g \in let_go', home', post')
      BY <1>1, <1>2, <1>3, <2>1, LineKept
    <3> QED
      BY <1>1, <1>2, <2>1, <3>1, TypedScripts DEF ScriptTyped
  <2>2. CASE /\ Len(queue[g]) < Capacity
             /\ post' = [post EXCEPT ![c] = "queued"]
             /\ queue' = [queue EXCEPT ![g] = Append(queue[g], c)]
    <3>1. /\ Append(queue[g], c) \in Seq(Message)
          /\ Len(Append(queue[g], c)) = Len(queue[g]) + 1
          /\ InLine(Append(queue[g], c), g, g \in let_go, home, post')
      <4>1. InLine(queue[g], g, g \in let_go, home, post)
        BY <1>2 DEF ScriptInv
      <4>2. post'[c] = "queued"
        BY <1>2, <2>2, TypedScripts
      <4> QED
        BY <1>1, <1>2, <1>3, <4>1, <4>2, LineGrown
    <3>2. Len(queue[g]) \in Nat /\ Len(queue[g]) + 1 <= Capacity
      BY <1>2, <2>2
    <3>3. queue'[g] = Append(queue[g], c)
      BY <1>2, <2>2 DEF ScriptTyped
    <3>4. /\ \A h \in Runtimes \ {g} : queue'[h] = queue[h]
          /\ DOMAIN queue' = Runtimes /\ queue' = [h \in Runtimes |-> queue'[h]]
      BY <1>2, <2>2 DEF ScriptTyped
    <3> HIDE DEF g, Message
    <3> QED
      BY <3>1, <3>2, <3>3, <3>4
  <2> QED
    BY <1>1, <2>1, <2>2
<1>6. ScriptTyped'
  <2>1. queue' \in [Runtimes -> Seq(Message)]
    BY <1>2, <1>5 DEF ScriptTyped
  <2>2. \A h \in Runtimes : Len(queue'[h]) <= Capacity
    BY <1>2, <1>5, TypedScripts
  <2>3. post' \in [Calls -> Scripts!Fate]
    BY <1>1, <1>2, TypedScripts DEF Scripts!Fate
  <2> QED
    BY <1>1, <1>2, <2>1, <2>2, <2>3, TypedScripts, ScriptsTyped DEF ScriptTyped
<1>7. ASSUME NEW h \in Runtimes
      PROVE  Let(h)' /\ InLine(queue[h], h, h \in let_go, home, post)'
  <2>1. Let(h)
    BY DEF ScriptInv
  <2>2. Let(h)'
    BY <1>1, <1>2, <1>3, <2>1, TypedScripts DEF Let
  <2>3. ASSUME h = g
        PROVE  InLine(queue[h], h, h \in let_go, home, post)'
    BY <1>1, <1>5, <2>3 DEF InLine
  <2>4. ASSUME h # g
        PROVE  InLine(queue[h], h, h \in let_go, home, post)'
    BY <1>1, <1>2, <1>3, <1>5, <2>4, LineKept
  <2> QED
    BY <2>2, <2>3, <2>4
<1>8. ASSUME NEW b \in Calls
      PROVE  Posted(b)'
  <2>1. Posted(b)
    BY DEF ScriptInv
  <2>2. told[c] = "waiting" /\ post'[c] = "dropped" => g \in failed
    BY <1>1, <1>2, <1>4 DEF Let
  <2> HIDE DEF g
  <2> QED
    BY <1>1, <1>2, <1>3, <1>4, <2>1, <2>2 DEF Posted, g
<1>9. Tally'
  <2>1. Counted' = Counted
    <3>1. c \notin Counted /\ c \notin Counted'
      BY <1>1, <1>4 DEF Counted, Scripts!Over
    <3> QED
      BY <1>1, <1>3, <3>1 DEF Counted
  <2> QED
    BY <1>1, <1>2, <2>1, TallyKept, TypedScripts
<1> QED
  BY <1>6, <1>7, <1>8, <1>9 DEF ScriptInv

(* The caller of a hook or an RPC hears of its message, or waits no longer *)
LEMMA CallerTold ==
    ASSUME ScriptInv, NEW c \in Calls, Scripts!Take(c) \/ Scripts!TimedOut(c)
    PROVE  ScriptInv'
<1> USE ScriptFacts
<1>1. PICK s \in Scripts!Told \ {"idle", "found", "waiting"} :
        /\ c \notin AfterEvent /\ told[c] = "waiting"
        /\ s = "unheard" => post[c] = "dropped"
        /\ told' = [told EXCEPT ![c] = s]
        /\ Scripts!Release(c, home[c], queue[home[c]])
        /\ UNCHANGED <<script_world, enabled, turn, current, made, failed, worker, running, hand,
                       deed, home, post, kv>>
  <2>1. CASE Scripts!Take(c)
    <3>1. post[c] # "handled"
      BY <2>1 DEF ScriptInv, Posted, Scripts!Take
    <3>2. (IF post[c] = "dropped" THEN "unheard" ELSE post[c])
            \in {"unheard", "allow", "deny", "answer", "error"}
      BY <2>1, <3>1 DEF Scripts!Take, Scripts!Over
    <3> QED
      BY <2>1, <3>1, <3>2 DEF Scripts!Take, Scripts!registryVars, Scripts!Told, Scripts!Over
  <2>2. CASE Scripts!TimedOut(c)
    BY <2>2 DEF Scripts!TimedOut, Scripts!registryVars, Scripts!Told
  <2> QED
    BY <2>1, <2>2
<1>2. /\ ScriptTyped /\ home[c] \in Runtimes /\ queue[home[c]] \in Seq(Message)
      /\ Len(queue[home[c]]) <= Capacity
      /\ InLine(queue[home[c]], home[c], home[c] \in let_go, home, post)
  <2>1. ScriptTyped /\ home[c] \in Runtimes
    BY <1>1, TypedScripts DEF ScriptInv, Posted, Runtimes
  <2> QED
    BY <2>1, TypedScripts DEF ScriptInv, ScriptTyped
<1>3. /\ queue' \in [Runtimes -> Seq(Message)] /\ let_go' \subseteq 1 .. made'
      /\ \A h \in Runtimes : /\ Len(queue'[h]) <= Capacity /\ Let(h)'
                             /\ InLine(queue[h], h, h \in let_go, home, post)'
  BY <1>1, <1>2, Released
<1>4. ScriptTyped'
  <2>1. told' \in [Calls -> Scripts!Told]
    BY <1>1, <1>2, TypedScripts
  <2> QED
    BY <1>1, <1>2, <1>3, <2>1, TypedScripts, ScriptsTyped DEF ScriptTyped
<1>5. ASSUME NEW b \in Calls
      PROVE  Posted(b)'
  <2>1. Posted(b)
    BY DEF ScriptInv
  <2>2. told'[b] # told[b] => b = c /\ told'[b] = s
    BY <1>1, <1>2, TypedScripts
  <2> QED
    BY <1>1, <2>1, <2>2 DEF Posted
<1>6. Tally'
  BY <1>1, <1>2, TallyKept, TypedScripts DEF Counted
<1> QED
  BY <1>3, <1>4, <1>5, <1>6 DEF ScriptInv

(* A thread ends, since nobody is left or its bundle does not load: what   *)
(* is in its channel is dropped.                                           *)
LEMMA ThreadEnds ==
    ASSUME ScriptInv, NEW g \in Runtimes, Scripts!EndThread(g), worker[g] \in {"booting", "ready"},
           failed' \in SUBSET (failed \cup {g}), failed \subseteq failed',
           g \in let_go \cup failed',
           UNCHANGED <<script_world, enabled, turn, current, made, let_go, running, hand,
                       deed, home, told, kv>>
    PROVE  ScriptInv'
<1> USE ScriptFacts
<1>1. /\ worker' = [worker EXCEPT ![g] = "ended"]
      /\ post' = [c \in Calls |-> IF home[c] = g /\ post[c] = "queued" THEN "dropped" ELSE post[c]]
      /\ queue' = [queue EXCEPT ![g] = <<>>]
  BY DEF Scripts!EndThread
<1>2. ScriptTyped /\ Let(g) /\ running[g] = Nobody /\ g <= made
  BY TypedScripts DEF ScriptInv, Let, Runtimes
<1>3. \A c \in Calls : \/ post'[c] = post[c] /\ (home[c] = g => post[c] # "queued")
                       \/ home[c] = g /\ post[c] = "queued" /\ post'[c] = "dropped"
  BY <1>1
<1>4. queue'[g] = <<>> /\ \A h \in Runtimes \ {g} : queue'[h] = queue[h]
  BY <1>1, <1>2 DEF ScriptTyped
<1>5. ScriptTyped'
  <2>1. <<>> \in Seq(Message) /\ Len(<<>>) = 0
    OBVIOUS
  <2>2. queue' \in [Runtimes -> Seq(Message)] /\ \A h \in Runtimes : Len(queue'[h]) <= Capacity
    BY <1>1, <1>2, <1>4, <2>1, TypedScripts DEF ScriptTyped
  <2>3. post' \in [Calls -> Scripts!Fate]
    BY <1>1, <1>2, TypedScripts DEF Scripts!Fate
  <2>4. failed' \subseteq 1 .. made
    BY <1>2, TypedScripts DEF Runtimes
  <2> QED
    BY <1>1, <1>2, <2>2, <2>3, <2>4, TypedScripts, ScriptsTyped DEF ScriptTyped
<1>6. ASSUME NEW h \in Runtimes
      PROVE  Let(h)' /\ InLine(queue[h], h, h \in let_go, home, post)'
  <2>1. Let(h)
    BY DEF ScriptInv
  <2>2. Let(h)'
    BY <1>1, <1>2, <1>3, <2>1, TypedScripts DEF Let
  <2>3. ASSUME h = g
        PROVE  InLine(queue[h], h, h \in let_go, home, post)'
    BY <1>4, <2>3 DEF InLine
  <2>4. ASSUME h # g
        PROVE  InLine(queue[h], h, h \in let_go, home, post)'
    BY <1>3, <1>4, <2>4, LineKept
  <2> QED
    BY <2>2, <2>3, <2>4
<1>7. ASSUME NEW b \in Calls
      PROVE  Posted(b)'
  <2>1. Posted(b)
    BY DEF ScriptInv
  <2> QED
    BY <1>2, <1>3, <2>1 DEF Posted, Let
<1>8. Tally'
  <2>1. Counted' = Counted
    BY <1>3 DEF Counted, Scripts!Over
  <2> QED
    BY <1>2, <2>1, TallyKept, TypedScripts
<1> QED
  BY <1>5, <1>6, <1>7, <1>8 DEF ScriptInv

LEMMA ThreadStarted ==
    ASSUME ScriptInv, NEW g \in Runtimes, Scripts!StartThread(g)
    PROVE  ScriptInv'
<1>1. worker[g] = "booting"
  BY DEF Scripts!StartThread
<1>2. CASE Scripts!EndThread(g) /\ failed' = failed \cup {g}
  BY <1>1, <1>2, ThreadEnds DEF Scripts!StartThread, Scripts!registryVars
<1>3. CASE worker' = [worker EXCEPT ![g] = "ready"] /\ UNCHANGED <<failed, post, queue>>
  <2>1. UNCHANGED <<script_world, enabled, turn, current, made, let_go, failed, queue, running,
                    hand, deed, home, told, post, kv>>
    BY <1>3 DEF Scripts!StartThread, Scripts!registryVars
  <2>2. ScriptTyped
    BY DEF ScriptInv
  <2>3. ScriptTyped'
    BY <1>3, <2>1, <2>2, TypedScripts, ScriptsTyped DEF ScriptTyped
  <2>4. ASSUME NEW h \in Runtimes
        PROVE  Let(h)' /\ InLine(queue[h], h, h \in let_go, home, post)'
    <3>1. Let(h)
      BY DEF ScriptInv
    <3>2. worker'[h] # worker[h] => worker[h] = "booting" /\ worker'[h] = "ready"
      BY <1>1, <1>3, <2>2, TypedScripts
    <3>3. Let(h)'
      BY <2>1, <3>1, <3>2 DEF Let
    <3> QED
      BY <2>1, <3>3, LineKept
  <2>5. \A c \in Calls : Posted(c)'
    BY <2>1 DEF ScriptInv, Posted
  <2>6. Tally'
    BY <2>1, <2>2, TallyKept, TypedScripts DEF Counted
  <2> QED
    BY <2>3, <2>4, <2>5, <2>6 DEF ScriptInv
<1> QED
  BY <1>2, <1>3 DEF Scripts!StartThread

LEMMA ThreadDisconnected ==
    ASSUME ScriptInv, NEW g \in Runtimes, Scripts!Disconnected(g)
    PROVE  ScriptInv'
  BY ThreadEnds DEF Scripts!Disconnected, Scripts!registryVars

(* The thread takes the next message.                                      *)
LEMMA MessageTaken ==
    ASSUME ScriptInv, NEW g \in Runtimes, Scripts!Receive(g)
    PROVE  ScriptInv'
<1> USE ScriptFacts
<1> DEFINE c == Head(queue[g])
<1>1. /\ worker[g] = "ready" /\ queue[g] # <<>>
      /\ UNCHANGED <<script_world, enabled, turn, current, made, let_go, failed, hand, deed,
                     home, told, kv>>
  BY DEF Scripts!Receive, Scripts!registryVars
<1>2. /\ ScriptTyped /\ queue[g] \in Seq(Message)
      /\ InLine(queue[g], g, g \in let_go, home, post) /\ Let(g)
  BY DEF ScriptInv, ScriptTyped
<1>3. CASE c = Shutdown
  <2>1. g \in let_go
    <3>1. 1 \in 1 .. Len(queue[g]) /\ c = queue[g][1]
      BY <1>1, <1>2
    <3> QED
      BY <1>2, <1>3, <3>1 DEF InLine
  <2> QED
    BY <1>1, <1>3, <2>1, ThreadEnds DEF Scripts!Receive
<1>4. CASE c # Shutdown
  <2>1. /\ worker' = [worker EXCEPT ![g] = "running"]
        /\ running' = [running EXCEPT ![g] = c]
        /\ post' = [post EXCEPT ![c] = "running"]
        /\ queue' = [queue EXCEPT ![g] = Tail(queue[g])]
    BY <1>4 DEF Scripts!Receive
  <2>2. /\ Tail(queue[g]) \in Seq(Message) /\ Len(Tail(queue[g])) <= Len(queue[g])
        /\ c \in Calls /\ home[c] = g /\ post[c] = "queued"
        /\ InLine(Tail(queue[g]), g, g \in let_go, home, post')
    <3>1. c \in Calls
      BY <1>1, <1>2, <1>4 DEF Message
    <3>2. \A d \in Calls \ {c} : post'[d] = post[d]
      BY <1>2, <2>1, <3>1, TypedScripts
    <3> HIDE DEF Message
    <3>3. queue[g] # <<>> /\ c = Head(queue[g])
      BY <1>1
    <3>4. c # Shutdown
      BY <1>4
    <3>5. queue[g] \in Seq(Message) /\ InLine(queue[g], g, g \in let_go, home, post)
      BY <1>2
    <3> HIDE DEF c
    <3>6. Len(Tail(queue[g])) <= Len(queue[g])
      BY <3>2, <3>3, <3>4, <3>5, LineServed
    <3>7. home[c] = g /\ post[c] = "queued"
      <4>1. 1 \in 1 .. Len(queue[g]) /\ c = queue[g][1]
        BY <3>3, <3>5
      <4> QED
        BY <3>4, <3>5, <4>1 DEF InLine
    <3>8. InLine(Tail(queue[g]), g, g \in let_go, home, post')
      BY <3>2, <3>3, <3>4, <3>5, LineServed
    <3>9. Tail(queue[g]) \in Seq(Message)
      BY <3>2, <3>3, <3>4, <3>5, LineServed
    <3> QED
      BY <3>1, <3>6, <3>7, <3>8, <3>9
  <2> HIDE DEF c
  <2>3. /\ post'[c] = "running" /\ \A d \in Calls \ {c} : post'[d] = post[d]
        /\ running'[g] = c /\ worker'[g] = "running"
        /\ \A h \in Runtimes \ {g} : /\ running'[h] = running[h] /\ worker'[h] = worker[h]
                                     /\ queue'[h] = queue[h]
        /\ queue'[g] = Tail(queue[g])
    BY <1>2, <2>1, <2>2, TypedScripts DEF ScriptTyped
  <2>4. ScriptTyped'
    <3>1. queue' \in [Runtimes -> Seq(Message)] /\ \A h \in Runtimes : Len(queue'[h]) <= Capacity
      <4>1. queue' \in [Runtimes -> Seq(Message)]
        BY <1>2, <2>1, <2>2 DEF ScriptTyped
      <4>2. Len(queue[g]) \in Nat /\ Len(Tail(queue[g])) \in Nat /\ Len(queue[g]) <= Capacity
        BY <1>2, <2>2, TypedScripts
      <4>3. Len(queue'[g]) <= Capacity
        BY <2>2, <2>3, <4>2
      <4> QED
        BY <1>2, <2>3, <4>1, <4>3, TypedScripts
    <3>2. post' \in [Calls -> Scripts!Fate] /\ running' \in [Runtimes -> Calls \cup {Nobody}]
      BY <1>2, <2>1, <2>2, TypedScripts DEF Scripts!Fate
    <3>3. worker' \in [Runtimes -> {"none", "booting", "ready", "running", "ended"}]
      BY <1>2, <2>1, TypedScripts
    <3> QED
      BY <1>1, <1>2, <3>1, <3>2, <3>3, TypedScripts, ScriptsTyped DEF ScriptTyped
  <2>5. ASSUME NEW h \in Runtimes
        PROVE  Let(h)' /\ InLine(queue[h], h, h \in let_go, home, post)'
    <3>1. Let(h)
      BY DEF ScriptInv
    <3>2. Let(h)'
      BY <1>1, <1>2, <2>2, <2>3, <3>1, TypedScripts DEF Let
    <3>3. ASSUME h = g
          PROVE  InLine(queue[h], h, h \in let_go, home, post)'
      <4>1. InLine(queue'[g], g, g \in let_go, home, post')
        BY <2>2, <2>3
      <4> QED
        BY <1>1, <3>3, <4>1 DEF InLine
    <3>4. ASSUME h # g
          PROVE  InLine(queue[h], h, h \in let_go, home, post)'
      BY <1>1, <2>2, <2>3, <3>4, LineKept
    <3> QED
      BY <3>2, <3>3, <3>4
  <2>6. ASSUME NEW b \in Calls
        PROVE  Posted(b)'
    <3>1. Posted(b)
      BY DEF ScriptInv
    <3> QED
      BY <1>1, <2>2, <2>3, <3>1 DEF Posted
  <2>7. Tally'
    <3>1. Counted' = Counted
      BY <1>1, <2>2, <2>3 DEF Counted, Scripts!Over
    <3> QED
      BY <1>1, <1>2, <3>1, TallyKept, TypedScripts
  <2> QED
    BY <2>4, <2>5, <2>6, <2>7 DEF ScriptInv
<1> QED
  BY <1>3, <1>4

(* A handler ends and its caller gets a reply; one that counts has stored  *)
(* what it had in hand and one, unless the database failed.                *)
LEMMA CallHandled ==
    ASSUME ScriptInv, NEW g \in Runtimes, running[g] # Nobody, NEW outcome \in {"value", "throw"},
           Scripts!Handled(g, outcome),
           UNCHANGED <<script_world, enabled, turn, current, made, let_go, failed, queue, deed,
                       home, told>>,
           IF deed[running[g]] = "count"
           THEN /\ hand[g] # NoValue /\ outcome = "value"
                /\ kv' = hand[g] + 1 \/ ("db_error" \in script_world.events /\ kv' = kv)
           ELSE kv' = kv
    PROVE  ScriptInv'
<1> USE ScriptFacts
<1> DEFINE c == running[g]
           r == Scripts!Reply(c, outcome)
<1>1. ScriptTyped /\ Let(g) /\ Tally
  BY DEF ScriptInv
<1>2. c \in Calls /\ home[c] = g /\ post[c] = "running" /\ worker[g] = "running"
  BY <1>1, TypedScripts DEF Let
<1>3. /\ r \in Scripts!Over \ {"dropped"} /\ (r = "handled" => c \in AfterEvent)
      /\ r \in Scripts!Fate
  BY <1>2 DEF Scripts!Reply, Scripts!HookReply, Scripts!RpcReply, Scripts!Decision, Scripts!Over,
     Scripts!Fate, Calls
<1> HIDE DEF r
<1>4. /\ worker' = [worker EXCEPT ![g] = "ready"]
      /\ running' = [running EXCEPT ![g] = Nobody]
      /\ hand' = [hand EXCEPT ![g] = NoValue]
      /\ post' = [post EXCEPT ![c] = r]
  BY DEF Scripts!Handled, r
<1> HIDE DEF c
<1>5. /\ post'[c] = r /\ \A d \in Calls \ {c} : post'[d] = post[d]
      /\ running'[g] = Nobody /\ worker'[g] = "ready" /\ hand'[g] = NoValue
      /\ \A h \in Runtimes \ {g} : /\ running'[h] = running[h] /\ worker'[h] = worker[h]
                                   /\ hand'[h] = hand[h]
  BY <1>1, <1>2, <1>4, TypedScripts DEF ScriptTyped
<1>6. kv' \in 0 .. Cardinality(Calls) /\ Tally'
  <2>1. CASE deed[c] = "count"
    <3>1. c \notin Counted /\ Counted' = Counted \cup {c}
      BY <1>2, <1>3, <1>5, <2>1 DEF Counted, Scripts!Over
    <3>2. Cardinality(Counted') = Cardinality(Counted) + 1
      BY <3>1, CountedFinite, FS_AddElement
    <3>3. hand[g] \in Nat /\ hand[g] <= Cardinality(Counted)
      BY <1>1, <2>1 DEF Tally, ScriptTyped, c
    <3>4. kv \in Nat /\ kv <= Cardinality(Counted)
      BY <1>1, TypedScripts DEF Tally
    <3>5. kv' \in Nat /\ kv' <= Cardinality(Counted')
      BY <2>1, <3>2, <3>3, <3>4, CountedFinite DEF c
    <3>6. \A h \in Runtimes : hand'[h] # NoValue =>
            hand'[h] \in Nat /\ hand'[h] <= Cardinality(Counted')
      BY <1>1, <1>5, <3>2, CountedFinite DEF Tally, ScriptTyped
    <3>7. ASSUME made' = 1, "db_error" \notin script_world'.events
          PROVE  /\ kv' = Cardinality(Counted')
                 /\ \A h \in Runtimes : hand'[h] # NoValue => hand'[h] = kv'
      <4>1. kv = Cardinality(Counted) /\ hand[g] = kv /\ kv' = hand[g] + 1
        BY <1>1, <2>1, <3>7 DEF Tally, c
      <4>2. made = 1 /\ g = 1
        BY <1>1, <1>2, <3>7, TypedScripts DEF Let, Runtimes
      <4>3. \A h \in Runtimes \ {g} : running[h] = Nobody /\ hand[h] = NoValue
        <5> SUFFICES ASSUME NEW h \in Runtimes \ {g}
                     PROVE  running[h] = Nobody /\ hand[h] = NoValue
          OBVIOUS
        <5>1. h > made /\ Let(h)
          BY <4>2 DEF ScriptInv, Runtimes
        <5> QED
          BY <5>1 DEF Let
      <4> QED
        BY <1>5, <3>2, <4>1, <4>3
    <3>8. kv' \in 0 .. Cardinality(Calls)
      BY <3>5, CountedFinite, FS_CardinalityType, ScriptFacts
    <3> QED
      BY <3>5, <3>6, <3>7, <3>8 DEF Tally
  <2>2. CASE deed[c] # "count"
    <3>1. Counted' = Counted
      BY <1>5, <2>2 DEF Counted
    <3>2. kv' = kv
      BY <2>2 DEF c
    <3>3. \A h \in Runtimes : hand'[h] # NoValue => hand'[h] = hand[h]
      BY <1>5
    <3> QED
      BY <1>1, <3>1, <3>2, <3>3, TypedScripts DEF Tally
  <2> QED
    BY <2>1, <2>2
<1>7. ScriptTyped'
  <2>1. /\ post' \in [Calls -> Scripts!Fate] /\ running' \in [Runtimes -> Calls \cup {Nobody}]
        /\ worker' \in [Runtimes -> {"none", "booting", "ready", "running", "ended"}]
        /\ hand' \in [Runtimes -> Nat \cup {NoValue}]
    BY <1>1, <1>2, <1>3, <1>4, TypedScripts DEF ScriptTyped
  <2> QED
    BY <1>1, <1>6, <2>1, TypedScripts, ScriptsTyped DEF ScriptTyped
<1>8. ASSUME NEW h \in Runtimes
      PROVE  Let(h)' /\ InLine(queue[h], h, h \in let_go, home, post)'
  <2>1. Let(h)
    BY DEF ScriptInv
  <2>2. Let(h)'
    BY <1>1, <1>2, <1>5, <2>1, TypedScripts DEF Let
  <2>3. InLine(queue[h], h, h \in let_go, home, post)'
    BY <1>2, <1>5, LineKept
  <2> QED
    BY <2>2, <2>3
<1>9. ASSUME NEW b \in Calls
      PROVE  Posted(b)'
  <2>1. Posted(b)
    BY DEF ScriptInv
  <2> QED
    BY <1>2, <1>3, <1>5, <2>1 DEF Posted, Scripts!Over
<1> QED
  BY <1>6, <1>7, <1>8, <1>9 DEF ScriptInv

LEMMA HandlerRuns ==
    ASSUME ScriptInv, NEW g \in Runtimes, Scripts!RunHandler(g) \/ Scripts!StorageSet(g)
    PROVE  ScriptInv'
<1>1. CASE Scripts!RunHandler(g)
  <2>1. \A d : Scripts!Outcomes(d) \subseteq {"value", "throw"}
    BY DEF Scripts!Outcomes, Scripts!Fetch, Scripts!GetUserPublic, Scripts!CreateNotification,
       Scripts!DbQuery, Scripts!Query, Scripts!Denied, Scripts!Keep
  <2> QED
    BY <1>1, <2>1, CallHandled DEF Scripts!RunHandler, Scripts!registryVars
<1>2. CASE Scripts!StorageSet(g)
  BY <1>2, CallHandled DEF Scripts!StorageSet, Scripts!registryVars, Scripts!May
<1> QED
  BY <1>1, <1>2

(* A handler that counts reads what is stored.                             *)
LEMMA CounterRead ==
    ASSUME ScriptInv, NEW g \in Runtimes, Scripts!StorageGet(g)
    PROVE  ScriptInv'
<1> USE ScriptFacts
<1>1. PICK n \in {0, kv} :
        /\ "db_error" \notin script_world.events => n = kv
        /\ running[g] # Nobody /\ deed[running[g]] = "count"
        /\ hand' = [hand EXCEPT ![g] = n]
        /\ UNCHANGED <<script_world, enabled, turn, current, made, let_go, failed, worker, queue,
                       running, deed, home, told, post, kv>>
  BY DEF Scripts!StorageGet, Scripts!registryVars, Scripts!callVars, Scripts!May
<1>2. ScriptTyped /\ Tally /\ n \in Nat /\ n <= Cardinality(Counted)
  BY TypedScripts, CountedFinite DEF ScriptInv, Tally
<1>3. /\ hand'[g] = n /\ \A h \in Runtimes \ {g} : hand'[h] = hand[h]
      /\ hand' \in [Runtimes -> Nat \cup {NoValue}]
  BY <1>1, <1>2 DEF ScriptTyped
<1>4. ScriptTyped'
  BY <1>1, <1>2, <1>3, TypedScripts, ScriptsTyped DEF ScriptTyped
<1>5. ASSUME NEW h \in Runtimes
      PROVE  Let(h)' /\ InLine(queue[h], h, h \in let_go, home, post)'
  <2>1. Let(h)
    BY DEF ScriptInv
  <2>2. Let(h)'
    BY <1>1, <1>3, <2>1 DEF Let
  <2> QED
    BY <1>1, <2>2, LineKept
<1>6. \A c \in Calls : Posted(c)'
  BY <1>1 DEF ScriptInv, Posted
<1>7. Tally'
  <2>1. Counted' = Counted
    BY <1>1 DEF Counted
  <2> QED
    BY <1>1, <1>2, <1>3, <2>1 DEF Tally
<1> QED
  BY <1>4, <1>5, <1>6, <1>7 DEF ScriptInv

LEMMA ScriptsNext ==
    ASSUME ScriptInv, Scripts!Next
    PROVE  ScriptInv'
<1>1. ASSUME NEW c \in Calls, Scripts!Answer(c)
      PROVE  ScriptInv'
  BY <1>1, EventSent, MessageSent, CallerTold DEF Scripts!Answer
<1>2. ASSUME NEW g \in Runtimes, Scripts!Run(g)
      PROVE  ScriptInv'
  BY <1>2, ThreadStarted, MessageTaken, ThreadDisconnected, CounterRead, HandlerRuns
     DEF Scripts!Run
<1> QED
  BY <1>1, <1>2, ScriptFacts, CallMade, Changed, RuntimeRemoved DEF Scripts!Next

ScriptsSide == side = "scripts" => ScriptInv

(* A request that waits for a plugin is answered by the plugin's handler   *)
(* or by the timer, and finds the channel closed only when the bundle did  *)
(* not load, however the plugin is reloaded (registry.rs,                  *)
(* script_runtime.rs); and handlers of one runtime do not interleave.      *)
THEOREM CallsAlwaysHeard == PlatformSpec => []CallsHeard
<1>1. PlatformInit => ScriptsSide
  BY ScriptsInitially DEF PlatformInit, ScriptsSide
<1>2. ScriptsSide /\ [PlatformNext]_platformVars => ScriptsSide'
  <2>1. ASSUME ScriptInv, UNCHANGED scriptVars
        PROVE  ScriptInv'
    BY <2>1 DEF scriptVars, ScriptInv, ScriptTyped, Scripts!TypeOK, Let, Posted, Tally, Counted
  <2> QED
    BY <2>1, ScriptsNext DEF PlatformNext, platformVars, ScriptsSide
<1>3. ScriptsSide => CallsHeard
  <2> SUFFICES ASSUME ScriptInv
               PROVE  Scripts!TypeOK /\ Scripts!CallsHeard /\ Scripts!HandlersSerial
    BY DEF ScriptsSide, CallsHeard
  <2>1. Scripts!CallsHeard
    BY ScriptFacts DEF ScriptInv, Posted, Scripts!CallsHeard
  <2>2. Scripts!HandlersSerial
    <3>1. {c \in Calls : deed[c] = "count" /\ post[c] \in Scripts!Over \ {"dropped"}} = Counted
      BY DEF Counted
    <3>2. Scripts!Cardinality(Counted) = Cardinality(Counted)
      BY DEF Scripts!Cardinality, Cardinality, Scripts!IsFiniteSet, IsFiniteSet
    <3> QED
      BY <3>1, <3>2, ScriptFacts DEF ScriptInv, Tally, Scripts!HandlersSerial, Scripts!May
  <2> QED
    BY <2>1, <2>2 DEF ScriptInv, ScriptTyped
<1> QED
  BY <1>1, <1>2, <1>3, PTL DEF PlatformSpec

-----------------------------------------------------------------------------
(* The first run.                                                          *)

Seeding == {"users", "bulk_users", "roles", "preferences", "categories", "threads",
            "posts", "reactions", "tags", "bulk_threads", "bulk_posts", "sync",
            "bulk_reactions", "notices"}
Making == {"find", "create", "verify", "level", "assign"}
Outside == {"idle", "wait"}
Places == Outside \cup {"check", "config", "session"} \cup Making \cup Seeding

AccountRow == [verified : BOOLEAN, level : {"new", "basic", "member"},
               roles : SUBSET {"admin", "moderator", "member"}, preferences : BOOLEAN]

FirstTyped ==
    /\ setup_world \in SetupWorlds /\ server \in {"starting", "up", "stopped"}
    /\ setup_complete \in BOOLEAN /\ setup_lock \in Runner \cup {Nobody}
    /\ run \in [Runner -> Places]
    /\ DOMAIN form = Runner /\ form = [w \in Runner |-> form[w]]
    /\ reported \in {"nothing", "ok", "done", "taken", "error"}
    /\ accounts = [u \in DOMAIN accounts |-> accounts[u]]
    /\ \A u \in DOMAIN accounts : accounts[u] \in AccountRow

(* Only who holds the lock is inside.                                      *)
Holding == \A w \in Runner : run[w] \notin Outside => setup_lock = w

(* Until the role is given there is no administrator, and what comes       *)
(* before it has been written.                                             *)
Prepared(w) ==
    /\ run[w] \in Making => Setup!needs_setup
    /\ run[w] \in {"verify", "level", "assign"} => Setup!Self(w) \in DOMAIN accounts
    /\ run[w] \in {"level", "assign"} => accounts[Setup!Self(w)].verified
    /\ run[w] = "assign" => accounts[Setup!Self(w)].level = "member"

Single ==
    /\ \A u, v \in Setup!Administrators : u = v
    /\ \A u \in Setup!Administrators : accounts[u].verified /\ accounts[u].level = "member"

FirstInv ==
    /\ FirstTyped /\ Holding /\ Single
    /\ \A w \in Runner : Prepared(w)
    /\ setup_complete => ~Setup!needs_setup

LEMMA FirstFacts ==
    /\ Nobody \notin Runner /\ Boot \in Runner
    /\ BulkUsers \in Nat
  BY PlatformConstants DEF Setup!SetupConstants

LEMMA FirstInitially ==
    ASSUME Setup!Init
    PROVE  FirstInv
<1>1. Setup!Administrators = {} /\ DOMAIN accounts = {} /\ accounts = [u \in {} |-> accounts[u]]
  BY DEF Setup!Init, Setup!Administrators
<1>2. FirstTyped
  BY <1>1 DEF Setup!Init, FirstTyped, Outside, Places
<1> QED
  BY <1>1, <1>2 DEF Setup!Init, FirstInv, Holding, Single, Prepared, Making, Outside

(* A run moves and writes nothing.                                         *)
LEMMA FirstMoves ==
    ASSUME FirstInv, NEW w \in Runner, NEW place \in Places, run' = [run EXCEPT ![w] = place],
           UNCHANGED <<setup_world, setup_complete, accounts>>,
           setup_lock' \in Runner \cup {Nobody},
           server' \in {"starting", "up", "stopped"},
           reported' \in {"nothing", "ok", "done", "taken", "error"},
           NEW f, form' = [form EXCEPT ![w] = f],
           place \notin Outside => setup_lock' = w,
           \A v \in Runner \ {w} : setup_lock = v /\ run[v] \notin Outside => setup_lock' = v,
           place \in Making => Prepared(w)'
    PROVE  FirstInv'
<1>1. FirstTyped
  BY DEF FirstInv
<1>2. /\ run'[w] = place /\ run' \in [Runner -> Places]
      /\ \A v \in Runner \ {w} : run'[v] = run[v] /\ form'[v] = form[v]
      /\ DOMAIN form' = Runner /\ form' = [v \in Runner |-> form'[v]]
  BY <1>1 DEF FirstTyped
<1>3. FirstTyped'
  BY <1>1, <1>2 DEF FirstTyped
<1>4. Holding'
  BY <1>2 DEF FirstInv, Holding
<1>5. Single' /\ (setup_complete' => ~Setup!needs_setup')
  BY DEF FirstInv, Single, Setup!needs_setup, Setup!Administrators
<1>6. \A v \in Runner \ {w} : Prepared(v)'
  BY <1>2 DEF FirstInv, Prepared, Setup!Self, Setup!Made, Setup!needs_setup,
     Setup!Administrators
<1>7. Prepared(w)'
  BY <1>2 DEF Prepared, Making
<1> QED
  BY <1>3, <1>4, <1>5, <1>6, <1>7 DEF FirstInv

(* The run that holds the lock writes accounts.                            *)
LEMMA FirstWrites ==
    ASSUME FirstInv, NEW w \in Runner, run[w] \notin Outside,
           NEW place \in Places \ Outside, Setup!Goto(w, place),
           accounts' = [u \in DOMAIN accounts' |-> accounts'[u]],
           \A u \in DOMAIN accounts' : accounts'[u] \in AccountRow,
           Single', place \in Making => Prepared(w)',
           Setup!needs_setup' => Setup!needs_setup
    PROVE  FirstInv'
<1>1. FirstTyped /\ Holding
  BY DEF FirstInv
<1>2. /\ run'[w] = place /\ run' \in [Runner -> Places]
      /\ \A v \in Runner \ {w} : run'[v] = run[v]
      /\ UNCHANGED <<setup_world, server, setup_complete, setup_lock, form, reported>>
  BY <1>1 DEF FirstTyped, Setup!Goto
<1>3. \A v \in Runner \ {w} : run[v] \in Outside
  BY <1>1 DEF Holding
<1>4. FirstTyped'
  BY <1>1, <1>2 DEF FirstTyped
<1>5. Holding'
  BY <1>1, <1>2, <1>3 DEF Holding
<1>6. \A v \in Runner \ {w} : Prepared(v)'
  BY <1>2, <1>3 DEF Prepared, Outside, Making
<1>7. Prepared(w)'
  BY <1>2 DEF Prepared, Making
<1> QED
  BY <1>2, <1>4, <1>5, <1>6, <1>7 DEF FirstInv

(* A run ends.                                                             *)
LEMMA FirstEnds ==
    ASSUME FirstInv, NEW w \in Runner, run[w] \notin Outside,
           NEW answer \in {"ok", "done", "taken", "error"}, Setup!Answer(w, answer),
           UNCHANGED accounts
    PROVE  FirstInv'
<1>1. /\ run' = [run EXCEPT ![w] = "idle"] /\ form' = [form EXCEPT ![w] = Setup!NoForm]
      /\ UNCHANGED <<setup_world, setup_complete>>
  BY DEF Setup!Answer
<1>2. /\ server' \in {"starting", "up", "stopped"}
      /\ reported' \in {"nothing", "ok", "done", "taken", "error"}
  BY DEF Setup!Answer, FirstInv, FirstTyped
<1>3. setup_lock' = Nobody /\ \A v \in Runner \ {w} : setup_lock # v
  BY FirstFacts DEF Setup!Answer, FirstInv, Holding
<1> QED
  BY <1>1, <1>2, <1>3, FirstMoves DEF Places, Outside, Making

(* Rows join that give nobody the role.                                    *)
LEMMA FirstJoins ==
    ASSUME FirstInv, NEW w \in Runner, run[w] \notin Outside,
           NEW place \in Places \ Outside, Setup!Goto(w, place),
           NEW new, accounts' = Setup!With(accounts, new),
           \A u \in DOMAIN new : new[u] \in AccountRow /\ new[u].roles = {},
           place \in Making =>
             place = "verify" /\ Setup!needs_setup /\ Setup!Self(w) \in DOMAIN new
    PROVE  FirstInv'
<1>1. FirstTyped
  BY DEF FirstInv
<1>2. /\ DOMAIN accounts' = DOMAIN accounts \cup DOMAIN new
      /\ \A u \in DOMAIN accounts : accounts'[u] = accounts[u]
      /\ \A u \in DOMAIN new \ DOMAIN accounts : accounts'[u] = new[u]
      /\ accounts' = [u \in DOMAIN accounts' |-> accounts'[u]]
  BY DEF Setup!With
<1>3. \A u \in DOMAIN accounts' : accounts'[u] \in AccountRow
  BY <1>1, <1>2 DEF FirstTyped
<1>4. Setup!Administrators' = Setup!Administrators
  BY <1>2 DEF Setup!Administrators
<1>5. Single'
  BY <1>2, <1>4 DEF FirstInv, Single, Setup!Administrators
<1>6. Setup!needs_setup' = Setup!needs_setup
  BY <1>4 DEF Setup!needs_setup
<1>7. run'[w] = place /\ form' = form
  BY <1>1 DEF Setup!Goto, FirstTyped
<1>8. place \in Making => Prepared(w)'
  BY <1>2, <1>6, <1>7 DEF Prepared, Setup!Self, Setup!Made
<1> QED
  BY <1>2, <1>3, <1>5, <1>6, <1>8, FirstWrites

(* Rows are updated that stay with their role.                             *)
LEMMA FirstUpdates ==
    ASSUME FirstInv, NEW w \in Runner, run[w] \notin Outside,
           NEW place \in Places \ Outside, Setup!Goto(w, place),
           NEW new, DOMAIN new = DOMAIN accounts, new = [u \in DOMAIN new |-> new[u]],
           accounts' = new,
           \A u \in DOMAIN accounts :
             /\ new[u] \in AccountRow
             /\ "admin" \in new[u].roles <=> "admin" \in accounts[u].roles
             /\ accounts[u].verified => new[u].verified
             /\ accounts[u].level = "member" => new[u].level = "member",
           place \in Making => Prepared(w)'
    PROVE  FirstInv'
<1>1. FirstTyped
  BY DEF FirstInv
<1>2. Setup!Administrators' = Setup!Administrators
  BY DEF Setup!Administrators
<1>3. Single'
  BY <1>2 DEF FirstInv, Single, Setup!Administrators
<1>4. Setup!needs_setup' = Setup!needs_setup
  BY <1>2 DEF Setup!needs_setup
<1> QED
  BY <1>3, <1>4, FirstWrites


LEMMA FirstChecks ==
    ASSUME FirstInv, NEW w \in Runner,
           \/ Setup!Acquire(w) \/ Setup!Checked(w) \/ Setup!WriteConfig(w)
    PROVE  FirstInv'
<1> DEFINE f == form[w]
<1>1. FirstTyped /\ Holding /\ form = [form EXCEPT ![w] = f]
  BY DEF FirstInv, FirstTyped
<1>2. UNCHANGED <<setup_world, server, setup_complete, form, reported, accounts>>
  BY DEF Setup!Acquire, Setup!Checked, Setup!WriteConfig, Setup!Goto
<1>3. CASE Setup!Acquire(w)
  <2>1. setup_lock' = w /\ run' = [run EXCEPT ![w] = "check"] /\ setup_lock = Nobody
    BY <1>3 DEF Setup!Acquire
  <2>2. "check" \in Places /\ "check" \notin Outside /\ "check" \notin Making
    BY DEF Places, Outside, Making
  <2>3. /\ setup_lock' \in Runner \cup {Nobody} /\ \A v \in Runner : setup_lock # v
        /\ server' \in {"starting", "up", "stopped"}
        /\ reported' \in {"nothing", "ok", "done", "taken", "error"}
    BY <1>1, <1>2, <2>1, FirstFacts DEF FirstTyped
  <2>4. form' = [form EXCEPT ![w] = f]
    BY <1>1, <1>2
  <2> HIDE DEF f
  <2> QED
    BY <1>2, <2>1, <2>2, <2>3, <2>4, FirstMoves
<1>4. CASE Setup!Checked(w) \/ Setup!WriteConfig(w)
  <2>1. PICK place \in Places \ Outside : run' = [run EXCEPT ![w] = place]
    BY <1>4 DEF Setup!Checked, Setup!WriteConfig, Setup!Goto, Setup!SeedStage, Places, Making,
       Outside, Seeding
  <2>2. place \in Making => place \in {"find", "create"} /\ Setup!needs_setup
    BY <1>1, <1>4, <2>1 DEF Setup!Checked, Setup!WriteConfig, Setup!Goto, Setup!SeedStage,
       FirstInv, Prepared, Making, FirstTyped
  <2>3. run'[w] = place
    BY <1>1, <2>1 DEF FirstTyped
  <2>4. place \in Making => Prepared(w)'
    BY <1>2, <2>2, <2>3 DEF Prepared, Setup!needs_setup, Setup!Administrators
  <2>5. run[w] \notin Outside /\ setup_lock' = setup_lock
    BY <1>4 DEF Setup!Checked, Setup!WriteConfig, Setup!Goto, Outside
  <2>6. setup_lock' = w
    BY <1>1, <2>5 DEF Holding
  <2> HIDE DEF f
  <2> QED
    BY ZenonT(40), <1>1, <1>2, <2>1, <2>4, <2>5, <2>6, FirstMoves DEF FirstTyped
<1> QED
  BY <1>3, <1>4

LEMMA FirstAnswers ==
    ASSUME FirstInv, NEW w \in Runner,
           Setup!Refused(w) \/ Setup!OpenSession(w) \/ Setup!Fails(w) \/ Setup!NoUser(w)
    PROVE  FirstInv'
<1>1. /\ run[w] \notin Outside /\ UNCHANGED accounts
      /\ \E answer \in {"ok", "done", "taken", "error"} : Setup!Answer(w, answer)
  BY DEF Setup!Refused, Setup!OpenSession, Setup!Fails, Setup!NoUser, Outside
<1> QED
  BY <1>1, FirstEnds

LEMMA FirstCreates ==
    ASSUME FirstInv, NEW w \in Runner, Setup!CreateAdmin(w)
    PROVE  FirstInv'
<1> DEFINE new == [u \in {Setup!Self(w)} |-> Setup!NewAccount]
<1>1. /\ run[w] = "create" /\ Setup!needs_setup /\ Setup!Goto(w, "verify")
      /\ accounts' = Setup!With(accounts, new)
  BY DEF Setup!CreateAdmin, FirstInv, Prepared, Making
<1>2. /\ DOMAIN new = {Setup!Self(w)}
      /\ \A u \in DOMAIN new : new[u] \in AccountRow /\ new[u].roles = {}
  BY DEF Setup!NewAccount, AccountRow
<1> HIDE DEF new
<1> QED
  BY <1>1, <1>2, FirstJoins DEF Places, Outside, Making

LEMMA FirstVerifies ==
    ASSUME FirstInv, NEW w \in Runner, Setup!Verify(w) \/ Setup!SetTrustLevel(w)
    PROVE  FirstInv'
<1> PICK me : me = Setup!Self(w)
  OBVIOUS
<1>1. FirstTyped /\ run[w] \in {"verify", "level"} /\ me \in DOMAIN accounts
      /\ Setup!needs_setup /\ (run[w] = "level" => accounts[me].verified)
  BY DEF Setup!Verify, Setup!SetTrustLevel, FirstInv, Prepared, Making
<1>2. PICK place \in {"level", "assign"}, k \in AccountRow :
        /\ Setup!Goto(w, place) /\ accounts' = [accounts EXCEPT ![me] = k]
        /\ k.roles = accounts[me].roles /\ k.verified
        /\ accounts[me].level = "member" => k.level = "member"
        /\ place = "assign" => k.level = "member"
  <2>1. CASE Setup!Verify(w)
    <3> DEFINE k == [accounts[me] EXCEPT !.verified = TRUE]
    <3>1. /\ k \in AccountRow /\ k.roles = accounts[me].roles /\ k.verified
          /\ k.level = accounts[me].level
      BY ZenonT(40), <1>1 DEF FirstTyped, AccountRow
    <3>2. accounts' = [accounts EXCEPT ![me] = k] /\ Setup!Goto(w, "level")
      BY <2>1 DEF Setup!Verify
    <3> HIDE DEF k
    <3> QED
      BY <3>1, <3>2
  <2>2. CASE Setup!SetTrustLevel(w)
    <3> DEFINE k == [accounts[me] EXCEPT !.level = "member"]
    <3>1. /\ k \in AccountRow /\ k.roles = accounts[me].roles
          /\ k.verified = accounts[me].verified /\ k.level = "member"
      BY <1>1 DEF FirstTyped, AccountRow
    <3>2. accounts' = [accounts EXCEPT ![me] = k] /\ Setup!Goto(w, "assign")
      BY <2>2 DEF Setup!SetTrustLevel
    <3>3. accounts[me].verified
      BY <1>1, <2>2 DEF Setup!SetTrustLevel
    <3> HIDE DEF k
    <3> QED
      BY <3>1, <3>2, <3>3
  <2> QED
    BY <2>1, <2>2
<1> DEFINE new == [accounts EXCEPT ![me] = k]
<1>3. /\ DOMAIN new = DOMAIN accounts /\ new = [u \in DOMAIN new |-> new[u]]
      /\ new[me] = k /\ \A u \in DOMAIN accounts \ {me} : new[u] = accounts[u]
      /\ accounts' = new
  BY <1>1, <1>2 DEF FirstTyped
<1> HIDE DEF new
<1>4. \A u \in DOMAIN accounts :
        /\ new[u] \in AccountRow
        /\ "admin" \in new[u].roles <=> "admin" \in accounts[u].roles
        /\ accounts[u].verified => new[u].verified
        /\ accounts[u].level = "member" => new[u].level = "member"
  BY <1>1, <1>2, <1>3 DEF FirstTyped
<1>5. run'[w] = place /\ form' = form
  BY <1>1, <1>2 DEF Setup!Goto, FirstTyped
<1>6. Setup!needs_setup'
  BY <1>1, <1>3, <1>4 DEF Setup!needs_setup, Setup!Administrators
<1>7. Setup!Self(w)' = me
  BY <1>5 DEF Setup!Self, Setup!Made
<1>8. Prepared(w)'
  BY <1>1, <1>2, <1>3, <1>5, <1>6, <1>7 DEF Prepared
<1>9. place \in Places \ Outside /\ run[w] \notin Outside
  BY <1>1 DEF Places, Outside, Making
<1> QED
  BY <1>2, <1>3, <1>4, <1>8, <1>9, FirstUpdates

LEMMA FirstAssigns ==
    ASSUME FirstInv, NEW w \in Runner, Setup!AssignAdmin(w)
    PROVE  FirstInv'
<1> PICK me : me = Setup!Self(w)
  OBVIOUS
<1> DEFINE k == [accounts[me] EXCEPT !.roles = @ \cup {"admin"}]
<1>1. /\ FirstTyped /\ run[w] = "assign" /\ me \in DOMAIN accounts /\ Setup!needs_setup
      /\ accounts[me].verified /\ accounts[me].level = "member"
      /\ accounts' = [accounts EXCEPT ![me] = k] /\ Setup!Goto(w, "config")
  BY DEF Setup!AssignAdmin, FirstInv, Prepared, Making
<1>2. /\ k \in AccountRow /\ k.roles = accounts[me].roles \cup {"admin"}
      /\ k.verified /\ k.level = "member"
  BY <1>1 DEF FirstTyped, AccountRow
<1> HIDE DEF k
<1>3. /\ DOMAIN accounts' = DOMAIN accounts /\ accounts' = [u \in DOMAIN accounts' |-> accounts'[u]]
      /\ accounts'[me] = k /\ \A u \in DOMAIN accounts \ {me} : accounts'[u] = accounts[u]
  BY <1>1 DEF FirstTyped
<1>4. Setup!Administrators' = {me}
  BY <1>1, <1>2, <1>3 DEF Setup!needs_setup, Setup!Administrators
<1>5. Single' /\ ~Setup!needs_setup'
  BY <1>2, <1>3, <1>4 DEF Single, Setup!needs_setup
<1>6. \A u \in DOMAIN accounts' : accounts'[u] \in AccountRow
  BY <1>1, <1>2, <1>3 DEF FirstTyped
<1>7. "config" \in Places \ Outside /\ "config" \notin Making /\ run[w] \notin Outside
  BY <1>1 DEF Places, Outside, Making
<1> QED
  BY <1>1, <1>3, <1>5, <1>6, <1>7, FirstWrites

(* The seed only goes on in its own order, and to the session.             *)
LEMMA SeedPlaces ==
    ASSUME NEW w \in Runner, run[w] \in Seeding
    PROVE  Setup!After(w) \in Seeding \cup {"session"}
<1>1. /\ DOMAIN Setup!SeedStage = 1 .. 14 /\ Len(Setup!SeedStage) = 14
      /\ \A k \in 1 .. 14 : Setup!SeedStage[k] \in Seeding
  BY DEF Setup!SeedStage, Seeding
<1>2. \E k \in 1 .. 14 : Setup!SeedStage[k] = run[w]
  BY DEF Setup!SeedStage, Seeding
<1> DEFINE at == CHOOSE k \in DOMAIN Setup!SeedStage : Setup!SeedStage[k] = run[w]
<1>3. at \in 1 .. 14
  BY <1>1, <1>2
<1> HIDE DEF at
<1>4. at # 14 => at + 1 \in 1 .. 14
  BY <1>3
<1>5. Setup!After(w) = IF at = 14 THEN "session" ELSE Setup!SeedStage[at + 1]
  BY <1>1 DEF Setup!After, at
<1> QED
  BY <1>1, <1>4, <1>5

LEMMA SeedGoes ==
    ASSUME FirstInv, NEW w \in Runner, NEW s \in Seeding, NEW users,
           Setup!SeedStep(w, s, users)
    PROVE  /\ run[w] = s /\ run[w] \notin Outside
           /\ Setup!Goto(w, Setup!After(w)) /\ Setup!After(w) \in Places \ Outside
           /\ Setup!After(w) \notin Making
  BY SeedPlaces DEF Setup!SeedStep, Seeding, Outside, Places, Making

LEMMA SeedJoins ==
    ASSUME FirstInv, NEW w \in Runner, Setup!SeedUsers(w) \/ Setup!SeedBulkUsers(w)
    PROVE  FirstInv'
<1>1. CASE Setup!SeedUsers(w)
  <2> DEFINE new == [u \in Setup!Vacant(Setup!ExampleUser) |->
                       Setup!Member(IF u = Setup!Seeded(Bob) THEN "basic" ELSE "member")]
  <2>1. accounts' = Setup!With(accounts, new) /\ Setup!SeedStep(w, "users", {})
    BY <1>1 DEF Setup!SeedUsers
  <2>2. \A u \in DOMAIN new : new[u] \in AccountRow /\ new[u].roles = {}
    BY DEF Setup!Member, AccountRow
  <2>3. "users" \in Seeding
    BY DEF Seeding
  <2> HIDE DEF new
  <2> QED
    BY <2>1, <2>2, <2>3, SeedGoes, FirstJoins
<1>2. CASE Setup!SeedBulkUsers(w)
  <2> DEFINE levels == <<"new", "basic", "basic", "member", "member">>
             new == [u \in Setup!Vacant({Setup!Numbered(i) : i \in 1 .. BulkUsers}) |->
                       Setup!Member(levels[((u[2] - 1) % 5) + 1])]
  <2>1. accounts' = Setup!With(accounts, new) /\ Setup!SeedStep(w, "bulk_users", {})
    BY <1>2 DEF Setup!SeedBulkUsers
  <2>2. \A u \in DOMAIN new : new[u] \in AccountRow /\ new[u].roles = {}
    <3> SUFFICES ASSUME NEW u \in DOMAIN new
                 PROVE  new[u] \in AccountRow /\ new[u].roles = {}
      OBVIOUS
    <3>1. PICK i \in 1 .. BulkUsers : u = Setup!Numbered(i)
      BY DEF Setup!Vacant
    <3>2. u[2] = i /\ i - 1 \in Nat
      BY <3>1, FirstFacts DEF Setup!Numbered
    <3>3. (i - 1) % 5 \in 0 .. 4
      BY <3>2
    <3>4. ((u[2] - 1) % 5) + 1 \in 1 .. 5
      BY <3>2, <3>3
    <3>5. \A n \in 1 .. 5 : levels[n] \in {"new", "basic", "member"}
      OBVIOUS
    <3> HIDE DEF levels
    <3>6. new[u] = Setup!Member(levels[((u[2] - 1) % 5) + 1])
      OBVIOUS
    <3> QED
      BY <3>4, <3>5, <3>6 DEF Setup!Member, AccountRow
  <2>3. "bulk_users" \in Seeding
    BY DEF Seeding
  <2> HIDE DEF new
  <2> QED
    BY <2>1, <2>2, <2>3, SeedGoes, FirstJoins
<1> QED
  BY <1>1, <1>2

LEMMA SeedUpdates ==
    ASSUME FirstInv, NEW w \in Runner, Setup!SeedUserRoles(w) \/ Setup!SeedPreferences(w)
    PROVE  FirstInv'
<1>1. FirstTyped
  BY DEF FirstInv
<1>2. CASE Setup!SeedUserRoles(w)
  <2> DEFINE given(u) == [accounts[u] EXCEPT
                !.roles = @ \cup {IF u = Setup!Seeded(Moderator) THEN "moderator" ELSE "member"}]
             new == [u \in DOMAIN accounts |->
                       IF u \in Setup!ExampleUser \cup Setup!BulkIds THEN given(u)
                       ELSE accounts[u]]
  <2>1. accounts' = new /\ Setup!SeedStep(w, "roles", Setup!ExampleUser)
    BY <1>2 DEF Setup!SeedUserRoles
  <2>2. \A u \in DOMAIN accounts :
          /\ given(u) \in AccountRow
          /\ "admin" \in given(u).roles <=> "admin" \in accounts[u].roles
          /\ given(u).verified = accounts[u].verified /\ given(u).level = accounts[u].level
    BY <1>1 DEF FirstTyped, AccountRow
  <2> HIDE DEF given
  <2>3. /\ DOMAIN new = DOMAIN accounts /\ new = [u \in DOMAIN new |-> new[u]]
        /\ \A u \in DOMAIN accounts : new[u] \in {given(u), accounts[u]}
    OBVIOUS
  <2>4. "roles" \in Seeding
    BY DEF Seeding
  <2> HIDE DEF new
  <2>5. \A u \in DOMAIN accounts :
          /\ new[u] \in AccountRow
          /\ "admin" \in new[u].roles <=> "admin" \in accounts[u].roles
          /\ accounts[u].verified => new[u].verified
          /\ accounts[u].level = "member" => new[u].level = "member"
    BY <1>1, <2>2, <2>3 DEF FirstTyped
  <2> QED
    BY <2>1, <2>3, <2>4, <2>5, SeedGoes, FirstUpdates
<1>3. CASE Setup!SeedPreferences(w)
  <2> DEFINE given(u) == [accounts[u] EXCEPT !.preferences = TRUE]
             new == [u \in DOMAIN accounts |->
                       IF u \in Setup!ExampleUser \cup Setup!BulkIds \cup {Setup!Self(w)}
                       THEN given(u) ELSE accounts[u]]
  <2>1. accounts' = new /\ Setup!SeedStep(w, "preferences", Setup!ExampleUser)
    BY <1>3 DEF Setup!SeedPreferences
  <2>2. \A u \in DOMAIN accounts :
          /\ given(u) \in AccountRow
          /\ "admin" \in given(u).roles <=> "admin" \in accounts[u].roles
          /\ given(u).verified = accounts[u].verified /\ given(u).level = accounts[u].level
    BY ZenonT(40), <1>1 DEF FirstTyped, AccountRow
  <2> HIDE DEF given
  <2>3. /\ DOMAIN new = DOMAIN accounts /\ new = [u \in DOMAIN new |-> new[u]]
        /\ \A u \in DOMAIN accounts : new[u] \in {given(u), accounts[u]}
    OBVIOUS
  <2>4. "preferences" \in Seeding
    BY DEF Seeding
  <2> HIDE DEF new
  <2>5. \A u \in DOMAIN accounts :
          /\ new[u] \in AccountRow
          /\ "admin" \in new[u].roles <=> "admin" \in accounts[u].roles
          /\ accounts[u].verified => new[u].verified
          /\ accounts[u].level = "member" => new[u].level = "member"
    BY <1>1, <2>2, <2>3 DEF FirstTyped
  <2> QED
    BY <2>1, <2>3, <2>4, <2>5, SeedGoes, FirstUpdates
<1> QED
  BY <1>2, <1>3

LEMMA SeedWrites ==
    ASSUME FirstInv, NEW w \in Runner, NEW s \in Seeding, NEW content, Setup!Write(w, s, content)
    PROVE  FirstInv'
<1>1. /\ Setup!SeedStep(w, s, Setup!ExampleUser) /\ accounts' = accounts
      /\ accounts = [u \in DOMAIN accounts |-> accounts[u]]
      /\ \A u \in DOMAIN accounts : accounts[u] \in AccountRow
  BY DEF Setup!Write, FirstInv, FirstTyped
<1> QED
  BY <1>1, SeedGoes, FirstUpdates

LEMMA FirstSeeds ==
    ASSUME FirstInv, NEW w \in Runner, Setup!Seed(w)
    PROVE  FirstInv'
<1>1. ASSUME NEW s \in Seeding, NEW content, Setup!Write(w, s, content)
      PROVE  FirstInv'
  BY <1>1, SeedWrites
<1>2. {"categories", "threads", "posts", "reactions", "tags", "bulk_threads", "bulk_posts",
       "sync", "bulk_reactions", "notices"} \subseteq Seeding
  BY DEF Seeding
<1>3. CASE Setup!SeedCategories(w) \/ Setup!SeedThreads(w) \/ Setup!SeedPosts(w)
  BY <1>1, <1>2, <1>3 DEF Setup!SeedCategories, Setup!SeedThreads, Setup!SeedPosts
<1>4. CASE Setup!SeedReactions(w) \/ Setup!SeedTags(w)
  BY <1>1, <1>2, <1>4 DEF Setup!SeedReactions, Setup!SeedTags
<1>5. CASE Setup!SeedBulkThreads(w) \/ Setup!SeedBulkPosts(w)
  BY <1>1, <1>2, <1>5 DEF Setup!SeedBulkThreads, Setup!SeedBulkPosts
<1>6. CASE Setup!SyncThreadStats(w) \/ Setup!SeedBulkReactions(w) \/ Setup!SeedNotifications(w)
  BY <1>1, <1>2, <1>6 DEF Setup!SyncThreadStats, Setup!SeedBulkReactions, Setup!SeedNotifications
<1> QED
  BY <1>3, <1>4, <1>5, <1>6, SeedJoins, SeedUpdates, FirstAnswers DEF Setup!Seed

(* The server.                                                             *)
LEMMA FirstStarts ==
    ASSUME FirstInv, NEW w \in Runner, NEW n, NEW seed, Setup!Start(w, n, seed),
           UNCHANGED <<setup_world, server, setup_complete, setup_lock, reported, accounts>>
    PROVE  FirstInv'
<1> DEFINE f == [name |-> n, seed |-> seed]
<1>1. /\ run' = [run EXCEPT ![w] = "wait"] /\ form' = [form EXCEPT ![w] = f]
      /\ FirstTyped
  BY DEF Setup!Start, FirstInv
<1> HIDE DEF f
<1> QED
  BY <1>1, FirstMoves DEF Places, Outside, Making, FirstTyped

LEMMA FirstServes ==
    ASSUME FirstInv,
           \/ Setup!maybe_run_headless_setup
           \/ \E answered \in BOOLEAN : Setup!setup_guard(answered)
    PROVE  FirstInv'
<1>1. ASSUME UNCHANGED <<setup_world, setup_lock, run, form, reported, accounts>>,
             server' \in {"starting", "up", "stopped"},
             setup_complete' \in BOOLEAN, setup_complete' => ~Setup!needs_setup
      PROVE  FirstInv'
  BY <1>1 DEF FirstInv, FirstTyped, Holding, Single, Prepared, Setup!Self, Setup!needs_setup,
     Setup!Administrators, Setup!Made
<1>2. CASE Setup!maybe_run_headless_setup
  <2>1. CASE Setup!Start(Boot, setup_world.headless, FALSE) /\ server' = server
    BY <1>2, <2>1, FirstStarts, FirstFacts DEF Setup!maybe_run_headless_setup
  <2>2. CASE server' \in {"up", "stopped"} /\ UNCHANGED <<run, form>>
    BY <1>1, <1>2, <2>2 DEF Setup!maybe_run_headless_setup, FirstInv, FirstTyped
  <2> QED
    BY <1>2, <2>1, <2>2 DEF Setup!maybe_run_headless_setup
<1>3. CASE \E answered \in BOOLEAN : Setup!setup_guard(answered)
  BY <1>1, <1>3 DEF Setup!setup_guard, FirstInv, FirstTyped
<1> QED
  BY <1>2, <1>3

LEMMA FirstRestarts ==
    ASSUME FirstInv, Setup!Restart
    PROVE  FirstInv'
<1>1. /\ server' = "starting" /\ setup_complete' = FALSE /\ setup_lock' = Nobody
      /\ run' = [w \in Runner |-> "idle"] /\ form' = [w \in Runner |-> Setup!NoForm]
      /\ reported' = "nothing" /\ UNCHANGED <<setup_world, accounts>>
  BY DEF Setup!Restart
<1>2. FirstTyped' /\ Holding'
  BY <1>1 DEF FirstInv, FirstTyped, Holding, Places, Outside
<1>3. Single' /\ \A w \in Runner : Prepared(w)'
  BY <1>1 DEF FirstInv, Single, Prepared, Making, Setup!Administrators
<1> QED
  BY <1>1, <1>2, <1>3 DEF FirstInv

LEMMA FirstNext ==
    ASSUME FirstInv, Setup!Next
    PROVE  FirstInv'
<1>1. ASSUME NEW w \in Runner, Setup!RunSetup(w)
      PROVE  FirstInv'
  BY <1>1, FirstStarts DEF Setup!RunSetup
<1>2. ASSUME NEW w \in Runner, Setup!Run(w)
      PROVE  FirstInv'
  BY <1>2, FirstChecks, FirstAnswers, FirstCreates, FirstVerifies, FirstAssigns DEF Setup!Run
<1> QED
  BY <1>1, <1>2, FirstSeeds, FirstServes, FirstRestarts DEF Setup!Next

FirstSide == side = "setup" => FirstInv

(* However many runs of the setup are sent, fail or are cut off, they make *)
(* one administrator, verified and a member, and the guard closes /setup   *)
(* only once there is one (setup_usecase.rs, setup_guard.rs): what         *)
(* SetupHolds says of the runs.                                            *)
THEOREM OneAdministratorIsMade ==
    PlatformSpec => [](side = "setup" => Setup!OneWholeAdministrator /\ Setup!LatchedOnceSetUp)
<1>1. PlatformInit => FirstSide
  BY FirstInitially DEF PlatformInit, FirstSide
<1>2. FirstSide /\ [PlatformNext]_platformVars => FirstSide'
  <2>1. ASSUME FirstInv, UNCHANGED setupVars
        PROVE  FirstInv'
    BY <2>1 DEF setupVars, FirstInv, FirstTyped, Holding, Single, Prepared, Setup!Self,
       Setup!Made, Setup!needs_setup, Setup!Administrators
  <2> QED
    BY <2>1, FirstNext DEF PlatformNext, platformVars, FirstSide
<1>3. FirstSide => (side = "setup" => Setup!OneWholeAdministrator /\ Setup!LatchedOnceSetUp)
  <2> SUFFICES ASSUME FirstInv
               PROVE  Setup!OneWholeAdministrator /\ Setup!LatchedOnceSetUp
    BY DEF FirstSide
  <2>1. Setup!Cardinality(Setup!Administrators) = Cardinality(Setup!Administrators)
    BY DEF Setup!Cardinality, Cardinality, Setup!IsFiniteSet, IsFiniteSet
  <2>2. Cardinality(Setup!Administrators) <= 1
    <3>1. CASE Setup!Administrators = {}
      BY <3>1, FS_EmptySet
    <3>2. CASE Setup!Administrators # {}
      <4>1. PICK u \in Setup!Administrators : Setup!Administrators = {u}
        BY <3>2 DEF FirstInv, Single
      <4> QED
        BY <4>1, FS_Singleton
    <3> QED
      BY <3>1, <3>2
  <2> QED
    BY <2>1, <2>2 DEF FirstInv, Single, Setup!OneWholeAdministrator, Setup!LatchedOnceSetUp
<1> QED
  BY <1>1, <1>2, <1>3, PTL DEF PlatformSpec

(* The example data.                                                       *)

Examples == {"welcome", "intro", "language", "rust_vs_go", "dark_mode"}
ExampleThread == {<<"example", x>> : x \in Examples}
Content == {"categories", "threads", "posts", "reactions", "tags", "notices", "complete"}

LEMMA SeedFacts ==
    /\ BulkUsers \in Nat /\ BulkThreads \in Nat /\ PostsPerThread \in Nat /\ PostsPerThread >= 1
    /\ ExampleThread \cap Setup!BulkThread = {}
    /\ \A t \in Setup!BulkThread : t[2] \in 1 .. BulkThreads /\ t = <<"bulk", t[2]>>
  BY PlatformConstants DEF Setup!SetupConstants, ExampleThread, Setup!BulkThread

(* What a thread says of its posts.                                        *)
Tallied(t) == site.threads[t].replies = Setup!Cardinality(Setup!PostsOf(t)) - 1
Opened(t) ==
    LET posts == Setup!PostsOf(t)
    IN  \A p \in posts : (\A q \in posts : p.age >= q.age) =>
          p.author = site.threads[t].author /\ (\A q \in posts \ {p} : p.age > q.age)
Dated(t) == site.threads[t].last = Setup!Newest(Setup!PostsOf(t))
InTurn ==
    \A t, u \in Setup!BulkThread : t[2] < u[2] =>
      \A p \in Setup!PostsOf(t), q \in Setup!PostsOf(u) : p.age < q.age
Related ==
    /\ \A t \in DOMAIN site.threads :
         Tallied(t) /\ Opened(t) /\ (t \in Setup!BulkThread => Dated(t))
    /\ InTurn

RowOf(t) == \E c, a, n, l : site.threads[t] = Setup!Row(c, a, n, l)
Outlined(a) ==
    /\ DOMAIN site.threads = ExampleThread
    /\ \A x \in Examples :
         LET e == Setup!Example(a)[x]
         IN  site.threads[<<"example", x>>] = Setup!Row(e.category, Head(e.authors), e.replies, 0)
Told == \A t \in ExampleThread : Tallied(t) /\ Opened(t)

(* What a run of the seed has written, by where it stands.                 *)
Rolled == {"preferences", "categories", "threads", "posts", "reactions", "tags",
           "bulk_threads", "bulk_posts", "sync", "bulk_reactions", "notices"}
Preferred == Rolled \ {"preferences"}
Shared == Setup!ExampleUser \cup Setup!BulkIds
HaveRoles == \A u \in Shared : u \in DOMAIN accounts /\ accounts[u].roles # {}
HavePreferences == \A u \in Shared : accounts[u].preferences

SeedWritten(w) ==
    /\ run[w] \in {"config"} \cup Seeding => ~site.complete /\ ~Setup!needs_setup
    /\ run[w] \in Rolled => HaveRoles
    /\ run[w] \in Preferred => HavePreferences
    /\ run[w] = "posts" => Outlined(Setup!Self(w))
    /\ run[w] \in {"reactions", "tags", "bulk_threads"} =>
         /\ DOMAIN site.threads = ExampleThread /\ Told
         /\ \A p \in site.posts : p.thread \in ExampleThread
    /\ run[w] = "bulk_posts" =>
         /\ DOMAIN site.threads = ExampleThread \cup Setup!BulkThread /\ Told
         /\ \A p \in site.posts : p.thread \in ExampleThread
         /\ \A t \in Setup!BulkThread : RowOf(t)
    /\ run[w] = "sync" =>
         /\ DOMAIN site.threads = ExampleThread \cup Setup!BulkThread /\ Told
         /\ \A t \in Setup!BulkThread : RowOf(t) /\ Opened(t)
         /\ InTurn
    /\ run[w] \in {"bulk_reactions", "notices"} => Related

SeedInv ==
    /\ DOMAIN site = Content
    /\ Setup!needs_setup => ~site.complete
    /\ \A w \in Runner : SeedWritten(w)
    /\ site.complete => HaveRoles /\ HavePreferences /\ Related

(* The posts of a thread, the first of them the oldest.                    *)
Column(t, f, N, B) == {Setup!PostRow(t, f[m], m, B - m) : m \in 1 .. N}

LEMMA InColumn ==
    ASSUME NEW t, NEW f, NEW N, NEW B, NEW p
    PROVE  p \in Column(t, f, N, B) <=> \E m \in 1 .. N : p = Setup!PostRow(t, f[m], m, B - m)
  BY DEF Column

LEMMA PostList ==
    ASSUME NEW t, NEW f, NEW N \in Nat, N >= 1, NEW B \in Int
    PROVE  LET posts == Column(t, f, N, B)
           IN  /\ IsFiniteSet(posts) /\ Cardinality(posts) = N
               /\ \A p \in posts : (\A q \in posts : p.age >= q.age) =>
                    p.author = f[1] /\ (\A q \in posts \ {p} : p.age > q.age)
<1> DEFINE P(m) == Setup!PostRow(t, f[m], m, B - m)
           posts == {P(m) : m \in 1 .. N}
           g == [m \in 1 .. N |-> P(m)]
<1>1. \A m : P(m).n = m /\ P(m).author = f[m] /\ P(m).age = B - m
  BY DEF Setup!PostRow
<1> HIDE DEF P
<1>2. g \in Bijection(1 .. N, posts)
  <2>1. g \in [1 .. N -> posts] /\ \A p \in posts : \E m \in 1 .. N : g[m] = p
    OBVIOUS
  <2>2. \A k, m \in 1 .. N : g[k] = g[m] => k = m
    BY <1>1
  <2> QED
    BY <2>1, <2>2 DEF Bijection, Injection, Surjection, IsInjective
<1>3. IsFiniteSet(1 .. N) /\ Cardinality(1 .. N) = N
  BY FS_Interval
<1>4. IsFiniteSet(posts) /\ Cardinality(posts) = N
  BY <1>2, <1>3, FS_Bijection DEF ExistsBijection
<1>5. ASSUME NEW p \in posts, \A q \in posts : p.age >= q.age
      PROVE  p.author = f[1] /\ (\A q \in posts \ {p} : p.age > q.age)
  <2>1. PICK m \in 1 .. N : p = P(m)
    OBVIOUS
  <2>2. 1 \in 1 .. N /\ P(1) \in posts
    OBVIOUS
  <2>3. p.age >= P(1).age
    BY <1>5, <2>2
  <2>4. m = 1
    BY <1>1, <2>1, <2>3
  <2>5. ASSUME NEW q \in posts \ {p} PROVE p.age > q.age
    <3>1. PICK k \in 1 .. N : q = P(k)
      OBVIOUS
    <3>2. k # 1
      BY <2>1, <2>4, <3>1
    <3> QED
      BY <1>1, <2>1, <2>4, <3>1, <3>2
  <2> QED
    BY <1>1, <2>1, <2>4, <2>5
<1> QED
  BY <1>4, <1>5 DEF P, Column

LEMMA SameSize == \A S : Setup!Cardinality(S) = Cardinality(S)
  BY DEF Setup!Cardinality, Cardinality, Setup!IsFiniteSet, IsFiniteSet

(* The seed goes on in the order of its statements.                        *)
LEMMA SeedOrder ==
    ASSUME NEW w \in Runner
    PROVE  /\ run[w] = "users" => Setup!After(w) = "bulk_users"
           /\ run[w] = "bulk_users" => Setup!After(w) = "roles"
           /\ run[w] = "roles" => Setup!After(w) = "preferences"
           /\ run[w] = "preferences" => Setup!After(w) = "categories"
           /\ run[w] = "categories" => Setup!After(w) = "threads"
           /\ run[w] = "threads" => Setup!After(w) = "posts"
           /\ run[w] = "posts" => Setup!After(w) = "reactions"
           /\ run[w] = "reactions" => Setup!After(w) = "tags"
           /\ run[w] = "tags" => Setup!After(w) = "bulk_threads"
           /\ run[w] = "bulk_threads" => Setup!After(w) = "bulk_posts"
           /\ run[w] = "bulk_posts" => Setup!After(w) = "sync"
           /\ run[w] = "sync" => Setup!After(w) = "bulk_reactions"
           /\ run[w] = "bulk_reactions" => Setup!After(w) = "notices"
           /\ run[w] = "notices" => Setup!After(w) = "session"
<1>1. DOMAIN Setup!SeedStage = 1 .. 14 /\ Len(Setup!SeedStage) = 14
  BY DEF Setup!SeedStage
<1>2. /\ Setup!SeedStage[1] = "users" /\ Setup!SeedStage[2] = "bulk_users"
      /\ Setup!SeedStage[3] = "roles" /\ Setup!SeedStage[4] = "preferences"
      /\ Setup!SeedStage[5] = "categories" /\ Setup!SeedStage[6] = "threads"
      /\ Setup!SeedStage[7] = "posts" /\ Setup!SeedStage[8] = "reactions"
      /\ Setup!SeedStage[9] = "tags" /\ Setup!SeedStage[10] = "bulk_threads"
      /\ Setup!SeedStage[11] = "bulk_posts" /\ Setup!SeedStage[12] = "sync"
      /\ Setup!SeedStage[13] = "bulk_reactions" /\ Setup!SeedStage[14] = "notices"
  BY DEF Setup!SeedStage
<1>3. ASSUME NEW k \in 1 .. 14, run[w] = Setup!SeedStage[k]
      PROVE  Setup!After(w) = IF k = 14 THEN "session" ELSE Setup!SeedStage[k + 1]
  <2>1. \A m \in 1 .. 14 : Setup!SeedStage[m] = run[w] => m = k
    BY <1>2, <1>3
  <2> DEFINE at == CHOOSE m \in DOMAIN Setup!SeedStage : Setup!SeedStage[m] = run[w]
  <2>2. at = k
    BY <1>1, <1>3, <2>1
  <2>3. Setup!After(w) = IF at = 14 THEN "session" ELSE Setup!SeedStage[at + 1]
    BY <1>1 DEF Setup!After
  <2> HIDE DEF at
  <2> QED
    BY <2>2, <2>3
<1> QED
  BY <1>2, <1>3

(* Nobody else is inside.                                                  *)
LEMMA OthersOutside ==
    ASSUME FirstInv, NEW w \in Runner, run[w] \notin Outside
    PROVE  \A v \in Runner \ {w} : run[v] \in Outside
  BY DEF FirstInv, Holding

LEMMA OutsideWritten ==
    ASSUME NEW w \in Runner, run[w] \in Outside \cup {"check", "session"} \cup Making
    PROVE  SeedWritten(w)
  BY DEF SeedWritten, Outside, Making, Seeding, Rolled, Preferred

(* Who is inside moves.                                                    *)
LEMMA SeedMoves ==
    ASSUME FirstInv, SeedInv, NEW w \in Runner, run[w] \notin Outside,
           \A v \in Runner \ {w} : run'[v] = run[v],
           DOMAIN site' = Content, Setup!needs_setup' => ~site'.complete,
           site'.complete => (HaveRoles /\ HavePreferences /\ Related)',
           SeedWritten(w)'
    PROVE  SeedInv'
<1>1. \A v \in Runner \ {w} : run'[v] \in Outside
  BY OthersOutside
<1>2. \A v \in Runner \ {w} : SeedWritten(v)'
  BY <1>1 DEF SeedWritten, Outside, Seeding, Rolled, Preferred
<1> QED
  BY <1>2 DEF SeedInv

(* Nothing is written that the posts and rows depend on.                   *)
LEMMA SeedStays ==
    ASSUME UNCHANGED <<accounts, site>>
    PROVE  /\ UNCHANGED <<HaveRoles, HavePreferences, Related, Told, InTurn, Setup!needs_setup>>
           /\ \A t : UNCHANGED <<RowOf(t), Opened(t)>>
           /\ \A a : UNCHANGED Outlined(a)
  BY DEF HaveRoles, HavePreferences, Related, Told, InTurn, RowOf, Opened, Tallied, Dated,
     Outlined, Shared, Setup!needs_setup, Setup!Administrators, Setup!BulkIds, Setup!PostsOf

LEMMA SeedInitially ==
    ASSUME Setup!Init
    PROVE  SeedInv
<1>1. /\ run = [w \in Runner |-> "idle"] /\ site = Setup!NoContent
  BY DEF Setup!Init
<1>2. DOMAIN site = Content /\ site.complete = FALSE
  BY <1>1 DEF Setup!NoContent, Content
<1>3. \A w \in Runner : SeedWritten(w)
  BY <1>1, OutsideWritten DEF Outside
<1> QED
  BY <1>2, <1>3 DEF SeedInv

(* Nobody goes on with the seed, and nothing is written.                   *)
LEMMA SeedAside ==
    ASSUME SeedInv, UNCHANGED <<accounts, site>>,
           \A w \in Runner :
             \/ run'[w] = run[w] /\ form'[w] = form[w]
             \/ run'[w] \in Outside \cup {"check", "session"} \cup Making
    PROVE  SeedInv'
<1>1. ASSUME NEW w \in Runner PROVE SeedWritten(w)'
  <2>1. CASE run'[w] = run[w] /\ form'[w] = form[w]
    <3>1. Setup!Self(w)' = Setup!Self(w)
      BY <2>1 DEF Setup!Self, Setup!Made
    <3> QED
      BY <2>1, <3>1, SeedStays DEF SeedInv, SeedWritten
  <2>2. CASE run'[w] \in Outside \cup {"check", "session"} \cup Making
    BY <2>2 DEF SeedWritten, Outside, Making, Seeding, Rolled, Preferred
  <2> QED
    BY <1>1, <2>1, <2>2
<1> QED
  BY <1>1, SeedStays DEF SeedInv

LEMMA SeedServed ==
    ASSUME FirstInv, SeedInv,
           \/ \E w \in Runner : Setup!RunSetup(w) \/ Setup!Acquire(w) \/ Setup!Checked(w)
           \/ \E w \in Runner : Setup!Refused(w) \/ Setup!OpenSession(w) \/ Setup!Fails(w)
           \/ \E w \in Runner : Setup!NoUser(w)
           \/ Setup!maybe_run_headless_setup \/ Setup!Restart
           \/ \E answered \in BOOLEAN : Setup!setup_guard(answered)
    PROVE  SeedInv'
<1>1. FirstTyped
  BY DEF FirstInv
<1>2. ASSUME NEW w \in Runner, UNCHANGED <<accounts, site>>,
             NEW place \in Outside \cup {"check", "session"} \cup Making,
             run' = [run EXCEPT ![w] = place],
             \A v \in Runner \ {w} : form'[v] = form[v]
      PROVE  SeedInv'
  <2>1. \A v \in Runner : run'[v] = IF v = w THEN place ELSE run[v]
    BY <1>1, <1>2 DEF FirstTyped
  <2> QED
    BY <1>2, <2>1, SeedAside
<1>3. ASSUME NEW w \in Runner, NEW f, form' = [form EXCEPT ![w] = f]
      PROVE  \A v \in Runner \ {w} : form'[v] = form[v]
  BY <1>1, <1>3 DEF FirstTyped
<1>4. ASSUME NEW w \in Runner, NEW n, NEW seed, Setup!Start(w, n, seed),
             UNCHANGED <<accounts, site>>
      PROVE  SeedInv'
  BY <1>2, <1>3, <1>4 DEF Setup!Start, Outside
<1>5. ASSUME NEW w \in Runner, NEW answer, Setup!Answer(w, answer), UNCHANGED <<accounts, site>>
      PROVE  SeedInv'
  BY <1>2, <1>3, <1>5 DEF Setup!Answer, Outside
<1>6. ASSUME NEW w \in Runner, Setup!RunSetup(w) PROVE SeedInv'
  BY <1>4, <1>6 DEF Setup!RunSetup
<1>7. ASSUME NEW w \in Runner, Setup!Acquire(w) \/ Setup!Checked(w) PROVE SeedInv'
  <2>1. /\ UNCHANGED <<accounts, site, form>>
        /\ \E place \in {"check", "find", "create"} : run' = [run EXCEPT ![w] = place]
    BY <1>7 DEF Setup!Acquire, Setup!Checked, Setup!Goto
  <2> QED
    BY <1>2, <2>1 DEF Making
<1>8. ASSUME NEW w \in Runner,
             Setup!Refused(w) \/ Setup!OpenSession(w) \/ Setup!Fails(w) \/ Setup!NoUser(w)
      PROVE  SeedInv'
  BY <1>5, <1>8 DEF Setup!Refused, Setup!OpenSession, Setup!Fails, Setup!NoUser
<1>9. ASSUME UNCHANGED <<run, form, accounts, site>> PROVE SeedInv'
  BY <1>9, SeedAside
<1>10. CASE Setup!maybe_run_headless_setup
  <2>1. Boot \in Runner
    BY FirstFacts
  <2> QED
    BY <1>4, <1>9, <1>10, <2>1 DEF Setup!maybe_run_headless_setup
<1>11. CASE \E answered \in BOOLEAN : Setup!setup_guard(answered)
  BY <1>9, <1>11 DEF Setup!setup_guard
<1>12. CASE Setup!Restart
  BY <1>12, SeedAside DEF Setup!Restart, Outside
<1> QED
  BY <1>6, <1>7, <1>8, <1>10, <1>11, <1>12

LEMMA StillHave ==
    ASSUME UNCHANGED accounts
    PROVE  UNCHANGED <<HaveRoles, HavePreferences, Setup!needs_setup>>
  BY DEF HaveRoles, HavePreferences, Shared, Setup!BulkIds, Setup!needs_setup, Setup!Administrators

(* The steps before the seed: there is no administrator yet.               *)
LEMMA SeedAwaits ==
    ASSUME FirstInv, SeedInv, NEW w \in Runner,
           \/ Setup!CreateAdmin(w) \/ Setup!Verify(w) \/ Setup!SetTrustLevel(w)
           \/ Setup!AssignAdmin(w) \/ Setup!WriteConfig(w)
    PROVE  SeedInv'
<1>1. run[w] \in Making \cup {"config"} /\ run[w] \notin Outside /\ site' = site
  BY DEF Setup!CreateAdmin, Setup!Verify, Setup!SetTrustLevel, Setup!AssignAdmin,
     Setup!WriteConfig, Making, Outside
<1>2. ~site.complete
  BY <1>1 DEF FirstInv, SeedInv, Prepared, SeedWritten
<1>3. PICK place \in {"verify", "level", "assign", "config", "users", "session"} :
        Setup!Goto(w, place)
  BY DEF Setup!CreateAdmin, Setup!Verify, Setup!SetTrustLevel, Setup!AssignAdmin,
     Setup!WriteConfig, Setup!SeedStage
<1>4. \A v \in Runner : run'[v] = IF v = w THEN place ELSE run[v]
  BY <1>3 DEF Setup!Goto, FirstInv, FirstTyped
<1>5. CASE Setup!AssignAdmin(w)
  <2>1. /\ run[w] = "assign" /\ run'[w] = "config"
        /\ accounts' = [accounts EXCEPT ![Setup!Self(w)].roles = @ \cup {"admin"}]
    BY <1>5 DEF Setup!AssignAdmin, Setup!Goto, FirstInv, FirstTyped
  <2>2. /\ Setup!Self(w) \in DOMAIN accounts /\ accounts[Setup!Self(w)] \in AccountRow
        /\ accounts = [u \in DOMAIN accounts |-> accounts[u]]
    BY <2>1 DEF FirstInv, FirstTyped, Prepared
  <2>3. /\ Setup!Self(w) \in DOMAIN accounts'
        /\ "admin" \in accounts'[Setup!Self(w)].roles
    BY <2>1, <2>2 DEF AccountRow
  <2>4. ~Setup!needs_setup'
    BY <2>3 DEF Setup!needs_setup, Setup!Administrators
  <2>5. SeedWritten(w)'
    BY <1>1, <1>2, <2>1, <2>4 DEF SeedWritten, Rolled, Preferred, Seeding
  <2> QED
    BY <1>1, <1>2, <1>4, <2>4, <2>5, SeedMoves DEF SeedInv
<1>6. CASE Setup!WriteConfig(w)
  <2>1. run[w] = "config" /\ run'[w] \in {"users", "session"} /\ accounts' = accounts
    BY <1>6 DEF Setup!WriteConfig, Setup!Goto, FirstInv, FirstTyped, Setup!SeedStage
  <2>2. ~Setup!needs_setup'
    BY <2>1, StillHave DEF SeedInv, SeedWritten
  <2>3. SeedWritten(w)'
    BY <1>1, <1>2, <2>1, <2>2 DEF SeedWritten, Rolled, Preferred, Seeding
  <2> QED
    BY <1>1, <1>2, <1>4, <2>2, <2>3, SeedMoves DEF SeedInv
<1>7. CASE Setup!CreateAdmin(w) \/ Setup!Verify(w) \/ Setup!SetTrustLevel(w)
  <2>1. run'[w] \in {"verify", "level", "assign"}
    BY <1>7 DEF Setup!CreateAdmin, Setup!Verify, Setup!SetTrustLevel, Setup!Goto, FirstInv,
       FirstTyped
  <2>2. SeedWritten(w)'
    BY <2>1 DEF SeedWritten, Rolled, Preferred, Seeding
  <2> QED
    BY <1>1, <1>2, <1>4, <2>2, SeedMoves DEF SeedInv
<1> QED
  BY <1>5, <1>6, <1>7

(* A statement of the seed goes on to the next.                            *)
LEMMA SeedAdvances ==
    ASSUME FirstInv, SeedInv, NEW w \in Runner, NEW s \in Seeding, NEW users,
           Setup!SeedStep(w, s, users)
    PROVE  /\ run[w] = s /\ run[w] \notin Outside /\ SeedWritten(w)
           /\ ~site.complete /\ ~Setup!needs_setup
           /\ run'[w] = Setup!After(w) /\ \A v \in Runner \ {w} : run'[v] = run[v]
           /\ form' = form /\ Setup!Self(w)' = Setup!Self(w) /\ users \subseteq DOMAIN accounts
<1>1. /\ run[w] = s /\ Setup!Goto(w, Setup!After(w)) /\ s \notin Outside
      /\ users \subseteq DOMAIN accounts
  BY DEF Setup!SeedStep, Seeding, Outside
<1>2. ~site.complete /\ ~Setup!needs_setup /\ SeedWritten(w)
  BY <1>1 DEF SeedInv, SeedWritten
<1> QED
  BY <1>1, <1>2 DEF Setup!Goto, FirstInv, FirstTyped, Setup!Self, Setup!Made

LEMMA AdministratorsStay ==
    ASSUME DOMAIN accounts \subseteq DOMAIN accounts', ~Setup!needs_setup,
           \A u \in DOMAIN accounts :
             "admin" \in accounts[u].roles => "admin" \in accounts'[u].roles
    PROVE  ~Setup!needs_setup'
  BY DEF Setup!needs_setup, Setup!Administrators

LEMMA SeedJoinsWritten ==
    ASSUME FirstInv, SeedInv, NEW w \in Runner, Setup!SeedUsers(w) \/ Setup!SeedBulkUsers(w)
    PROVE  SeedInv'
<1>1. PICK s \in {"users", "bulk_users"} : Setup!SeedStep(w, s, {}) /\ site' = site
  BY DEF Setup!SeedUsers, Setup!SeedBulkUsers
<1>2. s \in Seeding
  BY DEF Seeding
<1>3. /\ run[w] = s /\ run[w] \notin Outside /\ ~site.complete /\ ~Setup!needs_setup
      /\ run'[w] = Setup!After(w) /\ \A v \in Runner \ {w} : run'[v] = run[v]
  BY <1>1, <1>2, SeedAdvances
<1>4. run'[w] \in {"bulk_users", "roles"}
  BY <1>3, SeedOrder
<1>5. \E new : accounts' = Setup!With(accounts, new)
  BY DEF Setup!SeedUsers, Setup!SeedBulkUsers
<1>6. ~Setup!needs_setup'
  <2>1. /\ DOMAIN accounts \subseteq DOMAIN accounts'
        /\ \A u \in DOMAIN accounts : accounts'[u] = accounts[u]
    BY <1>5 DEF Setup!With
  <2> QED
    BY <1>3, <2>1, AdministratorsStay
<1>7. SeedWritten(w)'
  BY <1>1, <1>3, <1>4, <1>6 DEF SeedWritten, Rolled, Preferred
<1> QED
  BY <1>1, <1>3, <1>7, SeedMoves DEF SeedInv

LEMMA SeedUpdatesWritten ==
    ASSUME FirstInv, SeedInv, NEW w \in Runner, Setup!SeedUserRoles(w) \/ Setup!SeedPreferences(w)
    PROVE  SeedInv'
<1>1. PICK s \in {"roles", "preferences"} :
        Setup!SeedStep(w, s, Setup!ExampleUser) /\ site' = site
  BY DEF Setup!SeedUserRoles, Setup!SeedPreferences
<1>2. s \in Seeding
  BY DEF Seeding
<1>3. /\ run[w] = s /\ run[w] \notin Outside /\ SeedWritten(w)
      /\ ~site.complete /\ ~Setup!needs_setup
      /\ run'[w] = Setup!After(w) /\ \A v \in Runner \ {w} : run'[v] = run[v]
      /\ Setup!ExampleUser \subseteq DOMAIN accounts
  BY <1>1, <1>2, SeedAdvances
<1>4. /\ FirstTyped /\ Shared \subseteq DOMAIN accounts
      /\ \A u \in DOMAIN accounts : accounts[u] \in AccountRow
  BY <1>3 DEF FirstInv, FirstTyped, Shared, Setup!BulkIds
<1>5. CASE Setup!SeedUserRoles(w)
  <2> DEFINE given(u) == [accounts[u] EXCEPT
                !.roles = @ \cup {IF u = Setup!Seeded(Moderator) THEN "moderator" ELSE "member"}]
  <2>1. accounts' = [u \in DOMAIN accounts |->
                       IF u \in Shared THEN given(u) ELSE accounts[u]]
    BY <1>5 DEF Setup!SeedUserRoles, Shared
  <2>2. \A u \in DOMAIN accounts :
          given(u).roles # {} /\ ("admin" \in accounts[u].roles => "admin" \in given(u).roles)
    BY <1>4 DEF AccountRow
  <2> HIDE DEF given
  <2>3. DOMAIN accounts' = DOMAIN accounts /\ \A u \in Shared : accounts'[u] = given(u)
    BY <1>4, <2>1
  <2>4. Shared' = Shared
    BY <2>3 DEF Shared, Setup!BulkIds
  <2>5. HaveRoles'
    BY <1>4, <2>2, <2>3, <2>4 DEF HaveRoles
  <2>6. run'[w] = "preferences"
    BY <1>3, <1>5, SeedOrder DEF Setup!SeedUserRoles, Setup!SeedStep
  <2>a. \A u \in DOMAIN accounts : accounts'[u] \in {given(u), accounts[u]}
    BY <2>1
  <2>b. ~Setup!needs_setup'
    BY <1>3, <2>2, <2>3, <2>a, AdministratorsStay
  <2>7. SeedWritten(w)'
    BY <1>1, <1>3, <2>5, <2>6, <2>b DEF SeedWritten, Rolled, Preferred, Seeding
  <2> QED
    BY <1>1, <1>3, <2>7, SeedMoves DEF SeedInv
<1>6. CASE Setup!SeedPreferences(w)
  <2> DEFINE given(u) == [accounts[u] EXCEPT !.preferences = TRUE]
  <2>1. accounts' = [u \in DOMAIN accounts |->
                       IF u \in Shared \cup {Setup!Self(w)} THEN given(u) ELSE accounts[u]]
    BY <1>6 DEF Setup!SeedPreferences, Shared
  <2>2. \A u \in DOMAIN accounts : given(u).roles = accounts[u].roles /\ given(u).preferences
    BY <1>4 DEF AccountRow
  <2> HIDE DEF given
  <2>3. DOMAIN accounts' = DOMAIN accounts /\ \A u \in Shared : accounts'[u] = given(u)
    BY <1>4, <2>1
  <2>4. Shared' = Shared
    BY <2>3 DEF Shared, Setup!BulkIds
  <2>5. run[w] = "preferences" /\ run'[w] = "categories"
    BY <1>3, <1>6, SeedOrder DEF Setup!SeedPreferences, Setup!SeedStep
  <2>6. HaveRoles
    BY <1>3, <2>5 DEF SeedWritten, Rolled
  <2>7. HaveRoles' /\ HavePreferences'
    BY <1>4, <2>2, <2>3, <2>4, <2>6 DEF HaveRoles, HavePreferences
  <2>a. \A u \in DOMAIN accounts : accounts'[u] \in {given(u), accounts[u]}
    BY <2>1
  <2>b. ~Setup!needs_setup'
    BY <1>3, <2>2, <2>3, <2>a, AdministratorsStay
  <2>8. SeedWritten(w)'
    BY <1>1, <1>3, <2>5, <2>7, <2>b DEF SeedWritten, Rolled, Preferred, Seeding
  <2> QED
    BY <1>1, <1>3, <2>8, SeedMoves DEF SeedInv
<1> QED
  BY <1>5, <1>6

(* A statement that writes content, up to the last.                        *)
LEMMA SeedContent ==
    ASSUME FirstInv, SeedInv, NEW w \in Runner, NEW s \in Preferred \ {"notices"},
           NEW content, Setup!Write(w, s, content),
           DOMAIN content = Content, content.complete = site.complete,
           SeedWritten(w) /\ UNCHANGED <<form, accounts>> => SeedWritten(w)'
    PROVE  SeedInv'
<1>1. /\ Setup!SeedStep(w, s, Setup!ExampleUser) /\ site' = content /\ accounts' = accounts
      /\ s \in Seeding
  BY DEF Setup!Write, Seeding, Preferred, Rolled
<1>2. /\ run[w] = s /\ run[w] \notin Outside /\ ~site.complete /\ SeedWritten(w) /\ form' = form
      /\ \A v \in Runner \ {w} : run'[v] = run[v]
  BY <1>1, SeedAdvances
<1> QED
  BY <1>1, <1>2, SeedMoves

LEMMA ThreadsStay ==
    ASSUME UNCHANGED <<site.threads, site.posts>>
    PROVE  /\ UNCHANGED <<Related, Told, InTurn>>
           /\ \A t : UNCHANGED <<RowOf(t), Opened(t), Tallied(t)>>
           /\ \A a : UNCHANGED Outlined(a)
  BY DEF Related, Told, InTurn, RowOf, Opened, Tallied, Dated, Outlined, Setup!PostsOf

LEMMA ExampleFacts ==
    ASSUME NEW a
    PROVE  /\ DOMAIN Setup!Example(a) = Examples
           /\ \A x \in Examples :
                LET e == Setup!Example(a)[x]
                IN  /\ Len(e.authors) \in Nat /\ Len(e.authors) >= 1
                    /\ DOMAIN e.authors = 1 .. Len(e.authors)
                    /\ Head(e.authors) = e.authors[1] /\ e.replies = Len(e.authors) - 1
<1>1. DOMAIN Setup!Example(a) = Examples
  BY DEF Setup!Example, Examples
<1> DEFINE Paired(s, n) == /\ Len(s) \in Nat /\ Len(s) >= 1 /\ DOMAIN s = 1 .. Len(s)
                        /\ Head(s) = s[1] /\ n = Len(s) - 1
<1>2. \A u, v : Paired(<<u, v>>, 1)
  OBVIOUS
<1>3. \A u, v, z : Paired(<<u, v, z>>, 2)
  OBVIOUS
<1> HIDE DEF Paired
<1>4. /\ Paired(Setup!Example(a)["welcome"].authors, Setup!Example(a)["welcome"].replies)
      /\ Paired(Setup!Example(a)["language"].authors, Setup!Example(a)["language"].replies)
      /\ Paired(Setup!Example(a)["rust_vs_go"].authors, Setup!Example(a)["rust_vs_go"].replies)
  BY <1>3 DEF Setup!Example
<1>5. /\ Paired(Setup!Example(a)["intro"].authors, Setup!Example(a)["intro"].replies)
      /\ Paired(Setup!Example(a)["dark_mode"].authors, Setup!Example(a)["dark_mode"].replies)
  BY <1>2 DEF Setup!Example
<1>6. \A x \in Examples : Paired(Setup!Example(a)[x].authors, Setup!Example(a)[x].replies)
  BY <1>4, <1>5 DEF Examples
<1> QED
  BY <1>1, <1>6 DEF Paired

LEMMA SeedsLightly ==
    ASSUME FirstInv, SeedInv, NEW w \in Runner,
           Setup!SeedCategories(w) \/ Setup!SeedReactions(w) \/ Setup!SeedTags(w)
             \/ Setup!SeedBulkReactions(w)
    PROVE  SeedInv'
<1>1. DOMAIN site = Content
  BY DEF SeedInv
<1>2. \E s \in {"categories", "reactions", "tags", "bulk_reactions"} : \E content :
        /\ Setup!Write(w, s, content) /\ DOMAIN content = Content
        /\ content.complete = site.complete
        /\ content.threads = site.threads /\ content.posts = site.posts
  <2>1. \A c : LET new == [site EXCEPT !.categories = c]
               IN  /\ DOMAIN new = Content /\ new.complete = site.complete
                   /\ new.threads = site.threads /\ new.posts = site.posts
    BY <1>1 DEF Content
  <2>2. \A c : LET new == [site EXCEPT !.reactions = c]
               IN  /\ DOMAIN new = Content /\ new.complete = site.complete
                   /\ new.threads = site.threads /\ new.posts = site.posts
    BY <1>1 DEF Content
  <2>3. \A c : LET new == [site EXCEPT !.tags = c]
               IN  /\ DOMAIN new = Content /\ new.complete = site.complete
                   /\ new.threads = site.threads /\ new.posts = site.posts
    BY <1>1 DEF Content
  <2>4. CASE Setup!SeedCategories(w)
    BY <2>1, <2>4 DEF Setup!SeedCategories
  <2>5. CASE Setup!SeedReactions(w)
    BY <2>2, <2>5 DEF Setup!SeedReactions
  <2>6. CASE Setup!SeedTags(w)
    BY <2>3, <2>6 DEF Setup!SeedTags
  <2>7. CASE Setup!SeedBulkReactions(w)
    BY <2>2, <2>7 DEF Setup!SeedBulkReactions
  <2> QED
    BY <2>4, <2>5, <2>6, <2>7
<1> PICK s \in {"categories", "reactions", "tags", "bulk_reactions"} : \E content :
        /\ Setup!Write(w, s, content) /\ DOMAIN content = Content
        /\ content.complete = site.complete
        /\ content.threads = site.threads /\ content.posts = site.posts
  BY <1>2
<1>a. PICK content :
        /\ Setup!Write(w, s, content) /\ DOMAIN content = Content
        /\ content.complete = site.complete
        /\ content.threads = site.threads /\ content.posts = site.posts
  OBVIOUS
<1>3. /\ Setup!SeedStep(w, s, Setup!ExampleUser) /\ site' = content /\ accounts' = accounts
      /\ s \in Seeding /\ s \in Preferred \ {"notices"}
  BY <1>a DEF Setup!Write, Seeding, Preferred, Rolled
<1>4. run[w] = s /\ run'[w] = Setup!After(w) /\ ~site.complete
  BY <1>3, SeedAdvances
<1>5. UNCHANGED <<site.threads, site.posts, site.complete>>
  BY <1>a, <1>3
<1>6. SeedWritten(w) => SeedWritten(w)'
  <2>1. /\ s = "categories" => run'[w] = "threads"
        /\ s = "reactions" => run'[w] = "tags"
        /\ s = "tags" => run'[w] = "bulk_threads"
        /\ s = "bulk_reactions" => run'[w] = "notices"
    BY <1>4, SeedOrder
  <2>2. UNCHANGED <<HaveRoles, HavePreferences, Setup!needs_setup>>
    BY <1>3, StillHave
  <2> QED
    BY <1>a, <1>4, <1>5, <2>1, <2>2, ThreadsStay DEF SeedWritten, Rolled, Preferred, Seeding
<1> QED
  BY <1>a, <1>3, <1>6, SeedContent

LEMMA SeedThreadsWritten ==
    ASSUME FirstInv, SeedInv, NEW w \in Runner, Setup!SeedThreads(w)
    PROVE  SeedInv'
<1> DEFINE example == Setup!Example(Setup!Self(w))
           rows == [t \in {<<"example", x>> : x \in DOMAIN example} |->
                      Setup!Row(example[t[2]].category, Head(example[t[2]].authors),
                                example[t[2]].replies, 0)]
           content == [site EXCEPT !.threads = rows]
<1>1. Setup!Write(w, "threads", content)
  BY DEF Setup!SeedThreads
<1>2. DOMAIN rows = ExampleThread
      /\ \A x \in Examples : rows[<<"example", x>>] =
            Setup!Row(example[x].category, Head(example[x].authors), example[x].replies, 0)
  BY ExampleFacts DEF ExampleThread
<1> HIDE DEF rows
<1>3. /\ DOMAIN content = Content /\ content.complete = site.complete
      /\ content.threads = rows
  BY DEF SeedInv, Content
<1>4. /\ Setup!SeedStep(w, "threads", Setup!ExampleUser) /\ site' = content
      /\ accounts' = accounts /\ "threads" \in Seeding /\ "threads" \in Preferred \ {"notices"}
  BY <1>1 DEF Setup!Write, Seeding, Preferred, Rolled
<1>5. /\ run[w] = "threads" /\ run'[w] = "posts" /\ ~site.complete
      /\ Setup!Self(w)' = Setup!Self(w)
  BY <1>4, SeedAdvances, SeedOrder
<1>6. Outlined(Setup!Self(w))'
  BY <1>2, <1>3, <1>4, <1>5 DEF Outlined
<1>7. UNCHANGED <<HaveRoles, HavePreferences, Setup!needs_setup>>
  BY <1>4, StillHave
<1>8. SeedWritten(w) => SeedWritten(w)'
  BY <1>3, <1>4, <1>5, <1>6, <1>7 DEF SeedWritten, Rolled, Preferred
<1> HIDE DEF content
<1> QED
  BY <1>1, <1>3, <1>4, <1>8, SeedContent

LEMMA SeedPostsWritten ==
    ASSUME FirstInv, SeedInv, NEW w \in Runner, Setup!SeedPosts(w)
    PROVE  SeedInv'
<1> DEFINE me == Setup!Self(w)
           example == Setup!Example(me)
           last(x) == Len(example[x].authors)
           of(x) == {Setup!PostRow(<<"example", x>>, example[x].authors[n], n, last(x) - n) :
                       n \in DOMAIN example[x].authors}
           posts == UNION {of(x) : x \in DOMAIN example}
           content == [site EXCEPT !.posts = posts]
<1>1. Setup!Write(w, "posts", content)
  BY DEF Setup!SeedPosts
<1>2. /\ DOMAIN content = Content /\ content.complete = site.complete
      /\ content.posts = posts /\ content.threads = site.threads
  BY DEF SeedInv, Content
<1>3. /\ Setup!SeedStep(w, "posts", Setup!ExampleUser) /\ site' = content
      /\ accounts' = accounts /\ "posts" \in Seeding /\ "posts" \in Preferred \ {"notices"}
  BY <1>1 DEF Setup!Write, Seeding, Preferred, Rolled
<1>4. /\ run[w] = "posts" /\ run'[w] = "reactions" /\ ~site.complete /\ SeedWritten(w)
  BY <1>3, SeedAdvances, SeedOrder
<1>5. Outlined(me)
  BY <1>4 DEF SeedWritten
<1>6. \A x \in Examples : \A p \in of(x) : p.thread = <<"example", x>>
  BY DEF Setup!PostRow
<1>7. DOMAIN example = Examples
  BY ExampleFacts
<1>8. ASSUME NEW x \in Examples
      PROVE  Tallied(<<"example", x>>)' /\ Opened(<<"example", x>>)'
  <2>1. Setup!PostsOf(<<"example", x>>)' = of(x)
    <3>1. site'.posts = posts
      BY <1>2, <1>3
    <3>2. \A p \in posts : p.thread = <<"example", x>> <=> p \in of(x)
      <4>1. \A y \in Examples : <<"example", y>> = <<"example", x>> => y = x
        OBVIOUS
      <4> HIDE DEF of
      <4> QED
        BY <1>6, <1>7, <4>1
    <3>3. of(x) \subseteq posts
      BY <1>7
    <3> HIDE DEF of, posts
    <3> QED
      BY <3>1, <3>2, <3>3 DEF Setup!PostsOf
  <2>2. /\ last(x) \in Nat /\ last(x) >= 1 /\ DOMAIN example[x].authors = 1 .. last(x)
        /\ Head(example[x].authors) = example[x].authors[1]
        /\ example[x].replies = last(x) - 1
    BY ExampleFacts
  <2>3. /\ Cardinality(of(x)) = last(x)
        /\ \A p \in of(x) : (\A q \in of(x) : p.age >= q.age) =>
             p.author = example[x].authors[1] /\ (\A q \in of(x) \ {p} : p.age > q.age)
    <3> DEFINE t == <<"example", x>>
               f == example[x].authors
               N == last(x)
    <3>1. of(x) = Column(t, f, N, N)
      BY <2>2 DEF Column
    <3>2. N \in Nat /\ N >= 1 /\ N \in Int
      BY <2>2
    <3> HIDE DEF t, f, N, of
    <3> DEFINE all == Column(t, f, N, N)
    <3>3. /\ Cardinality(all) = N
          /\ \A p \in all : (\A q \in all : p.age >= q.age) =>
               p.author = f[1] /\ (\A q \in all \ {p} : p.age > q.age)
      BY <3>2, PostList
    <3> HIDE DEF all
    <3>4. of(x) = all
      BY <3>1 DEF all
    <3> QED
      BY <3>3, <3>4 DEF f, N
  <2>4. /\ site'.threads[<<"example", x>>].replies = last(x) - 1
        /\ site'.threads[<<"example", x>>].author = example[x].authors[1]
    <3>1. site'.threads = site.threads
      BY <1>2, <1>3
    <3>2. site.threads[<<"example", x>>] =
            Setup!Row(example[x].category, Head(example[x].authors), example[x].replies, 0)
      BY <1>5 DEF Outlined
    <3> HIDE DEF example, last
    <3> QED
      BY <2>2, <3>1, <3>2 DEF Setup!Row
  <2> HIDE DEF of, last, example
  <2> QED
    BY <2>1, <2>3, <2>4, SameSize DEF Tallied, Opened
<1>9. /\ Told' /\ DOMAIN site'.threads = ExampleThread
      /\ \A p \in site'.posts : p.thread \in ExampleThread
  <2>1. \A p \in posts : p.thread \in ExampleThread
    BY <1>6, <1>7 DEF ExampleThread
  <2>2. Told'
    BY <1>8 DEF Told, ExampleThread
  <2> HIDE DEF posts
  <2> QED
    BY <1>2, <1>3, <1>5, <2>1, <2>2 DEF Outlined
<1>10. UNCHANGED <<HaveRoles, HavePreferences, Setup!needs_setup>>
  BY <1>3, StillHave
<1>11. SeedWritten(w) => SeedWritten(w)'
  BY <1>2, <1>3, <1>4, <1>9, <1>10 DEF SeedWritten, Rolled, Preferred
<1> HIDE DEF content
<1> QED
  BY <1>1, <1>2, <1>3, <1>11, SeedContent

LEMMA SeedBulkThreadsWritten ==
    ASSUME FirstInv, SeedInv, NEW w \in Runner, Setup!SeedBulkThreads(w)
    PROVE  SeedInv'
<1> DEFINE new == [t \in Setup!BulkThread |->
                     Setup!Row(Setup!Turn(Setup!InSomeOrder(site.categories \cap Setup!Public),
                                          t[2] - 1),
                               Setup!Turn(Setup!Users, t[2] - 1), 0, 2 * t[2])]
           content == [site EXCEPT !.threads = Setup!With(@, new)]
<1>1. Setup!Write(w, "bulk_threads", content)
  BY DEF Setup!SeedBulkThreads
<1>2. /\ DOMAIN new = Setup!BulkThread
      /\ \A t \in Setup!BulkThread : \E c, a, n, l : new[t] = Setup!Row(c, a, n, l)
  OBVIOUS
<1> HIDE DEF new
<1>3. /\ DOMAIN content = Content /\ content.complete = site.complete
      /\ content.threads = Setup!With(site.threads, new) /\ content.posts = site.posts
  BY DEF SeedInv, Content
<1>4. /\ Setup!SeedStep(w, "bulk_threads", Setup!ExampleUser) /\ site' = content
      /\ accounts' = accounts /\ "bulk_threads" \in Seeding
      /\ "bulk_threads" \in Preferred \ {"notices"}
  BY <1>1 DEF Setup!Write, Seeding, Preferred, Rolled
<1>5. /\ run[w] = "bulk_threads" /\ run'[w] = "bulk_posts" /\ ~site.complete /\ SeedWritten(w)
  BY <1>4, SeedAdvances, SeedOrder
<1>6. /\ DOMAIN site.threads = ExampleThread /\ Told
      /\ \A p \in site.posts : p.thread \in ExampleThread
  BY <1>5 DEF SeedWritten
<1> HIDE DEF content
<1>7. site'.threads = Setup!With(site.threads, new) /\ site'.posts = site.posts
  BY <1>3, <1>4
<1>8. /\ DOMAIN site'.threads = ExampleThread \cup Setup!BulkThread
      /\ \A t \in ExampleThread : site'.threads[t] = site.threads[t]
      /\ \A t \in Setup!BulkThread : site'.threads[t] = new[t]
  BY <1>2, <1>6, <1>7, SeedFacts DEF Setup!With
<1>9. Told'
  BY <1>6, <1>7, <1>8 DEF Told, Tallied, Opened, Setup!PostsOf
<1>10. \A t \in Setup!BulkThread : RowOf(t)'
  BY <1>2, <1>8 DEF RowOf
<1>11. UNCHANGED <<HaveRoles, HavePreferences, Setup!needs_setup>>
  BY <1>4, StillHave
<1>12. SeedWritten(w) => SeedWritten(w)'
  BY <1>3, <1>4, <1>5, <1>6, <1>7, <1>8, <1>9, <1>10, <1>11 DEF SeedWritten, Rolled, Preferred
<1> QED
  BY <1>1, <1>3, <1>4, <1>12, SeedContent

(* A bulk thread has the minutes before the next one's to itself.          *)
LEMMA MinutesApart ==
    ASSUME NEW i \in Nat, NEW j \in Nat, i < j, NEW K \in Nat, NEW a \in Int, NEW b \in Int,
           a < K + b
    PROVE  i * K + a < j * K + b
<1>1. PICK c \in Nat : j = i + 1 + c
  <2>1. j - i - 1 \in Nat /\ j = i + 1 + (j - i - 1)
    OBVIOUS
  <2> QED
    BY <2>1
<1>2. c * K \in Nat /\ i * K \in Nat
  OBVIOUS
<1>3. (i + 1 + c) * K = i * K + K + c * K
  BY <1>2
<1> QED
  BY <1>1, <1>2, <1>3

BulkPosts(t) ==
    LET position == BulkThreads - t[2]
    IN  {Setup!PostRow(t, IF n = 0 THEN site.threads[t].author
                          ELSE Setup!Turn(Setup!Users, position * PostsPerThread + n),
                       n + 1, Setup!AgeOf(position, n)) : n \in 0 .. PostsPerThread - 1}

(* They are written in turn, by the author of the thread at first.         *)
LEMMA BulkPosted ==
    ASSUME NEW t \in Setup!BulkThread
    PROVE  /\ \A p \in BulkPosts(t) : (\A q \in BulkPosts(t) : p.age >= q.age) =>
                p.author = site.threads[t].author /\ (\A q \in BulkPosts(t) \ {p} : p.age > q.age)
           /\ \A p \in BulkPosts(t) :
                /\ p.thread = t
                /\ \E n \in 0 .. PostsPerThread - 1 :
                     p.age = (t[2] - 1) * (PostsPerThread + 2) + (PostsPerThread - n)
<1> DEFINE i == t[2]
           P == PostsPerThread
           position == BulkThreads - i
           who(n) == IF n = 0 THEN site.threads[t].author
                     ELSE Setup!Turn(Setup!Users, position * P + n)
           f == [m \in 1 .. P |-> who(m - 1)]
           start == (i - 1) * (P + 2)
           entry(n) == Setup!PostRow(t, who(n), n + 1, Setup!AgeOf(position, n))
<1>1. i \in 1 .. BulkThreads /\ BulkThreads \in Nat /\ P \in Nat /\ P >= 1
  BY SeedFacts
<1>2. start \in Nat
  <2>1. i - 1 \in Nat /\ P + 2 \in Nat
    BY <1>1
  <2> QED
    BY <2>1
<1>3. \A n \in 0 .. P - 1 : Setup!AgeOf(position, n) = start + (P - n)
  <2>1. BulkThreads - 1 - position = i - 1
    BY <1>1
  <2> QED
    BY <1>1, <1>2, <2>1 DEF Setup!AgeOf
<1>4. BulkPosts(t) = {entry(n) : n \in 0 .. P - 1}
  BY DEF BulkPosts
<1>5. f[1] = site.threads[t].author
  BY <1>1
<1>6. \A m \in 1 .. P : f[m] = who(m - 1)
  OBVIOUS
<1> HIDE DEF who, start, f, position
<1>7. BulkPosts(t) = Column(t, f, P, start + P + 1)
  <2>1. \A m \in 1 .. P :
          /\ m - 1 \in 0 .. P - 1
          /\ entry(m - 1) = Setup!PostRow(t, f[m], m, (start + P + 1) - m)
    BY <1>1, <1>2, <1>3, <1>6
  <2>2. \A n \in 0 .. P - 1 : n + 1 \in 1 .. P /\ n = (n + 1) - 1
    BY <1>1
  <2> HIDE DEF entry
  <2>3. \A n \in 0 .. P - 1 :
          /\ n + 1 \in 1 .. P
          /\ entry(n) = Setup!PostRow(t, f[n + 1], n + 1, (start + P + 1) - (n + 1))
    BY <2>1, <2>2
  <2>4. ASSUME NEW p \in BulkPosts(t) PROVE p \in Column(t, f, P, start + P + 1)
    <3>1. PICK n \in 0 .. P - 1 : p = entry(n)
      BY <1>4
    <3> QED
      BY <2>3, <3>1, InColumn
  <2>5. ASSUME NEW p \in Column(t, f, P, start + P + 1) PROVE p \in BulkPosts(t)
    <3>0. p \in Column(t, f, P, start + P + 1)
      BY <2>5
    <3>1. PICK m \in 1 .. P : p = Setup!PostRow(t, f[m], m, (start + P + 1) - m)
      BY <3>0, InColumn
    <3> QED
      BY <1>4, <2>1, <3>1
  <2> QED
    BY <2>4, <2>5
<1>8. \A p \in BulkPosts(t) : (\A q \in BulkPosts(t) : p.age >= q.age) =>
          p.author = f[1] /\ (\A q \in BulkPosts(t) \ {p} : p.age > q.age)
  BY <1>1, <1>2, <1>7, PostList
<1>9. \A n \in 0 .. P - 1 : entry(n).thread = t /\ entry(n).age = start + (P - n)
  BY <1>3 DEF Setup!PostRow
<1> QED
  BY <1>4, <1>5, <1>8, <1>9 DEF start

LEMMA SeedBulkPostsWritten ==
    ASSUME FirstInv, SeedInv, NEW w \in Runner, Setup!SeedBulkPosts(w)
    PROVE  SeedInv'
<1> DEFINE all == UNION {BulkPosts(t) : t \in Setup!BulkThread}
           content == [site EXCEPT !.posts = @ \cup all]
<1>1. Setup!Write(w, "bulk_posts", content)
  BY DEF Setup!SeedBulkPosts, BulkPosts
<1>2. /\ DOMAIN content = Content /\ content.complete = site.complete
      /\ content.threads = site.threads /\ content.posts = site.posts \cup all
  BY DEF SeedInv, Content
<1>3. /\ Setup!SeedStep(w, "bulk_posts", Setup!ExampleUser) /\ site' = content
      /\ accounts' = accounts /\ "bulk_posts" \in Seeding
      /\ "bulk_posts" \in Preferred \ {"notices"}
  BY <1>1 DEF Setup!Write, Seeding, Preferred, Rolled
<1>4. /\ run[w] = "bulk_posts" /\ run'[w] = "sync" /\ ~site.complete /\ SeedWritten(w)
  BY <1>3, SeedAdvances, SeedOrder
<1>5. /\ DOMAIN site.threads = ExampleThread \cup Setup!BulkThread /\ Told
      /\ \A p \in site.posts : p.thread \in ExampleThread
      /\ \A t \in Setup!BulkThread : RowOf(t)
  BY <1>4 DEF SeedWritten
<1> HIDE DEF content
<1>6. site'.threads = site.threads /\ site'.posts = site.posts \cup all
  BY <1>2, <1>3
<1>7. \A t \in Setup!BulkThread : \A p \in BulkPosts(t) : p.thread = t
  BY BulkPosted
<1>8. /\ \A t \in ExampleThread : Setup!PostsOf(t)' = Setup!PostsOf(t)
      /\ \A t \in Setup!BulkThread : Setup!PostsOf(t)' = BulkPosts(t)
  <2>1. \A p \in all : p.thread \in Setup!BulkThread /\ p \in BulkPosts(p.thread)
    BY <1>7
  <2>2. \A t \in Setup!BulkThread : BulkPosts(t) \subseteq all
    OBVIOUS
  <2> HIDE DEF all
  <2>3. ASSUME NEW t \in ExampleThread PROVE Setup!PostsOf(t)' = Setup!PostsOf(t)
    <3>1. t \notin Setup!BulkThread
      BY SeedFacts
    <3> QED
      BY <1>6, <2>1, <3>1 DEF Setup!PostsOf
  <2>4. ASSUME NEW t \in Setup!BulkThread PROVE Setup!PostsOf(t)' = BulkPosts(t)
    <3>1. t \notin ExampleThread
      BY SeedFacts
    <3> QED
      BY <1>5, <1>6, <1>7, <2>1, <2>2, <3>1 DEF Setup!PostsOf
  <2> QED
    BY <2>3, <2>4
<1>9. Told'
  BY <1>5, <1>6, <1>8 DEF Told, Tallied, Opened
<1>10. \A t \in Setup!BulkThread : RowOf(t)' /\ Opened(t)'
  <2>1. \A t \in Setup!BulkThread : RowOf(t)'
    BY <1>5, <1>6 DEF RowOf
  <2>2. \A t \in Setup!BulkThread : Opened(t)'
    BY <1>6, <1>8, BulkPosted DEF Opened
  <2> QED
    BY <2>1, <2>2
<1>11. InTurn'
  <2> SUFFICES ASSUME NEW t \in Setup!BulkThread, NEW u \in Setup!BulkThread, t[2] < u[2],
                      NEW p \in BulkPosts(t), NEW q \in BulkPosts(u)
               PROVE  p.age < q.age
    BY <1>8 DEF InTurn
  <2> DEFINE K == PostsPerThread + 2
  <2>1. PICK n \in 0 .. PostsPerThread - 1 : p.age = (t[2] - 1) * K + (PostsPerThread - n)
    BY BulkPosted
  <2>2. PICK m \in 0 .. PostsPerThread - 1 : q.age = (u[2] - 1) * K + (PostsPerThread - m)
    BY BulkPosted
  <2>3. /\ t[2] - 1 \in Nat /\ u[2] - 1 \in Nat /\ t[2] - 1 < u[2] - 1 /\ K \in Nat
        /\ PostsPerThread - n \in Int /\ PostsPerThread - m \in Int
        /\ PostsPerThread - n < K + (PostsPerThread - m)
    BY SeedFacts
  <2> HIDE DEF K
  <2> QED
    BY <2>1, <2>2, <2>3, MinutesApart
<1>12. UNCHANGED <<HaveRoles, HavePreferences, Setup!needs_setup>>
  BY <1>3, StillHave
<1>13. SeedWritten(w) => SeedWritten(w)'
  BY <1>2, <1>3, <1>4, <1>5, <1>6, <1>9, <1>10, <1>11, <1>12 DEF SeedWritten, Rolled, Preferred
<1> QED
  BY <1>1, <1>2, <1>3, <1>13, SeedContent

LEMMA SeedSynced ==
    ASSUME FirstInv, SeedInv, NEW w \in Runner, Setup!SyncThreadStats(w)
    PROVE  SeedInv'
<1> DEFINE bulk == Setup!BulkThread
           size(t) == Setup!Cardinality(Setup!PostsOf(t)) - 1
           synced(t) == [site.threads[t] EXCEPT !.replies = size(t),
                                                !.last = Setup!Newest(Setup!PostsOf(t))]
           rows == [t \in DOMAIN site.threads |-> IF t \in bulk THEN synced(t) ELSE site.threads[t]]
           content == [site EXCEPT !.threads = rows]
<1>1. Setup!Write(w, "sync", content)
  BY DEF Setup!SyncThreadStats
<1>2. /\ DOMAIN content = Content /\ content.complete = site.complete
      /\ content.threads = rows /\ content.posts = site.posts
  BY DEF SeedInv, Content
<1>3. /\ Setup!SeedStep(w, "sync", Setup!ExampleUser) /\ site' = content
      /\ accounts' = accounts /\ "sync" \in Seeding /\ "sync" \in Preferred \ {"notices"}
  BY <1>1 DEF Setup!Write, Seeding, Preferred, Rolled
<1>4. /\ run[w] = "sync" /\ run'[w] = "bulk_reactions" /\ ~site.complete /\ SeedWritten(w)
  BY <1>3, SeedAdvances, SeedOrder
<1>5. /\ DOMAIN site.threads = ExampleThread \cup bulk /\ Told
      /\ \A t \in bulk : RowOf(t) /\ Opened(t)
      /\ InTurn
  BY <1>4 DEF SeedWritten
<1>6. \A t \in bulk : /\ synced(t).replies = size(t)
                      /\ synced(t).last = Setup!Newest(Setup!PostsOf(t))
                      /\ synced(t).author = site.threads[t].author
  BY <1>5 DEF RowOf, Setup!Row
<1> HIDE DEF synced
<1>7. /\ DOMAIN rows = ExampleThread \cup bulk /\ \A t \in bulk : rows[t] = synced(t)
      /\ \A t \in ExampleThread : rows[t] = site.threads[t]
  BY <1>5, SeedFacts
<1> HIDE DEF content, rows
<1>8. site'.threads = rows /\ site'.posts = site.posts
  BY <1>2, <1>3
<1>9. \A t : Setup!PostsOf(t)' = Setup!PostsOf(t)
  BY <1>8 DEF Setup!PostsOf
<1>10. Related'
  <2>1. \A t \in ExampleThread : Tallied(t)' /\ Opened(t)' /\ t \notin bulk
    BY <1>5, <1>7, <1>8, <1>9, SeedFacts DEF Told, Tallied, Opened
  <2>2. \A t \in bulk : Tallied(t)' /\ Dated(t)'
    BY <1>6, <1>7, <1>8, <1>9 DEF Tallied, Dated
  <2>3. \A t \in bulk : Opened(t)'
    BY <1>5, <1>6, <1>7, <1>8, <1>9 DEF Opened
  <2>4. InTurn'
    BY <1>5, <1>9 DEF InTurn
  <2> QED
    BY <1>7, <1>8, <2>1, <2>2, <2>3, <2>4 DEF Related
<1>11. UNCHANGED <<HaveRoles, HavePreferences, Setup!needs_setup>>
  BY <1>3, StillHave
<1>12. SeedWritten(w) => SeedWritten(w)'
  BY <1>2, <1>3, <1>4, <1>10, <1>11 DEF SeedWritten, Rolled, Preferred
<1> QED
  BY <1>1, <1>2, <1>3, <1>12, SeedContent

LEMMA SeedCompleted ==
    ASSUME FirstInv, SeedInv, NEW w \in Runner, Setup!SeedNotifications(w)
    PROVE  SeedInv'
<1> DEFINE notices == {<<i, Setup!Turn(Setup!Users, i * 3), i % 3 = 0>> : i \in 1 .. BulkNotices}
           content == [site EXCEPT !.notices = notices, !.complete = TRUE]
<1>1. Setup!Write(w, "notices", content)
  BY DEF Setup!SeedNotifications
<1>2. /\ DOMAIN content = Content /\ content.complete = TRUE
      /\ content.threads = site.threads /\ content.posts = site.posts
  BY DEF SeedInv, Content
<1> HIDE DEF content
<1>3. /\ Setup!SeedStep(w, "notices", Setup!ExampleUser) /\ site' = content
      /\ accounts' = accounts /\ "notices" \in Seeding
  BY <1>1 DEF Setup!Write, Seeding
<1>4. /\ run[w] = "notices" /\ run'[w] = "session" /\ run[w] \notin Outside /\ SeedWritten(w)
      /\ \A v \in Runner \ {w} : run'[v] = run[v]
  BY <1>3, SeedAdvances, SeedOrder
<1>5. HaveRoles /\ HavePreferences /\ Related
  BY <1>4 DEF SeedWritten, Rolled, Preferred
<1>6. (HaveRoles /\ HavePreferences /\ Related)'
  BY <1>2, <1>3, <1>5, StillHave, ThreadsStay
<1>7. ~Setup!needs_setup'
  <2>1. ~Setup!needs_setup
    BY <1>3, SeedAdvances
  <2> QED
    BY <1>3, <2>1, StillHave
<1>8. SeedWritten(w)'
  BY <1>4 DEF SeedWritten, Rolled, Preferred, Seeding
<1> QED
  BY <1>2, <1>3, <1>4, <1>6, <1>7, <1>8, SeedMoves

LEMMA SeedNext ==
    ASSUME FirstInv, SeedInv, Setup!Next
    PROVE  SeedInv'
<1>1. ASSUME NEW w \in Runner, Setup!Run(w)
      PROVE  SeedInv'
  BY <1>1, SeedServed, SeedAwaits DEF Setup!Run
<1>2. ASSUME NEW w \in Runner, Setup!Seed(w)
      PROVE  SeedInv'
  BY <1>2, SeedServed, SeedJoinsWritten, SeedUpdatesWritten, SeedsLightly, SeedThreadsWritten,
     SeedPostsWritten, SeedBulkThreadsWritten, SeedBulkPostsWritten, SeedSynced, SeedCompleted
     DEF Setup!Seed
<1> QED
  BY <1>1, <1>2, SeedServed DEF Setup!Next

SeedSide == side = "setup" => FirstInv /\ SeedInv

(* One first administrator, and, once its run has written the last of the  *)
(* example data, a forum that agrees with itself (setup_usecase.rs,        *)
(* seed.rs): the statements of a seed run in their order, by the one run   *)
(* that holds the lock, before anybody else can write.                     *)
THEOREM SetupAlwaysHolds == PlatformSpec => []SetupHolds
<1>1. PlatformInit => SeedSide
  BY FirstInitially, SeedInitially DEF PlatformInit, SeedSide
<1>2. SeedSide /\ [PlatformNext]_platformVars => SeedSide'
  <2>1. ASSUME FirstInv, SeedInv, UNCHANGED setupVars
        PROVE  FirstInv' /\ SeedInv'
    <3>1. FirstInv'
      BY <2>1 DEF setupVars, FirstInv, FirstTyped, Holding, Single, Prepared, Setup!Self,
         Setup!Made, Setup!needs_setup, Setup!Administrators
    <3>2. UNCHANGED <<run, form, accounts, site>>
      BY <2>1 DEF setupVars
    <3>3. SeedInv'
      BY <2>1, <3>2, SeedAside
    <3> QED
      BY <3>1, <3>3
  <2> QED
    BY <2>1, FirstNext, SeedNext DEF PlatformNext, platformVars, SeedSide
<1>3. SeedSide => (side = "setup" => Setup!TypeOK)
  <2> SUFFICES ASSUME FirstInv PROVE Setup!TypeOK
    BY DEF SeedSide
  <2>1. Places \subseteq Setup!Stage
    <3>1. \A k \in 1 .. 14 : Setup!SeedStage[k] \in Setup!Range(Setup!SeedStage)
      BY DEF Setup!Range, Setup!SeedStage
    <3>2. Seeding \subseteq Setup!Range(Setup!SeedStage)
      BY <3>1 DEF Seeding, Setup!SeedStage
    <3> QED
      BY <3>2 DEF Setup!Stage, Places, Outside, Making
  <2>2. \A u \in DOMAIN accounts : accounts[u].roles \subseteq {"admin", "moderator", "member"}
    BY DEF FirstInv, FirstTyped, AccountRow
  <2> QED
    BY <2>1, <2>2 DEF FirstInv, FirstTyped, Setup!TypeOK
<1>4. SeedSide => (side = "setup" => Setup!SeedAgrees)
  <2> SUFFICES ASSUME SeedInv, site.complete PROVE Setup!SeedAgrees
    BY DEF SeedSide, Setup!SeedAgrees
  <2>1. HaveRoles /\ HavePreferences /\ Related
    BY DEF SeedInv
  <2> QED
    BY <2>1 DEF Setup!SeedAgrees, HaveRoles, HavePreferences, Related, Shared, Tallied, Opened,
       Dated, InTurn
<1>5. SeedSide /\ (side = "setup" => Setup!OneWholeAdministrator /\ Setup!LatchedOnceSetUp)
        => SetupHolds
  BY <1>3, <1>4 DEF SetupHolds, Setup!SetupHolds
<1> QED
  BY <1>1, <1>2, <1>5, OneAdministratorIsMade, PTL DEF PlatformSpec

-----------------------------------------------------------------------------
(* Themes.                                                                 *)

ThemeRow == [parent : Themes!Theme, active : BOOLEAN]
Fields == {"package", "left", "slug", "found", "chain", "color", "built", "image"}
Stages == {"idle", "extract", "upsert", "build", "swap", "deactivate", "activate", "resolve",
           "slug", "chain", "color", "delete", "remove", "preview"}

ThemeTyped ==
    /\ theme_world \in ThemeWorlds
    /\ row \in [Themes!Theme -> ThemeRow \cup {NoTheme}]
    /\ DOMAIN dir = Themes!Theme /\ dir = [t \in Themes!Theme |-> dir[t]]
    /\ \A t \in Themes!Theme : DOMAIN dir[t] = {"pages", "scheme"}
    /\ preview \in [Themes!Theme -> Image \cup {NoImage}]
    /\ refs \in [Image -> Nat]
    /\ theme_pc \in [Process -> Stages]
    /\ DOMAIN theme_req = Process /\ theme_req = [w \in Process |-> theme_req[w]]
    /\ \A w \in Process :
         /\ DOMAIN theme_req[w] = Fields /\ theme_req[w].slug \in Themes!Theme
         /\ theme_pc[w] \in {"extract", "upsert"} =>
              /\ theme_req[w].package \in theme_world.packages
              /\ theme_req[w].slug = theme_req[w].package.slug
         /\ theme_pc[w] = "preview" => theme_req[w].image \in Image
         /\ theme_pc[w] \in {"delete", "remove"} => theme_req[w].slug # Default

(* An image that is pointed to, or is about to be, is stored.              *)
PreviewInv ==
    /\ \A t \in Themes!Theme : preview[t] # NoImage => refs[preview[t]] > 0
    /\ \A w \in Process : theme_pc[w] = "preview" => refs[theme_req[w].image] > 0

(* What the copies in memory and the one active row have to do with each   *)
(* other where a request stands.                                           *)
InPlace == Themes!Actives = {slug_cache} /\ color_cache = dir[slug_cache].scheme
Replaced(t) == Themes!Actives = {t}
Phase(w) ==
    LET r == theme_req[w]
        t == r.slug
    IN  /\ theme_pc[w] \in {"extract", "upsert", "build", "swap", "deactivate", "delete",
                            "remove", "preview"} => InPlace
        /\ theme_pc[w] \in {"extract", "upsert"} => dir[t].scheme = r.package.scheme
        /\ theme_pc[w] \in {"deactivate", "activate"} => row[t] # NoTheme
        /\ theme_pc[w] = "activate" => Themes!Actives = {}
        /\ theme_pc[w] \in {"resolve", "slug", "chain", "color"} => Replaced(t)
        /\ theme_pc[w] \in {"slug", "chain", "color"} => r.color = dir[t].scheme
        /\ theme_pc[w] \in {"chain", "color"} => slug_cache = t
        /\ theme_pc[w] = "delete" => row[t] # NoTheme /\ ~row[t].active
        /\ theme_pc[w] = "remove" => row[t] = NoTheme

(* A theme that has a row has the color of its packages.                   *)
Colored(t) ==
    /\ t = Default => dir[t].scheme = AutoScheme
    /\ \A k \in theme_world.packages : k.slug = t => dir[t].scheme = k.scheme

StyleInv ==
    Themes!Steady =>
        /\ \A v, w \in Process : theme_pc[v] # "idle" /\ theme_pc[w] # "idle" => v = w
        /\ \A t \in Themes!Theme : row[t] # NoTheme => Colored(t)
        /\ \A w \in Process : Phase(w)
        /\ (\A w \in Process : theme_pc[w] = "idle") => InPlace

ThemeInv == ThemeTyped /\ PreviewInv /\ StyleInv

LEMMA ThemeFacts ==
    /\ Default \in Themes!Theme /\ Default \notin Themes!Installed
    /\ Themes!Installed \subseteq Themes!Theme
    /\ NoTheme \notin ThemeRow
    /\ \A x \in ThemeWorlds : \A k \in x.packages :
         k.slug \in Themes!Theme /\ k.parent \in Themes!Theme
  BY PlatformConstants DEF Themes!ThemeConstants, Themes!Theme, ThemeRow

LEMMA ThemeInitially ==
    ASSUME Themes!Init
    PROVE  ThemeInv
<1> USE ThemeFacts DEF Themes!Init
<1>1. ThemeTyped
  BY DEF ThemeTyped, ThemeRow, Stages, Fields, Themes!NoRequest, Themes!NoFiles
<1>2. PreviewInv
  BY DEF PreviewInv
<1>0. [parent |-> Default, active |-> TRUE] \in ThemeRow
  BY DEF ThemeRow
<1>a. [parent |-> Default, active |-> TRUE] # NoTheme
  BY <1>0
<1>3. Themes!Actives = {Default}
  BY <1>a DEF Themes!Actives
<1>4. dir[Default].scheme = AutoScheme
  BY DEF Themes!NoFiles
<1>5. StyleInv
  BY <1>3, <1>4 DEF StyleInv, InPlace, Colored, Phase, Themes!Steady, Themes!Keeps
<1> QED
  BY <1>1, <1>2, <1>5 DEF ThemeInv

(* A request, now r, goes on to place.                                     *)
LEMMA ThemeGoes ==
    ASSUME ThemeTyped, NEW w \in Process, NEW place, NEW r, Themes!Go(w, place, r)
    PROVE  /\ theme_pc'[w] = place /\ theme_req'[w] = r
           /\ \A v \in Process \ {w} : theme_pc'[v] = theme_pc[v] /\ theme_req'[v] = theme_req[v]
           /\ place \in Stages => theme_pc' \in [Process -> Stages]
           /\ DOMAIN theme_req' = Process /\ theme_req' = [v \in Process |-> theme_req'[v]]
  BY DEF ThemeTyped, Themes!Go

(* What a request knows where it stands.                                   *)
Fit(place, r) ==
    /\ place \in Stages /\ DOMAIN r = Fields /\ r.slug \in Themes!Theme
    /\ place \in {"extract", "upsert"} =>
         r.package \in theme_world.packages /\ r.slug = r.package.slug
    /\ place = "preview" => r.image \in Image
    /\ place \in {"delete", "remove"} => r.slug # Default

(* A step of a request, whatever it does to the rows and the files.        *)
LEMMA ThemeSteps ==
    ASSUME ThemeInv, NEW w \in Process, NEW place, NEW r, Themes!Go(w, place, r), Fit(place, r),
           UNCHANGED theme_world,
           row' \in [Themes!Theme -> ThemeRow \cup {NoTheme}],
           DOMAIN dir' = Themes!Theme /\ dir' = [t \in Themes!Theme |-> dir'[t]],
           \A t \in Themes!Theme : DOMAIN dir'[t] = {"pages", "scheme"},
           preview' \in [Themes!Theme -> Image \cup {NoImage}],
           refs' \in [Image -> Nat], \A i \in Image : refs'[i] >= refs[i],
           \A t \in Themes!Theme :
             preview'[t] \in {preview[t], NoImage} \/ refs'[preview'[t]] > 0,
           place = "preview" => refs'[r.image] > 0,
           Themes!Steady =>
             /\ theme_pc[w] # "idle" \/ \A v \in Process : theme_pc[v] = "idle"
             /\ \A t \in Themes!Theme : row'[t] # NoTheme => Colored(t)'
             /\ Phase(w)'
             /\ place = "idle" => InPlace'
    PROVE  ThemeInv'
<1>1. ThemeTyped
  BY DEF ThemeInv
<1>2. /\ theme_pc'[w] = place /\ theme_req'[w] = r
      /\ \A v \in Process \ {w} : theme_pc'[v] = theme_pc[v] /\ theme_req'[v] = theme_req[v]
      /\ theme_pc' \in [Process -> Stages]
      /\ DOMAIN theme_req' = Process /\ theme_req' = [v \in Process |-> theme_req'[v]]
  BY <1>1, ThemeGoes DEF Fit
<1>3. ThemeTyped'
  BY <1>1, <1>2 DEF ThemeTyped, Fit
<1>4. PreviewInv'
  <2>1. \A i \in Image : refs[i] > 0 => refs'[i] > 0
    BY <1>1 DEF ThemeTyped
  <2>2. \A t \in Themes!Theme : preview'[t] # NoImage => refs'[preview'[t]] > 0
    BY <1>1, <2>1 DEF ThemeInv, PreviewInv, ThemeTyped
  <2>3. \A v \in Process : theme_pc'[v] = "preview" => refs'[theme_req'[v].image] > 0
    BY <1>1, <1>2, <2>1 DEF ThemeInv, PreviewInv, ThemeTyped
  <2> QED
    BY <2>2, <2>3 DEF PreviewInv
<1>5. StyleInv'
  <2> SUFFICES ASSUME Themes!Steady
               PROVE  StyleInv'
    BY DEF StyleInv, Themes!Steady, Themes!Undisturbed, Themes!Keeps
  <2>1. \A v \in Process \ {w} : theme_pc'[v] = "idle"
    BY <1>2 DEF ThemeInv, StyleInv
  <2>2. \A v \in Process \ {w} : Phase(v)'
    BY <2>1 DEF Phase
  <2> QED
    BY <1>2, <2>1, <2>2 DEF StyleInv
<1> QED
  BY <1>3, <1>4, <1>5 DEF ThemeInv

(* A step that leaves rows and files, and the copies in memory.            *)
LEMMA ThemeMoves ==
    ASSUME ThemeInv, NEW w \in Process, NEW place, NEW r, Themes!Go(w, place, r), Fit(place, r),
           UNCHANGED <<theme_world, row, dir, slug_cache, color_cache, preview, refs>>,
           place # "preview",
           Themes!Steady =>
             /\ theme_pc[w] # "idle" \/ \A v \in Process : theme_pc[v] = "idle"
             /\ Phase(w)'
             /\ place = "idle" => InPlace
    PROVE  ThemeInv'
<1>1. ThemeTyped /\ StyleInv
  BY DEF ThemeInv
<1>2. InPlace' = InPlace /\ \A t : Colored(t)' = Colored(t)
  BY DEF InPlace, Colored, Themes!Actives
<1>3. \A i \in Image : refs'[i] >= refs[i]
  BY <1>1 DEF ThemeTyped
<1> QED
  BY <1>1, <1>2, <1>3, ThemeSteps DEF ThemeTyped, StyleInv


LEMMA UploadBegins ==
    ASSUME ThemeInv, NEW w \in Process, Themes!BeginUpload(w)
    PROVE  ThemeInv'
<1>1. PICK k \in theme_world.packages :
        /\ Themes!Go(w, "extract", [Themes!NoRequest EXCEPT !.package = k, !.slug = k.slug,
                                                            !.left = DOMAIN k.pages])
        /\ dir' = [dir EXCEPT ![k.slug].scheme = k.scheme]
  BY DEF Themes!BeginUpload
<1> DEFINE r == [Themes!NoRequest EXCEPT !.package = k, !.slug = k.slug, !.left = DOMAIN k.pages]
<1>2. /\ ThemeTyped /\ StyleInv /\ k.slug \in Themes!Theme
      /\ UNCHANGED <<theme_world, row, slug_cache, color_cache, preview, refs>>
      /\ theme_pc[w] = "idle"
      /\ Themes!Steady => \A v \in Process : theme_pc[v] = "idle"
  BY ThemeFacts DEF Themes!BeginUpload, Themes!Idle, Themes!May, Themes!Steady,
     Themes!Undisturbed, ThemeInv, ThemeTyped, Themes!cacheVars, Themes!previewVars
<1>3. DOMAIN r = Fields /\ r.package = k /\ r.slug = k.slug
  BY DEF Themes!NoRequest, Fields
<1>4. Themes!Go(w, "extract", r)
  BY <1>1
<1> HIDE DEF r
<1>5. /\ DOMAIN dir' = Themes!Theme /\ dir' = [t \in Themes!Theme |-> dir'[t]]
      /\ \A t \in Themes!Theme : DOMAIN dir'[t] = {"pages", "scheme"}
      /\ dir'[k.slug].scheme = k.scheme
      /\ \A t \in Themes!Theme \ {k.slug} : dir'[t] = dir[t]
  BY <1>1, <1>2 DEF ThemeTyped
<1>6. Fit("extract", r)
  BY <1>2, <1>3 DEF Fit, Stages
<1>7. theme_pc'[w] = "extract" /\ theme_req'[w] = r
  BY <1>2, <1>4, ThemeGoes
<1>8. ASSUME Themes!Steady
      PROVE  /\ \A t \in Themes!Theme : row'[t] # NoTheme => Colored(t)'
             /\ Phase(w)'
  <2>1. InPlace /\ \A t \in Themes!Theme : row[t] # NoTheme => Colored(t)
    BY <1>2, <1>8 DEF StyleInv
  <2>2. \A x \in theme_world.packages : x.slug = k.slug => x.scheme = k.scheme
    BY <1>8 DEF Themes!Steady, Themes!Keeps
  <2>3. k.slug = Default => k.scheme = AutoScheme
    BY <1>8 DEF Themes!Steady, Themes!Keeps
  <2>4. \A t \in Themes!Theme : row'[t] # NoTheme => Colored(t)'
    BY <1>2, <1>5, <2>1, <2>2, <2>3 DEF Colored
  <2>5. \A t \in Themes!Theme : row[t] # NoTheme => dir'[t].scheme = dir[t].scheme
    BY <1>5, <2>1 DEF Colored
  <2>6. Themes!Actives' = Themes!Actives
    BY <1>2 DEF Themes!Actives
  <2>7. slug_cache \in Themes!Actives /\ slug_cache \in Themes!Theme /\ row[slug_cache] # NoTheme
    BY <2>1 DEF InPlace, Themes!Actives
  <2>8. InPlace'
    BY <1>2, <2>1, <2>5, <2>6, <2>7 DEF InPlace
  <2>9. Phase(w)'
    BY <1>3, <1>5, <1>7, <2>8 DEF Phase
  <2> QED
    BY <2>4, <2>9
<1>9. \A i \in Image : refs'[i] >= refs[i]
  BY <1>2 DEF ThemeTyped
<1> QED
  BY <1>2, <1>4, <1>5, <1>6, <1>8, <1>9, ThemeSteps DEF ThemeTyped

(* What is written of a package, or taken away when it is too large.       *)
LEMMA UploadExtracts ==
    ASSUME ThemeInv, NEW w \in Process, Themes!Extract(w) \/ Themes!TooBig(w)
    PROVE  ThemeInv'
<1> PICK s \in Themes!Theme : s = theme_req[w].slug
  BY DEF ThemeInv, ThemeTyped
<1>1. /\ ThemeTyped /\ StyleInv /\ theme_pc[w] = "extract"
      /\ UNCHANGED <<theme_world, row, slug_cache, color_cache, preview, refs>>
  BY DEF Themes!Extract, Themes!TooBig, ThemeInv, Themes!cacheVars, Themes!previewVars
<1>2. PICK place, r :
        /\ place \in {"extract", "idle"}
        /\ Themes!Go(w, place, r) /\ Fit(place, r)
        /\ Themes!Steady => /\ place = "extract" /\ r.slug = s
                            /\ r.package = theme_req[w].package
  <2>1. CASE Themes!Extract(w)
    <3>1. PICK p : Themes!Go(w, "extract", [theme_req[w] EXCEPT !.left = @ \ {p}])
      BY <2>1 DEF Themes!Extract
    <3> DEFINE r == [theme_req[w] EXCEPT !.left = @ \ {p}]
    <3>2. DOMAIN r = Fields /\ r.slug = s /\ r.package = theme_req[w].package
      BY <1>1 DEF ThemeTyped, Fields
    <3>3. Themes!Go(w, "extract", r)
      BY <3>1
    <3> HIDE DEF r
    <3>4. Fit("extract", r)
      BY <1>1, <3>2 DEF Fit, Stages, ThemeTyped
    <3> QED
      BY <3>2, <3>3, <3>4
  <2>2. CASE Themes!TooBig(w)
    <3>1. Themes!Go(w, "idle", Themes!NoRequest) /\ ~Themes!Steady
      BY <2>2 DEF Themes!TooBig, Themes!Finish, Themes!Steady, Themes!Undisturbed, Themes!May
    <3>2. Fit("idle", Themes!NoRequest)
      BY ThemeFacts DEF Fit, Stages, Fields, Themes!NoRequest
    <3> QED
      BY <3>1, <3>2
  <2> QED
    BY <2>1, <2>2
<1>3. /\ DOMAIN dir' = Themes!Theme /\ dir' = [t \in Themes!Theme |-> dir'[t]]
      /\ \A t \in Themes!Theme : DOMAIN dir'[t] = {"pages", "scheme"}
      /\ Themes!Steady => \A t \in Themes!Theme : dir'[t].scheme = dir[t].scheme
  <2>1. CASE Themes!Extract(w)
    <3>1. PICK pages : dir' = [dir EXCEPT ![s].pages = pages] \/ dir' = dir
      BY <2>1 DEF Themes!Extract
    <3> QED
      BY <1>1, <3>1 DEF ThemeTyped
  <2>2. CASE Themes!TooBig(w)
    <3>1. dir' = [dir EXCEPT ![s] = Themes!NoFiles] /\ ~Themes!Steady
      BY <2>2 DEF Themes!TooBig, Themes!Steady, Themes!Undisturbed, Themes!May
    <3> QED
      BY <1>1, <3>1 DEF ThemeTyped, Themes!NoFiles
  <2> QED
    BY <2>1, <2>2
<1>4. theme_pc'[w] = place /\ theme_req'[w] = r
  BY <1>1, <1>2, ThemeGoes
<1>5. ASSUME Themes!Steady
      PROVE  /\ \A t \in Themes!Theme : row'[t] # NoTheme => Colored(t)'
             /\ Phase(w)' /\ place = "extract"
  <2>1. /\ InPlace /\ dir[s].scheme = theme_req[w].package.scheme
        /\ \A t \in Themes!Theme : row[t] # NoTheme => Colored(t)
    BY <1>1, <1>5 DEF StyleInv, Phase
  <2>2. \A t \in Themes!Theme : row'[t] # NoTheme => Colored(t)'
    BY <1>1, <1>3, <1>5, <2>1 DEF Colored
  <2>3. Themes!Actives' = Themes!Actives
    BY <1>1 DEF Themes!Actives
  <2>4. slug_cache \in Themes!Theme
    BY <2>1 DEF InPlace, Themes!Actives
  <2>5. InPlace'
    BY <1>1, <1>3, <1>5, <2>1, <2>3, <2>4 DEF InPlace
  <2>6. Phase(w)'
    BY <1>2, <1>3, <1>4, <1>5, <2>1, <2>5 DEF Phase
  <2> QED
    BY <1>2, <1>5, <2>2, <2>6
<1>6. \A i \in Image : refs'[i] >= refs[i]
  BY <1>1 DEF ThemeTyped
<1> QED
  BY <1>1, <1>2, <1>3, <1>5, <1>6, ThemeSteps DEF ThemeTyped


(* The rest of an upload, and the other requests where they change neither *)
(* rows nor files.                                                         *)
LEMMA ThemeTurns ==
    ASSUME ThemeInv, NEW w \in Process,
           \/ Themes!FindTheme(w) \/ Themes!Build(w) \/ Themes!Swap(w)
           \/ Themes!Resolve(w) \/ Themes!StoreChain(w)
    PROVE  ThemeInv'
<1>1. /\ ThemeTyped /\ StyleInv /\ theme_pc[w] \in {"extract", "build", "swap", "resolve", "chain"}
      /\ UNCHANGED <<theme_world, row, dir, slug_cache, color_cache, preview, refs>>
  BY DEF Themes!FindTheme, Themes!Build, Themes!Swap, Themes!Resolve, Themes!StoreChain, ThemeInv,
     Themes!diskVars, Themes!cacheVars, Themes!previewVars
<1> PICK q : q = theme_req[w]
  OBVIOUS
<1>2. DOMAIN q = Fields /\ q.slug \in Themes!Theme
  BY <1>1 DEF ThemeTyped
<1>3. ASSUME NEW place \in Stages \ {"preview"}, NEW r, Themes!Go(w, place, r), Fit(place, r),
             Themes!Steady => /\ Phase(w) =>
                                  LET t == r.slug IN
                                  /\ place \in {"upsert", "swap", "idle"} => InPlace
                                  /\ place = "upsert" => dir[t].scheme = r.package.scheme
                                  /\ place \in {"slug", "color"} => /\ Replaced(t)
                                                                   /\ r.color = dir[t].scheme
                                  /\ place = "color" => slug_cache = t
                              /\ place \in {"upsert", "swap", "idle", "slug", "color"}
      PROVE  ThemeInv'
  <2>1. theme_pc'[w] = place /\ theme_req'[w] = r
    BY <1>1, <1>3, ThemeGoes
  <2>2. InPlace' = InPlace /\ \A t : Replaced(t)' = Replaced(t)
    BY <1>1 DEF InPlace, Replaced, Themes!Actives
  <2>3. Themes!Steady => Phase(w)' /\ (place = "idle" => InPlace)
    BY <1>1, <1>3, <2>1, <2>2 DEF Phase, StyleInv
  <2> QED
    BY <1>1, <1>3, <2>3, ThemeMoves
<1>4. CASE Themes!FindTheme(w)
  <2> DEFINE r == [q EXCEPT !.found = row[q.slug] # NoTheme]
  <2>1. DOMAIN r = Fields /\ r.slug = q.slug /\ r.package = q.package
    BY <1>2 DEF Fields
  <2>2. Themes!Go(w, "upsert", r) /\ theme_pc[w] = "extract"
    BY <1>4 DEF Themes!FindTheme
  <2> HIDE DEF r
  <2>3. Fit("upsert", r)
    BY <1>1, <2>1, <2>2 DEF Fit, Stages, ThemeTyped
  <2> QED
    BY <1>3, <2>1, <2>2, <2>3 DEF Phase, Stages
<1>5. CASE Themes!Build(w)
  <2>1. theme_pc[w] = "build"
    BY <1>5 DEF Themes!Build
  <2>2. CASE Themes!Go(w, "idle", Themes!NoRequest)
    <3>1. Fit("idle", Themes!NoRequest)
      BY ThemeFacts DEF Fit, Stages, Fields, Themes!NoRequest
    <3> QED
      BY <1>3, <2>1, <2>2, <3>1 DEF Phase, Stages
  <2>3. CASE \E b : Themes!Go(w, "swap", [q EXCEPT !.built = b])
    <3> PICK b : Themes!Go(w, "swap", [q EXCEPT !.built = b])
      BY <2>3
    <3> DEFINE r == [q EXCEPT !.built = b]
    <3>1. Fit("swap", r)
      BY <1>2 DEF Fit, Stages, Fields
    <3>2. Themes!Go(w, "swap", r)
      OBVIOUS
    <3> HIDE DEF r
    <3> QED
      BY <1>3, <2>1, <3>1, <3>2 DEF Phase, Stages
  <2> QED
    BY <1>5, <2>2, <2>3 DEF Themes!Build, Themes!Finish
<1>6. CASE Themes!Swap(w)
  <2>1. theme_pc[w] = "swap" /\ Themes!Go(w, "idle", Themes!NoRequest)
    BY <1>6 DEF Themes!Swap, Themes!Finish
  <2>2. Fit("idle", Themes!NoRequest)
    BY ThemeFacts DEF Fit, Stages, Fields, Themes!NoRequest
  <2> QED
    BY <1>3, <2>1, <2>2 DEF Phase, Stages
<1>7. CASE Themes!Resolve(w)
  <2> DEFINE r == [q EXCEPT !.chain = Themes!resolve_chain(q.slug), !.color = dir[q.slug].scheme]
  <2>1. theme_pc[w] = "resolve" /\ Themes!Go(w, "slug", r)
    BY <1>7 DEF Themes!Resolve
  <2>2. DOMAIN r = Fields /\ r.slug = q.slug /\ r.color = dir[q.slug].scheme
    BY <1>2 DEF Fields
  <2> HIDE DEF r
  <2>3. Fit("slug", r)
    BY <1>2, <2>2 DEF Fit, Stages
  <2> QED
    BY <1>3, <2>1, <2>2, <2>3 DEF Phase, Stages
<1>8. CASE Themes!StoreChain(w)
  <2>1. theme_pc[w] = "chain" /\ Themes!Go(w, "color", q)
    BY <1>8 DEF Themes!StoreChain, Themes!Goto
  <2>2. Fit("color", q)
    BY <1>2 DEF Fit, Stages
  <2> QED
    BY <1>3, <2>1, <2>2 DEF Phase, Stages
<1> QED
  BY <1>4, <1>5, <1>6, <1>7, <1>8

LEMMA ThemeBegins ==
    ASSUME ThemeInv, NEW w \in Process, Themes!BeginActivate(w) \/ Themes!BeginDelete(w)
    PROVE  ThemeInv'
<1>1. /\ ThemeTyped /\ StyleInv /\ theme_pc[w] = "idle"
      /\ UNCHANGED <<theme_world, row, dir, slug_cache, color_cache, preview, refs>>
      /\ Themes!Steady => \A v \in Process : theme_pc[v] = "idle"
  BY DEF Themes!BeginActivate, Themes!BeginDelete, Themes!Idle, Themes!May, Themes!Steady,
     Themes!Undisturbed, ThemeInv, Themes!diskVars, Themes!cacheVars, Themes!previewVars
<1>2. PICK t \in Themes!Theme, place \in {"deactivate", "delete"} :
        /\ Themes!Go(w, place, [Themes!NoRequest EXCEPT !.slug = t])
        /\ Themes!Steady => row[t] # NoTheme
        /\ place = "delete" => t # Default /\ ~row[t].active
  BY ThemeFacts DEF Themes!BeginActivate, Themes!BeginDelete, Themes!May, Themes!Steady,
     Themes!Undisturbed
<1> DEFINE r == [Themes!NoRequest EXCEPT !.slug = t]
<1>3. DOMAIN r = Fields /\ r.slug = t
  BY DEF Fields, Themes!NoRequest
<1>4. Themes!Go(w, place, r)
  BY <1>2
<1> HIDE DEF r
<1>5. Fit(place, r)
  BY <1>2, <1>3 DEF Fit, Stages
<1>6. theme_pc'[w] = place /\ theme_req'[w] = r
  BY <1>1, <1>4, ThemeGoes
<1>7. InPlace' = InPlace
  BY <1>1 DEF InPlace, Themes!Actives
<1>8. Themes!Steady => Phase(w)'
  BY <1>1, <1>2, <1>3, <1>6, <1>7 DEF Phase, StyleInv
<1> QED
  BY <1>1, <1>2, <1>4, <1>5, <1>8, ThemeMoves

(* A step that leaves the images.                                          *)
LEMMA ThemeWrites ==
    ASSUME ThemeInv, NEW w \in Process, NEW place, NEW r, Themes!Go(w, place, r), Fit(place, r),
           UNCHANGED <<theme_world, refs>>, theme_pc[w] # "idle", place # "preview",
           \/ preview' = preview
           \/ \E t \in Themes!Theme : preview' = [preview EXCEPT ![t] = NoImage],
           row' \in [Themes!Theme -> ThemeRow \cup {NoTheme}],
           DOMAIN dir' = Themes!Theme /\ dir' = [t \in Themes!Theme |-> dir'[t]],
           \A t \in Themes!Theme : DOMAIN dir'[t] = {"pages", "scheme"},
           Themes!Steady =>
             /\ \A t \in Themes!Theme : row'[t] # NoTheme => Colored(t)'
             /\ Phase(w)'
             /\ place = "idle" => InPlace'
    PROVE  ThemeInv'
<1>1. ThemeTyped
  BY DEF ThemeInv
<1>2. /\ preview' \in [Themes!Theme -> Image \cup {NoImage}]
      /\ \A t \in Themes!Theme : preview'[t] \in {preview[t], NoImage}
  BY <1>1 DEF ThemeTyped
<1>3. refs' \in [Image -> Nat] /\ \A i \in Image : refs'[i] >= refs[i]
  BY <1>1 DEF ThemeTyped
<1> QED
  BY <1>2, <1>3, ThemeSteps

LEMMA UploadUpserts ==
    ASSUME ThemeInv, NEW w \in Process, Themes!Upsert(w)
    PROVE  ThemeInv'
<1> PICK q : q = theme_req[w]
  OBVIOUS
<1> PICK s \in Themes!Theme, k \in theme_world.packages : s = q.slug /\ k = q.package
  BY DEF ThemeInv, ThemeTyped, Themes!Upsert
<1>1. /\ ThemeTyped /\ StyleInv /\ theme_pc[w] = "upsert" /\ s = k.slug
      /\ k.parent \in Themes!Theme
      /\ UNCHANGED <<theme_world, dir, slug_cache, color_cache, preview, refs>>
  BY ThemeFacts DEF Themes!Upsert, ThemeInv, ThemeTyped, Themes!cacheVars, Themes!previewVars
<1>2. CASE UNCHANGED row /\ Themes!Go(w, "idle", Themes!NoRequest)
  <2>1. Fit("idle", Themes!NoRequest)
    BY ThemeFacts DEF Fit, Stages, Fields, Themes!NoRequest
  <2>2. theme_pc'[w] = "idle"
    BY <1>1, <1>2, ThemeGoes
  <2>3. Themes!Steady => InPlace /\ Phase(w)'
    BY <1>1, <2>2 DEF Phase, StyleInv
  <2> QED
    BY <1>1, <1>2, <2>1, <2>3, ThemeMoves
<1>3. ASSUME NEW new \in ThemeRow, row' = [row EXCEPT ![s] = new], Themes!Go(w, "build", q),
             row[s] # NoTheme => new.active = row[s].active, row[s] = NoTheme => ~new.active
      PROVE  ThemeInv'
  <2>1. /\ row' \in [Themes!Theme -> ThemeRow \cup {NoTheme}] /\ row'[s] = new
        /\ \A t \in Themes!Theme \ {s} : row'[t] = row[t]
    BY <1>1, <1>3 DEF ThemeTyped
  <2>2. Fit("build", q)
    BY <1>1 DEF Fit, Stages, ThemeTyped
  <2>3. theme_pc'[w] = "build"
    BY <1>1, <1>3, ThemeGoes
  <2>4. Themes!Actives' = Themes!Actives
    <3>1. new # NoTheme
      BY ThemeFacts
    <3> QED
      BY <1>3, <2>1, <3>1 DEF Themes!Actives
  <2>5. ASSUME Themes!Steady
        PROVE  (\A t \in Themes!Theme : row'[t] # NoTheme => Colored(t)') /\ Phase(w)'
    <3>1. InPlace /\ dir[s].scheme = k.scheme
      BY <1>1, <2>5 DEF StyleInv, Phase
    <3>2. InPlace'
      BY <1>1, <2>4, <3>1 DEF InPlace
    <3>3. \A x \in theme_world.packages : x.slug = s => x.scheme = k.scheme
      BY <1>1, <2>5 DEF Themes!Steady, Themes!Keeps
    <3>4. s = Default => k.scheme = AutoScheme
      BY <1>1, <2>5 DEF Themes!Steady, Themes!Keeps
    <3>5. Colored(s)'
      BY <1>1, <3>1, <3>3, <3>4 DEF Colored
    <3>6. \A t \in Themes!Theme \ {s} : row[t] # NoTheme => Colored(t)'
      BY <1>1, <2>5 DEF StyleInv, Colored
    <3> QED
      BY <2>1, <2>3, <3>2, <3>5, <3>6 DEF Phase
  <2>6. theme_pc[w] # "idle"
    BY <1>1
  <2>7. /\ DOMAIN dir' = Themes!Theme /\ dir' = [t \in Themes!Theme |-> dir'[t]]
        /\ \A t \in Themes!Theme : DOMAIN dir'[t] = {"pages", "scheme"}
    BY <1>1 DEF ThemeTyped
  <2> QED
    BY <1>1, <1>3, <2>1, <2>2, <2>5, <2>6, <2>7, ThemeWrites
<1>4. CASE /\ q.found = (row[s] # NoTheme)
           /\ row' = [row EXCEPT ![s] = IF q.found THEN [@ EXCEPT !.parent = k.parent]
                                        ELSE [parent |-> k.parent, active |-> FALSE]]
           /\ Themes!Go(w, "build", q)
  <2>1. CASE row[s] # NoTheme
    <3> DEFINE new == [row[s] EXCEPT !.parent = k.parent]
    <3>1. row[s] \in ThemeRow
      BY <1>1, <2>1 DEF ThemeTyped
    <3>2. new \in ThemeRow /\ new.active = row[s].active
      BY <1>1, <3>1 DEF ThemeRow
    <3>3. row' = [row EXCEPT ![s] = new]
      BY <1>4, <2>1
    <3> HIDE DEF new
    <3> QED
      BY <1>3, <1>4, <2>1, <3>2, <3>3
  <2>2. CASE row[s] = NoTheme
    <3> DEFINE new == [parent |-> k.parent, active |-> FALSE]
    <3>1. new \in ThemeRow /\ ~new.active
      BY <1>1 DEF ThemeRow
    <3>2. row' = [row EXCEPT ![s] = new]
      BY <1>4, <2>2
    <3> HIDE DEF new
    <3> QED
      BY <1>3, <1>4, <2>2, <3>1, <3>2
  <2> QED
    BY <2>1, <2>2
<1> QED
  BY <1>2, <1>4 DEF Themes!Upsert, Themes!Finish, Themes!Goto

LEMMA RowsSwitch ==
    ASSUME ThemeInv, NEW w \in Process, Themes!DeactivateAll(w) \/ Themes!ActivateRow(w)
    PROVE  ThemeInv'
<1> PICK q : q = theme_req[w]
  OBVIOUS
<1> PICK s \in Themes!Theme : s = q.slug
  BY DEF ThemeInv, ThemeTyped
<1>1. /\ ThemeTyped /\ StyleInv /\ theme_pc[w] \in {"deactivate", "activate"}
      /\ UNCHANGED <<theme_world, dir, slug_cache, color_cache, preview, refs>>
      /\ DOMAIN q = Fields
  BY DEF Themes!DeactivateAll, Themes!ActivateRow, ThemeInv, ThemeTyped, Themes!cacheVars,
     Themes!previewVars
<1>2. ASSUME NEW place \in {"activate", "resolve"}, Themes!Go(w, place, q),
             row' \in [Themes!Theme -> ThemeRow \cup {NoTheme}],
             \A t \in Themes!Theme : row'[t] # NoTheme => row[t] # NoTheme,
             Themes!Steady /\ Phase(w) =>
               /\ place = "activate" => row'[s] # NoTheme /\ Themes!Actives' = {}
               /\ place = "resolve" => Themes!Actives' = {s}
      PROVE  ThemeInv'
  <2>1. Fit(place, q)
    BY <1>1, <1>2 DEF Fit, Stages, ThemeTyped
  <2>2. theme_pc'[w] = place /\ theme_req'[w] = q
    BY <1>1, <1>2, ThemeGoes
  <2>3. ASSUME Themes!Steady
        PROVE  (\A t \in Themes!Theme : row'[t] # NoTheme => Colored(t)') /\ Phase(w)'
    BY <1>1, <1>2, <2>2, <2>3 DEF StyleInv, Colored, Phase, Replaced
  <2>4. theme_pc[w] # "idle"
    BY <1>1
  <2>5. /\ DOMAIN dir' = Themes!Theme /\ dir' = [t \in Themes!Theme |-> dir'[t]]
        /\ \A t \in Themes!Theme : DOMAIN dir'[t] = {"pages", "scheme"}
    BY <1>1 DEF ThemeTyped
  <2> QED
    BY <1>1, <1>2, <2>1, <2>3, <2>4, <2>5, ThemeWrites
<1>3. CASE Themes!DeactivateAll(w)
  <2>1. /\ theme_pc[w] = "deactivate" /\ Themes!Go(w, "activate", q)
        /\ row' = [t \in Themes!Theme |-> IF row[t] = NoTheme THEN NoTheme
                                          ELSE [row[t] EXCEPT !.active = FALSE]]
    BY <1>3 DEF Themes!DeactivateAll, Themes!Goto
  <2>2. \A x \in ThemeRow :
           [x EXCEPT !.active = FALSE] \in ThemeRow /\ ~[x EXCEPT !.active = FALSE].active
    BY DEF ThemeRow
  <2>9. \A t \in Themes!Theme : row[t] = NoTheme \/ row[t] \in ThemeRow
    BY <1>1 DEF ThemeTyped
  <2>3. /\ row' \in [Themes!Theme -> ThemeRow \cup {NoTheme}]
        /\ \A t \in Themes!Theme : row'[t] # NoTheme <=> row[t] # NoTheme
        /\ \A t \in Themes!Theme : row'[t] # NoTheme => ~row'[t].active
    BY <2>1, <2>2, <2>9, ThemeFacts
  <2>4. Themes!Actives' = {}
    BY <2>3 DEF Themes!Actives
  <2> QED
    BY <1>2, <2>1, <2>3, <2>4 DEF Phase
<1>4. CASE Themes!ActivateRow(w) /\ row[s] # NoTheme
  <2>1. /\ theme_pc[w] = "activate" /\ Themes!Go(w, "resolve", q)
        /\ row' = [row EXCEPT ![s].active = TRUE]
    BY <1>4 DEF Themes!ActivateRow, Themes!Goto
  <2> DEFINE new == [row[s] EXCEPT !.active = TRUE]
  <2>5. row[s] \in ThemeRow
    BY <1>1, <1>4 DEF ThemeTyped
  <2>2. new \in ThemeRow /\ new.active /\ row' = [row EXCEPT ![s] = new]
    BY <2>1, <2>5 DEF ThemeRow
  <2> HIDE DEF new
  <2>3. /\ row' \in [Themes!Theme -> ThemeRow \cup {NoTheme}] /\ row'[s] = new
        /\ \A t \in Themes!Theme \ {s} : row'[t] = row[t]
    BY <1>1, <2>2 DEF ThemeTyped
  <2>4. Themes!Actives = {} => Themes!Actives' = {s}
    BY <2>2, <2>3, ThemeFacts DEF Themes!Actives
  <2> QED
    BY <1>2, <1>4, <2>1, <2>3, <2>4 DEF Phase
<1>5. CASE Themes!ActivateRow(w) /\ row[s] = NoTheme
  <2>1. /\ theme_pc[w] = "activate" /\ row' = row /\ Themes!Go(w, "idle", Themes!NoRequest)
    BY <1>5 DEF Themes!ActivateRow, Themes!Finish
  <2>2. Fit("idle", Themes!NoRequest)
    BY ThemeFacts DEF Fit, Stages, Fields, Themes!NoRequest
  <2>3. ~Themes!Steady
    BY <1>1, <1>5, <2>1 DEF StyleInv, Phase
  <2> QED
    BY <1>1, <2>1, <2>2, <2>3, ThemeMoves
<1> QED
  BY <1>3, <1>4, <1>5

LEMMA CopiesFollow ==
    ASSUME ThemeInv, NEW w \in Process, Themes!StoreSlug(w) \/ Themes!StoreColor(w)
    PROVE  ThemeInv'
<1> PICK q : q = theme_req[w]
  OBVIOUS
<1> PICK s \in Themes!Theme : s = q.slug
  BY DEF ThemeInv, ThemeTyped
<1>1. /\ ThemeTyped /\ StyleInv /\ theme_pc[w] \in {"slug", "color"} /\ DOMAIN q = Fields
      /\ UNCHANGED <<theme_world, row, dir, preview, refs>>
  BY DEF Themes!StoreSlug, Themes!StoreColor, ThemeInv, ThemeTyped, Themes!diskVars,
     Themes!previewVars
<1>2. PICK place, r :
        /\ Themes!Go(w, place, r) /\ Fit(place, r) /\ place # "preview"
        /\ \/ /\ theme_pc[w] = "slug" /\ place = "chain" /\ r = q /\ slug_cache' = s
              /\ color_cache' = color_cache
           \/ /\ theme_pc[w] = "color" /\ place = "idle" /\ color_cache' = q.color
              /\ slug_cache' = slug_cache
  <2>1. CASE Themes!StoreSlug(w)
    <3>1. Fit("chain", q)
      BY <1>1 DEF Fit, Stages
    <3> QED
      BY <2>1, <3>1 DEF Themes!StoreSlug, Themes!Goto
  <2>2. CASE Themes!StoreColor(w)
    <3>1. Fit("idle", Themes!NoRequest)
      BY ThemeFacts DEF Fit, Stages, Fields, Themes!NoRequest
    <3> QED
      BY <2>2, <3>1 DEF Themes!StoreColor, Themes!Finish
  <2> QED
    BY <2>1, <2>2
<1>3. theme_pc'[w] = place /\ theme_req'[w] = r
  BY <1>1, <1>2, ThemeGoes
<1>4. Themes!Actives' = Themes!Actives
  BY <1>1 DEF Themes!Actives
<1>5. ASSUME Themes!Steady
      PROVE  /\ \A t \in Themes!Theme : row'[t] # NoTheme => Colored(t)'
             /\ Phase(w)' /\ (place = "idle" => InPlace')
  <2>1. Phase(w) /\ \A t \in Themes!Theme : row[t] # NoTheme => Colored(t)
    BY <1>1, <1>5 DEF StyleInv
  <2>2. \A t \in Themes!Theme : row'[t] # NoTheme => Colored(t)'
    BY <1>1, <2>1 DEF Colored
  <2>3. Phase(w)'
    BY <1>1, <1>2, <1>3, <1>4, <2>1 DEF Phase, Replaced
  <2>4. place = "idle" => InPlace'
    BY <1>1, <1>2, <1>4, <2>1 DEF Phase, Replaced, InPlace
  <2> QED
    BY <2>2, <2>3, <2>4
<1>6. theme_pc[w] # "idle"
  BY <1>1
<1>7. /\ row' \in [Themes!Theme -> ThemeRow \cup {NoTheme}]
      /\ DOMAIN dir' = Themes!Theme /\ dir' = [t \in Themes!Theme |-> dir'[t]]
      /\ \A t \in Themes!Theme : DOMAIN dir'[t] = {"pages", "scheme"}
  BY <1>1 DEF ThemeTyped
<1> QED
  BY <1>1, <1>2, <1>5, <1>6, <1>7, ThemeWrites

LEMMA ThemeRemoved ==
    ASSUME ThemeInv, NEW w \in Process, Themes!DeleteRow(w) \/ Themes!RemoveDir(w)
    PROVE  ThemeInv'
<1> PICK q : q = theme_req[w]
  OBVIOUS
<1> PICK s \in Themes!Theme : s = q.slug
  BY DEF ThemeInv, ThemeTyped
<1>1. /\ ThemeTyped /\ StyleInv /\ DOMAIN q = Fields
      /\ UNCHANGED <<theme_world, slug_cache, color_cache, refs>>
  BY DEF Themes!DeleteRow, Themes!RemoveDir, ThemeInv, ThemeTyped, Themes!cacheVars,
     Themes!previewVars
<1>2. CASE Themes!DeleteRow(w)
  <2>1. /\ theme_pc[w] = "delete" /\ row' = [row EXCEPT ![s] = NoTheme] /\ dir' = dir
        /\ preview' = [preview EXCEPT ![s] = NoImage] /\ Themes!Go(w, "remove", q)
    BY <1>2 DEF Themes!DeleteRow, Themes!Goto
  <2>2. Fit("remove", q)
    BY <1>1, <2>1 DEF Fit, Stages, ThemeTyped
  <2>3. theme_pc'[w] = "remove" /\ theme_req'[w] = q
    BY <1>1, <2>1, ThemeGoes
  <2>4. /\ row' \in [Themes!Theme -> ThemeRow \cup {NoTheme}] /\ row'[s] = NoTheme
        /\ \A t \in Themes!Theme \ {s} : row'[t] = row[t]
    BY <1>1, <2>1 DEF ThemeTyped
  <2>5. ASSUME Themes!Steady
        PROVE  (\A t \in Themes!Theme : row'[t] # NoTheme => Colored(t)') /\ Phase(w)'
    <3>1. /\ InPlace /\ ~row[s].active
          /\ \A t \in Themes!Theme : row[t] # NoTheme => Colored(t)
      BY <1>1, <2>1, <2>5 DEF StyleInv, Phase
    <3>2. Themes!Actives' = Themes!Actives
      BY <2>4, <3>1 DEF Themes!Actives
    <3>3. InPlace'
      BY <1>1, <2>1, <3>1, <3>2 DEF InPlace
    <3>4. \A t \in Themes!Theme : row'[t] # NoTheme => Colored(t)'
      BY <1>1, <2>1, <2>4, <3>1 DEF Colored
    <3> QED
      BY <2>3, <2>4, <3>3, <3>4 DEF Phase
  <2>6. theme_pc[w] # "idle"
    BY <2>1
  <2>7. /\ DOMAIN dir' = Themes!Theme /\ dir' = [t \in Themes!Theme |-> dir'[t]]
        /\ \A t \in Themes!Theme : DOMAIN dir'[t] = {"pages", "scheme"}
    BY <1>1, <2>1 DEF ThemeTyped
  <2> QED
    BY <1>1, <2>1, <2>2, <2>4, <2>5, <2>6, <2>7, ThemeWrites
<1>3. CASE Themes!RemoveDir(w)
  <2>1. /\ theme_pc[w] = "remove" /\ row' = row /\ preview' = preview
        /\ dir' = [dir EXCEPT ![s] = Themes!NoFiles] \/ dir' = dir
        /\ Themes!Go(w, "build", q)
    BY <1>3 DEF Themes!RemoveDir, Themes!Goto, Themes!previewVars
  <2>2. Fit("build", q)
    BY <1>1 DEF Fit, Stages
  <2>3. theme_pc'[w] = "build" /\ theme_req'[w] = q
    BY <1>1, <2>1, ThemeGoes
  <2>4. /\ DOMAIN dir' = Themes!Theme /\ dir' = [t \in Themes!Theme |-> dir'[t]]
        /\ \A t \in Themes!Theme : DOMAIN dir'[t] = {"pages", "scheme"}
        /\ \A t \in Themes!Theme \ {s} : dir'[t] = dir[t]
    <3>1. DOMAIN Themes!NoFiles = {"pages", "scheme"}
      BY DEF Themes!NoFiles
    <3>2. CASE dir' = [dir EXCEPT ![s] = Themes!NoFiles]
      BY <1>1, <3>1, <3>2 DEF ThemeTyped
    <3>3. CASE dir' = dir
      BY <1>1, <3>3 DEF ThemeTyped
    <3> QED
      BY <2>1, <3>2, <3>3
  <2>5. ASSUME Themes!Steady
        PROVE  (\A t \in Themes!Theme : row'[t] # NoTheme => Colored(t)') /\ Phase(w)'
    <3>1. /\ InPlace /\ row[s] = NoTheme
          /\ \A t \in Themes!Theme : row[t] # NoTheme => Colored(t)
      BY <1>1, <2>1, <2>5 DEF StyleInv, Phase
    <3>2. Themes!Actives' = Themes!Actives
      BY <2>1 DEF Themes!Actives
    <3>3. slug_cache \in Themes!Theme \ {s}
      BY <3>1 DEF InPlace, Themes!Actives
    <3>4. InPlace'
      BY <1>1, <2>4, <3>1, <3>2, <3>3 DEF InPlace
    <3>5. \A t \in Themes!Theme : row'[t] # NoTheme => Colored(t)'
      BY <1>1, <2>1, <2>4, <3>1 DEF Colored
    <3> QED
      BY <2>3, <3>4, <3>5 DEF Phase
  <2>6. theme_pc[w] # "idle" /\ row' \in [Themes!Theme -> ThemeRow \cup {NoTheme}]
    BY <1>1, <2>1 DEF ThemeTyped
  <2> QED
    BY <1>1, <2>1, <2>2, <2>4, <2>5, <2>6, ThemeWrites
<1> QED
  BY <1>2, <1>3

LEMMA PreviewShown ==
    ASSUME ThemeInv, NEW w \in Process, Themes!StorePreview(w) \/ Themes!SetPreview(w)
    PROVE  ThemeInv'
<1>1. /\ ThemeTyped /\ StyleInv /\ PreviewInv
      /\ UNCHANGED <<theme_world, row, dir, slug_cache, color_cache>>
      /\ row' \in [Themes!Theme -> ThemeRow \cup {NoTheme}]
      /\ DOMAIN dir' = Themes!Theme /\ dir' = [t \in Themes!Theme |-> dir'[t]]
      /\ \A t \in Themes!Theme : DOMAIN dir'[t] = {"pages", "scheme"}
  BY DEF Themes!StorePreview, Themes!SetPreview, ThemeInv, ThemeTyped, Themes!diskVars,
     Themes!cacheVars
<1>2. InPlace' = InPlace /\ \A t : Colored(t)' = Colored(t)
  BY <1>1 DEF InPlace, Colored, Themes!Actives
<1>3. CASE Themes!StorePreview(w)
  <2>1. PICK t \in Themes!Theme, i \in Image :
          /\ refs' = [refs EXCEPT ![i] = @ + 1] /\ preview' = preview /\ theme_pc[w] = "idle"
          /\ Themes!Go(w, "preview", [Themes!NoRequest EXCEPT !.slug = t, !.image = i])
          /\ Themes!Steady => \A v \in Process : theme_pc[v] = "idle"
    BY <1>3 DEF Themes!StorePreview, Themes!Idle, Themes!May, Themes!Steady, Themes!Undisturbed
  <2> DEFINE r == [Themes!NoRequest EXCEPT !.slug = t, !.image = i]
  <2>2. DOMAIN r = Fields /\ r.slug = t /\ r.image = i
    BY DEF Fields, Themes!NoRequest
  <2>3. Themes!Go(w, "preview", r)
    BY <2>1
  <2> HIDE DEF r
  <2>4. Fit("preview", r)
    BY <2>2 DEF Fit, Stages
  <2>5. /\ refs' \in [Image -> Nat] /\ refs'[i] > 0
        /\ \A j \in Image : refs'[j] >= refs[j]
    BY <1>1, <2>1 DEF ThemeTyped
  <2>6. theme_pc'[w] = "preview" /\ preview' \in [Themes!Theme -> Image \cup {NoImage}]
    BY <1>1, <2>1, <2>3, ThemeGoes DEF ThemeTyped
  <2>7. Themes!Steady => Phase(w)' /\ \A x \in Themes!Theme : row'[x] # NoTheme => Colored(x)'
    BY <1>1, <1>2, <2>1, <2>6 DEF StyleInv, Phase
  <2> QED
    BY <1>1, <2>1, <2>2, <2>3, <2>4, <2>5, <2>6, <2>7, ThemeSteps
<1>4. CASE Themes!SetPreview(w)
  <2> PICK q : q = theme_req[w]
    OBVIOUS
  <2> PICK s \in Themes!Theme : s = q.slug
    BY <1>1 DEF ThemeTyped
  <2>1. /\ theme_pc[w] = "preview" /\ refs' = refs /\ q.image \in Image
        /\ refs[q.image] > 0 /\ Themes!Go(w, "idle", Themes!NoRequest)
        /\ preview' = [preview EXCEPT ![s] = q.image] \/ preview' = preview
    BY <1>1, <1>4 DEF Themes!SetPreview, Themes!Finish, PreviewInv, ThemeTyped
  <2>2. Fit("idle", Themes!NoRequest)
    BY ThemeFacts DEF Fit, Stages, Fields, Themes!NoRequest
  <2>3. /\ preview' \in [Themes!Theme -> Image \cup {NoImage}]
        /\ \A t \in Themes!Theme : preview'[t] = preview[t] \/ preview'[t] = q.image
    BY <1>1, <2>1 DEF ThemeTyped
  <2>4. refs' \in [Image -> Nat] /\ \A j \in Image : refs'[j] >= refs[j]
    BY <1>1, <2>1 DEF ThemeTyped
  <2>5. theme_pc'[w] = "idle"
    BY <1>1, <2>1, ThemeGoes
  <2>6. Themes!Steady => /\ Phase(w)' /\ InPlace'
                         /\ \A x \in Themes!Theme : row'[x] # NoTheme => Colored(x)'
    BY <1>1, <1>2, <2>1, <2>5 DEF StyleInv, Phase
  <2>7. theme_pc[w] # "idle"
    BY <2>1
  <2> QED
    BY <1>1, <2>1, <2>2, <2>3, <2>4, <2>6, <2>7, ThemeSteps
<1> QED
  BY <1>3, <1>4

LEMMA ThemeRestarts ==
    ASSUME ThemeInv, Themes!Restart
    PROVE  ThemeInv'
<1>1. /\ UNCHANGED <<theme_world, row, dir, preview, refs>> /\ ThemeTyped /\ PreviewInv
      /\ theme_pc' = [w \in Process |-> "idle"]
      /\ theme_req' = [w \in Process |-> Themes!NoRequest]
      /\ ~Themes!Steady
  BY DEF Themes!Restart, Themes!May, Themes!Steady, Themes!Undisturbed, ThemeInv,
     Themes!diskVars, Themes!previewVars
<1>2. ThemeTyped' /\ PreviewInv'
  BY <1>1, ThemeFacts DEF ThemeTyped, PreviewInv, Stages, Fields, Themes!NoRequest
<1>3. StyleInv'
  BY <1>1 DEF StyleInv, Themes!Steady, Themes!Undisturbed, Themes!Keeps
<1> QED
  BY <1>2, <1>3 DEF ThemeInv

LEMMA ThemeKept ==
    ASSUME ThemeInv,
           UNCHANGED <<theme_world, row, dir, slug_cache, color_cache, preview, refs,
                       theme_pc, theme_req>>
    PROVE  ThemeInv'
<1>1. ThemeTyped' /\ PreviewInv'
  BY DEF ThemeInv, ThemeTyped, PreviewInv
<1>2. StyleInv'
  BY DEF ThemeInv, StyleInv, InPlace, Replaced, Phase, Colored, Themes!Actives, Themes!Steady,
     Themes!Undisturbed, Themes!Keeps
<1> QED
  BY <1>1, <1>2 DEF ThemeInv

LEMMA RootCleared ==
    ASSUME ThemeInv, NEW w \in Process, Themes!TooBigAtRoot(w)
    PROVE  ThemeInv'
<1>1. /\ UNCHANGED <<theme_world, row, preview, refs, slug_cache, theme_pc, theme_req>>
      /\ dir' = [t \in Themes!Theme |-> Themes!NoFiles]
      /\ UNCHANGED color_cache /\ ~Themes!Steady /\ ThemeTyped /\ PreviewInv
  BY DEF Themes!TooBigAtRoot, Themes!May, Themes!Steady, Themes!Undisturbed, ThemeInv,
     Themes!cacheVars, Themes!previewVars
<1>2. DOMAIN Themes!NoFiles = {"pages", "scheme"}
  BY DEF Themes!NoFiles
<1>3. ThemeTyped' /\ PreviewInv'
  BY <1>1, <1>2 DEF ThemeTyped, PreviewInv
<1>4. StyleInv'
  BY <1>1 DEF StyleInv, Themes!Steady, Themes!Undisturbed, Themes!Keeps
<1> QED
  BY <1>3, <1>4 DEF ThemeInv

LEMMA ThemeNext ==
    ASSUME ThemeInv, Themes!Next
    PROVE  ThemeInv'
<1>1. ASSUME NEW w \in Process,
             \/ Themes!Upload(w) \/ Themes!Reload(w) \/ Themes!Activate(w) \/ Themes!Delete(w)
             \/ Themes!Preview(w)
      PROVE  ThemeInv'
  BY <1>1, UploadBegins, UploadExtracts, ThemeTurns, ThemeBegins, UploadUpserts, RowsSwitch,
     CopiesFollow, ThemeRemoved, PreviewShown, RootCleared
    DEF Themes!Upload, Themes!Reload, Themes!Activate, Themes!Delete, Themes!Preview
<1>2. ASSUME NEW v \in Visitor,
             \/ Themes!ReadChain(v) \/ Themes!Pick(v) \/ Themes!Render(v) \/ Themes!Leave(v)
      PROVE  ThemeInv'
  BY <1>2, ThemeKept DEF Themes!ReadChain, Themes!Pick, Themes!Render, Themes!Leave,
     Themes!diskVars, Themes!cacheVars, Themes!previewVars
<1> QED
  BY <1>1, <1>2, ThemeRestarts DEF Themes!Next

ThemeSide == side = "themes" => ThemeInv

(* With requests one at a time, in whatever order themes are uploaded,     *)
(* activated and deleted, one theme is active, it is the one in memory and *)
(* in its own color (themes.rs, activate_theme; theme_repository.rs,       *)
(* set_active); and a preview that is pointed to is stored, whatever       *)
(* overlaps or fails: what ThemesHold says of rows, copies and previews.   *)
THEOREM ActiveThemeInPlace ==
    PlatformSpec => [](side = "themes" => Themes!ActiveInPlace /\ Themes!PreviewsServed)
<1>1. PlatformInit => ThemeSide
  BY ThemeInitially DEF PlatformInit, ThemeSide
<1>2. ThemeSide /\ [PlatformNext]_platformVars => ThemeSide'
  BY ThemeNext, ThemeKept DEF PlatformNext, platformVars, themeVars, ThemeSide
<1>3. ThemeSide => (side = "themes" => Themes!ActiveInPlace /\ Themes!PreviewsServed)
  BY DEF ThemeSide, ThemeInv, StyleInv, PreviewInv, InPlace, Themes!ActiveInPlace, Themes!AtRest,
     Themes!PreviewsServed
<1> QED
  BY <1>1, <1>2, <1>3, PTL DEF PlatformSpec

==================================================================================
