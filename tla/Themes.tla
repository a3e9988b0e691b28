--------------------------------- MODULE Themes ---------------------------------
(***************************************************************************)
(* Themes: a row for each, a directory of templates for each, the engine   *)
(* that holds what could be loaded of them, and the copies in memory of    *)
(* which one is active and which ones it inherits from.                    *)
(*                                                                         *)
(* An administrator uploads a package over whatever its directory holds,   *)
(* activates a theme, deletes one.  Nothing is a transaction: the rows, the *)
(* files, the engine and the copies change one after another.  A visitor   *)
(* picks a template and renders it, perhaps by another engine.             *)
(***************************************************************************)
EXTENDS Naturals, Sequences, FiniteSets, SequencesExt

CONSTANTS
    Default,       \* the built-in theme
    Order,         \* the slugs of the others, in the order they are loaded
    Page,          \* template files of a theme
    Base,          \* the one every package has
    Macros,        \* the one of the built-in theme that the server's own pages import
    Package,       \* what may be uploaded: slug, parent, scheme and pages
    Scheme, AutoScheme,  \* color schemes
    Image, NoImage,
    MaxRef,        \* bound: references to an image
    Worker, Visitor,
    ThemeWorlds,
    NoTheme, NoPackage

Installed == ToSet(Order)
Theme == Installed \cup {Default}
Template == Theme \X Page

(***************************************************************************)
(* A template parses or not, and needs the templates it extends.  A world: *)
(* the requests that are made, the packages that are uploaded, and what    *)
(* may happen: overlapping requests, a directory that cannot be written,   *)
(* database errors, an activation of a theme that is not there, restarts.  *)
(***************************************************************************)
Content == [ok : BOOLEAN, needs : SUBSET Template]
NoFiles == [pages |-> <<>>, scheme |-> AutoScheme]

ThemeConstants ==
    /\ Order \in Seq(Installed) /\ Default \notin Installed
    /\ Base \in Page /\ Macros \in Page /\ AutoScheme \in Scheme
    /\ NoTheme \notin [parent : Theme, active : BOOLEAN]
    /\ MaxRef \in Nat
    /\ \A k \in Package :
          /\ k.slug \in Theme /\ k.parent \in Theme /\ k.scheme \in Scheme
          /\ Base \in DOMAIN k.pages
          /\ \A p \in DOMAIN k.pages : p \in Page /\ k.pages[p] \in Content
    /\ \A x \in ThemeWorlds :
          /\ x.requests \subseteq {"upload", "activate", "delete", "preview"}
          /\ x.packages \subseteq Package
          /\ x.events \subseteq {"overlap", "too_big", "root", "dir_error", "db_error",
                                 "unknown", "restart"}

VARIABLES
    theme_world,
    row,           \* by slug: parent_slug and is_active, or NoTheme
    dir,           \* by slug: themes/{slug}, its templates and its color scheme
    tera,          \* the templates the engine holds
    slug_cache, chain_cache, color_cache,
    preview, refs, \* preview_url by slug, references by image
    theme_pc, theme_req,
    visit          \* by visitor: the chain, the template, how it went

diskVars == <<row, dir>>
cacheVars == <<slug_cache, chain_cache, color_cache>>
previewVars == <<preview, refs>>
themeVars == <<theme_world, diskVars, tera, cacheVars, previewVars, theme_pc, theme_req,
               visit>>

May(event) == event \in theme_world.events

NoRequest == [package |-> NoPackage, left |-> {}, slug |-> Default, found |-> FALSE,
              chain |-> <<>>, color |-> AutoScheme, built |-> {}, image |-> NoImage]
Nowhere == [at |-> "idle", chain |-> <<>>, template |-> <<Default, Base>>]

TypeOK ==
    /\ theme_world \in ThemeWorlds
    /\ \A t \in Theme : row[t] # NoTheme => row[t].parent \in Theme /\ row[t].active \in BOOLEAN
    /\ \A t \in Theme : DOMAIN dir[t].pages \subseteq Page
    /\ tera \subseteq Template
    /\ slug_cache \in Theme /\ color_cache \in Scheme /\ ToSet(chain_cache) \subseteq Theme
    /\ preview \in [Theme -> Image \cup {NoImage}] /\ refs \in [Image -> 0 .. MaxRef]
    /\ \A w \in Worker : theme_pc[w] = "idle" => theme_req[w] = NoRequest
    /\ \A v \in Visitor : visit[v].at \in {"idle", "chain", "picked", "page", "error"}

-----------------------------------------------------------------------------
(* The engine.                                                             *)

Own(d, t) == {<<t, p>> : p \in DOMAIN d[t].pages}

(* One batch: every template parses, and what it extends is there.         *)
Parses(d, loaded, t) ==
    \A p \in DOMAIN d[t].pages :
        d[t].pages[p].ok /\ d[t].pages[p].needs \subseteq loaded \cup Own(d, t)

LoadTheme(d, loaded, t) == IF Parses(d, loaded, t) THEN loaded \cup Own(d, t) ELSE loaded

LoadPass(d, loaded) ==
    LET upto[n \in 0 .. Len(Order)] ==
            IF n = 0 THEN loaded ELSE LoadTheme(d, upto[n - 1], Order[n])
    IN  upto[Len(Order)]

(* A single pass.                                                          *)
LoadThemesOnce(d, first) == LoadPass(d, first)

(* Passes until one loads nothing more.                                    *)
LoadThemes(d, first) ==
    LET pass[n \in 0 .. Len(Order)] ==
            IF n = 0 THEN first ELSE LoadPass(d, pass[n - 1])
    IN  pass[Len(Order)]

(* A broken default theme, or one without what the server's own pages      *)
(* import, is an error; broken others are left out.                        *)
Compiles(d) == Parses(d, {}, Default) /\ Macros \in DOMAIN d[Default].pages
build_tera(d) == LoadThemes(d, Own(d, Default))

(* The template of a page: the first that is there, or the default one.    *)
first_existing_template(chain, page) ==
    LET there == {i \in DOMAIN chain : <<chain[i], page>> \in tera}
    IN  IF there = {} THEN <<Default, page>> ELSE <<chain[Min(there)], page>>

-----------------------------------------------------------------------------
(* The chain of a theme, from what the rows say now.  A theme that is its  *)
(* own ancestor ends it without the default theme.                         *)

Ends(chain, t) == t = Default \/ row[t] = NoTheme \/ row[t].parent = t
Closed(chain) == IF Last(chain) = Default THEN chain ELSE Append(chain, Default)

resolve_chain(slug) ==
    LET walk[n \in 0 .. Cardinality(Theme)] ==
            IF n = 0 THEN <<slug>>
            ELSE LET c == walk[n - 1]
                     t == Last(c)
                 IN  IF Ends(c, t) \/ row[t].parent \in ToSet(c) THEN c
                     ELSE Append(c, row[t].parent)
        chain == walk[Cardinality(Theme)]
    IN  IF Ends(chain, Last(chain)) THEN Closed(chain) ELSE chain

Actives == {t \in Theme : row[t] # NoTheme /\ row[t].active}

Init ==
    /\ theme_world \in ThemeWorlds
    /\ row = [t \in Theme |-> IF t = Default THEN [parent |-> Default, active |-> TRUE]
                             ELSE NoTheme]
    /\ dir = [t \in Theme |->
                IF t = Default
                THEN [NoFiles EXCEPT !.pages = [p \in Page |-> [ok |-> TRUE, needs |-> {}]]]
                ELSE NoFiles]
    /\ tera = {<<Default, p>> : p \in Page}
    /\ slug_cache = Default /\ chain_cache = <<Default>> /\ color_cache = AutoScheme
    /\ preview = [t \in Theme |-> NoImage] /\ refs = [i \in Image |-> 0]
    /\ theme_pc = [w \in Worker |-> "idle"]
    /\ theme_req = [w \in Worker |-> NoRequest]
    /\ visit = [v \in Visitor |-> Nowhere]

-----------------------------------------------------------------------------
(* Requests.                                                               *)

Go(w, place, request) ==
    /\ theme_pc' = [theme_pc EXCEPT ![w] = place]
    /\ theme_req' = [theme_req EXCEPT ![w] = request]
Goto(w, place) == Go(w, place, theme_req[w])
Finish(w) == Go(w, "idle", NoRequest)

Idle(w, request) ==
    /\ theme_pc[w] = "idle" /\ request \in theme_world.requests
    /\ May("overlap") \/ \A x \in Worker : theme_pc[x] = "idle"

(* upload_theme, once the package was accepted: its directory is made, its *)
(* files are written one by one.                                           *)
BeginUpload(w) ==
    /\ Idle(w, "upload")
    /\ \E k \in theme_world.packages :
          /\ Go(w, "extract", [NoRequest EXCEPT !.package = k, !.slug = k.slug,
                                                !.left = DOMAIN k.pages])
          /\ dir' = [dir EXCEPT ![k.slug].scheme = k.scheme]
    /\ UNCHANGED <<theme_world, row, tera, cacheVars, previewVars, visit>>

Extract(w) ==
    LET r == theme_req[w]
    IN  /\ theme_pc[w] = "extract" /\ r.left # {}
        /\ \E p \in r.left :
              /\ \/ dir' = [dir EXCEPT ![r.slug].pages =
                                [q \in DOMAIN @ \cup {p} |->
                                    IF q = p THEN r.package.pages[p] ELSE @[q]]]
                 \/ May("dir_error") /\ UNCHANGED dir
              /\ Go(w, "extract", [r EXCEPT !.left = @ \ {p}])
        /\ UNCHANGED <<theme_world, row, tera, cacheVars, previewVars, visit>>

(* A package that is too large takes the directory with it.                *)
TooBig(w) ==
    /\ theme_pc[w] = "extract" /\ theme_req[w].left # {} /\ May("too_big")
    /\ dir' = [dir EXCEPT ![theme_req[w].slug] = NoFiles]
    /\ Finish(w)
    /\ UNCHANGED <<theme_world, row, tera, cacheVars, previewVars, visit>>

(* The slugs "." and "" are accepted: what is too large under one of them  *)
(* takes every theme with it, the built-in one too.                        *)
TooBigAtRoot(w) ==
    /\ Idle(w, "upload") /\ May("root")
    /\ dir' = [t \in Theme |-> NoFiles]
    /\ UNCHANGED <<theme_world, row, tera, cacheVars, previewVars, theme_pc, theme_req, visit>>

(* upsert: a look-up, then an update or an insertion.                      *)
FindTheme(w) ==
    LET r == theme_req[w]
    IN  /\ theme_pc[w] = "extract" /\ r.left = {}
        /\ Go(w, "upsert", [r EXCEPT !.found = row[r.slug] # NoTheme])
        /\ UNCHANGED <<theme_world, diskVars, tera, cacheVars, previewVars, visit>>

Upsert(w) ==
    LET r == theme_req[w]
    IN  /\ theme_pc[w] = "upsert"
        /\ \/ /\ r.found = (row[r.slug] # NoTheme)
              /\ row' = [row EXCEPT ![r.slug] =
                            IF r.found THEN [@ EXCEPT !.parent = r.package.parent]
                            ELSE [parent |-> r.package.parent, active |-> FALSE]]
              /\ Goto(w, "build")
           \/ /\ r.found # (row[r.slug] # NoTheme) \/ May("db_error")
              /\ UNCHANGED row
              /\ Finish(w)
        /\ UNCHANGED <<theme_world, dir, tera, cacheVars, previewVars, visit>>

(* reload_themes: the templates are read and compiled, then the engine is  *)
(* replaced; if it cannot be built, it stays.                              *)
Build(w) ==
    /\ theme_pc[w] = "build"
    /\ IF Compiles(dir) THEN Go(w, "swap", [theme_req[w] EXCEPT !.built = build_tera(dir)])
       ELSE Finish(w)
    /\ UNCHANGED <<theme_world, diskVars, tera, cacheVars, previewVars, visit>>

Swap(w) ==
    /\ theme_pc[w] = "swap"
    /\ tera' = theme_req[w].built
    /\ Finish(w)
    /\ UNCHANGED <<theme_world, diskVars, cacheVars, previewVars, visit>>

(* activate_theme: all rows, then the one, then the copies one by one.     *)
BeginActivate(w) ==
    /\ Idle(w, "activate")
    /\ \E t \in Theme : /\ row[t] # NoTheme \/ May("unknown")
                       /\ Go(w, "deactivate", [NoRequest EXCEPT !.slug = t])
    /\ UNCHANGED <<theme_world, diskVars, tera, cacheVars, previewVars, visit>>

DeactivateAll(w) ==
    /\ theme_pc[w] = "deactivate"
    /\ row' = [t \in Theme |-> IF row[t] = NoTheme THEN NoTheme
                              ELSE [row[t] EXCEPT !.active = FALSE]]
    /\ Goto(w, "activate")
    /\ UNCHANGED <<theme_world, dir, tera, cacheVars, previewVars, visit>>

ActivateRow(w) ==
    LET t == theme_req[w].slug
    IN  /\ theme_pc[w] = "activate"
        /\ IF row[t] # NoTheme
           THEN row' = [row EXCEPT ![t].active = TRUE] /\ Goto(w, "resolve")
           ELSE UNCHANGED row /\ Finish(w)
        /\ UNCHANGED <<theme_world, dir, tera, cacheVars, previewVars, visit>>

Resolve(w) ==
    LET t == theme_req[w].slug
    IN  /\ theme_pc[w] = "resolve"
        /\ Go(w, "slug", [theme_req[w] EXCEPT !.chain = resolve_chain(t),
                                              !.color = dir[t].scheme])
        /\ UNCHANGED <<theme_world, diskVars, tera, cacheVars, previewVars, visit>>

StoreSlug(w) ==
    /\ theme_pc[w] = "slug"
    /\ slug_cache' = theme_req[w].slug
    /\ Goto(w, "chain")
    /\ UNCHANGED <<theme_world, diskVars, tera, chain_cache, color_cache, previewVars,
                   visit>>

StoreChain(w) ==
    /\ theme_pc[w] = "chain"
    /\ chain_cache' = theme_req[w].chain
    /\ Goto(w, "color")
    /\ UNCHANGED <<theme_world, diskVars, tera, slug_cache, color_cache, previewVars,
                   visit>>

StoreColor(w) ==
    /\ theme_pc[w] = "color"
    /\ color_cache' = theme_req[w].color
    /\ Finish(w)
    /\ UNCHANGED <<theme_world, diskVars, tera, slug_cache, chain_cache, previewVars,
                   visit>>

(* delete: refused for the built-in theme and for the active one.          *)
BeginDelete(w) ==
    /\ Idle(w, "delete")
    /\ \E t \in Installed :
          /\ row[t] # NoTheme /\ ~row[t].active
          /\ Go(w, "delete", [NoRequest EXCEPT !.slug = t])
    /\ UNCHANGED <<theme_world, diskVars, tera, cacheVars, previewVars, visit>>

DeleteRow(w) ==
    LET t == theme_req[w].slug
    IN  /\ theme_pc[w] = "delete"
        /\ row' = [row EXCEPT ![t] = NoTheme]
        /\ preview' = [preview EXCEPT ![t] = NoImage]
        /\ Goto(w, "remove")
        /\ UNCHANGED <<theme_world, dir, tera, cacheVars, refs, visit>>

RemoveDir(w) ==
    /\ theme_pc[w] = "remove"
    /\ \/ dir' = [dir EXCEPT ![theme_req[w].slug] = NoFiles]
       \/ May("dir_error") /\ UNCHANGED dir
    /\ Goto(w, "build")
    /\ UNCHANGED <<theme_world, row, tera, cacheVars, previewVars, visit>>

(* upload_theme_preview: the image is stored with a reference, then the    *)
(* theme points to it; the reference of the image before stays.            *)
StorePreview(w) ==
    /\ Idle(w, "preview")
    /\ \E t \in Theme, i \in Image :
          /\ refs[i] < MaxRef
          /\ refs' = [refs EXCEPT ![i] = @ + 1]
          /\ Go(w, "preview", [NoRequest EXCEPT !.slug = t, !.image = i])
    /\ UNCHANGED <<theme_world, diskVars, tera, cacheVars, preview, visit>>

SetPreview(w) ==
    LET r == theme_req[w]
    IN  /\ theme_pc[w] = "preview"
        /\ IF row[r.slug] # NoTheme THEN preview' = [preview EXCEPT ![r.slug] = r.image]
           ELSE UNCHANGED preview
        /\ Finish(w)
        /\ UNCHANGED <<theme_world, diskVars, tera, cacheVars, refs, visit>>

(* At start-up the copies are made from the rows, the engine from the      *)
(* files; requests are lost.                                               *)
Restart ==
    /\ May("restart") /\ Compiles(dir)
    /\ \E t \in IF Actives = {} THEN {Default} ELSE Actives :
          /\ slug_cache' = t
          /\ chain_cache' = resolve_chain(t)
          /\ color_cache' = dir[t].scheme
    /\ tera' = build_tera(dir)
    /\ theme_pc' = [w \in Worker |-> "idle"]
    /\ theme_req' = [w \in Worker |-> NoRequest]
    /\ visit' = [v \in Visitor |-> Nowhere]
    /\ UNCHANGED <<theme_world, diskVars, previewVars>>

-----------------------------------------------------------------------------
(* render_with_theme, for the base page: the chain is read, a template is  *)
(* picked, and it is rendered, each with what is current then.             *)

ReadChain(v) ==
    /\ visit[v].at = "idle"
    /\ visit' = [visit EXCEPT ![v] = [Nowhere EXCEPT !.at = "chain", !.chain = chain_cache]]
    /\ UNCHANGED <<theme_world, diskVars, tera, cacheVars, previewVars, theme_pc, theme_req>>

Pick(v) ==
    /\ visit[v].at = "chain"
    /\ visit' = [visit EXCEPT ![v].at = "picked",
                              ![v].template = first_existing_template(visit[v].chain, Base),
                              ![v].chain = <<>>]
    /\ UNCHANGED <<theme_world, diskVars, tera, cacheVars, previewVars, theme_pc, theme_req>>

Render(v) ==
    /\ visit[v].at = "picked"
    /\ visit' = [visit EXCEPT ![v] = [Nowhere EXCEPT
                    !.at = IF visit[v].template \in tera THEN "page" ELSE "error"]]
    /\ UNCHANGED <<theme_world, diskVars, tera, cacheVars, previewVars, theme_pc, theme_req>>

Leave(v) ==
    /\ visit[v].at \in {"page", "error"}
    /\ visit' = [visit EXCEPT ![v] = Nowhere]
    /\ UNCHANGED <<theme_world, diskVars, tera, cacheVars, previewVars, theme_pc, theme_req>>

Upload(w) ==
    BeginUpload(w) \/ Extract(w) \/ TooBig(w) \/ TooBigAtRoot(w) \/ FindTheme(w) \/ Upsert(w)
Reload(w) == Build(w) \/ Swap(w)
Activate(w) ==
    BeginActivate(w) \/ DeactivateAll(w) \/ ActivateRow(w) \/ Resolve(w)
        \/ StoreSlug(w) \/ StoreChain(w) \/ StoreColor(w)
Delete(w) == BeginDelete(w) \/ DeleteRow(w) \/ RemoveDir(w)
Preview(w) == StorePreview(w) \/ SetPreview(w)

Next ==
    \/ \E w \in Worker : Upload(w) \/ Reload(w) \/ Activate(w) \/ Delete(w) \/ Preview(w)
    \/ \E v \in Visitor : ReadChain(v) \/ Pick(v) \/ Render(v) \/ Leave(v)
    \/ Restart

Spec == Init /\ [][Next]_themeVars

-----------------------------------------------------------------------------

AtRest == \A w \in Worker : theme_pc[w] = "idle"
Undisturbed == theme_world.events = {}

(* What is uploaded, however broken, and whatever fails, leaves the pages  *)
(* of the default theme in the engine, and a page whose theme has no       *)
(* template of its own gets the default one.  (build_tera: "a typo in it   *)
(* must not take the forum down".)  A package that turns out too large and *)
(* is for the built-in theme, or has the slug "." or "", takes the files   *)
(* away, and no engine is built without them; they are lost to the engine  *)
(* only when a package for the built-in theme then brings fewer.           *)
DefaultServed ==
    (May("too_big") \/ May("root") => \A k \in theme_world.packages : k.slug # Default) =>
        \A p \in Page : <<Default, p>> \in tera

(* Replacing a theme by one that loads never fails a visitor, although the *)
(* template is picked and rendered by different engines; uploads that      *)
(* overlap may put an older engine in place of a newer one.                *)
Sound(k) == \A p \in DOMAIN k.pages : k.pages[p].ok /\ k.pages[p].needs \subseteq Own(dir, Default)
Replacing ==
    /\ theme_world.requests \cap {"delete"} = {}
    /\ theme_world.events \cap {"overlap", "too_big", "root", "dir_error"} = {}
    /\ \A k \in theme_world.packages : Sound(k)
VisitsServed == Replacing => \A v \in Visitor : visit[v].at # "error"

(* After a reload the engine holds every theme that can be loaded, however *)
(* their names are ordered, and no part of any other: the least set of     *)
(* themes that contains each one whose templates find theirs in it.  While *)
(* the built-in theme is broken no engine is built, and the last one stays. *)
Templates(S) == UNION {Own(dir, t) : t \in S \cup {Default}}
Loadable ==
    {t \in Installed : \A S \in SUBSET Installed :
        (\A x \in Installed : Parses(dir, Templates(S), x) => x \in S) => t \in S}
EngineComplete == Undisturbed /\ AtRest /\ Compiles(dir) => tera = Templates(Loadable)

(* While a package keeps the parent and the color of its theme, the copies *)
(* in memory are what a restart would make of the rows: one theme is       *)
(* active and in place, in its color ...                                   *)
Keeps(k) ==
    /\ k.slug = Default => k.scheme = AutoScheme
    /\ \A x \in theme_world.packages :
          x.slug = k.slug => x.parent = k.parent /\ x.scheme = k.scheme
Steady == Undisturbed /\ \A k \in theme_world.packages : Keeps(k)
ActiveInPlace ==
    Steady /\ AtRest => Actives = {slug_cache} /\ color_cache = dir[slug_cache].scheme

(* ... and its chain ends with the default theme, whether or not those it  *)
(* inherits from are there: that is, while they inherit from the default   *)
(* theme only.  A longer chain does not see a theme that comes or goes in  *)
(* its middle before the next activation.                                  *)
Shallow ==
    \A x, y \in theme_world.packages : x.parent = y.slug => y.parent = Default
ChainAgrees == Steady /\ AtRest /\ Shallow => chain_cache = resolve_chain(slug_cache)

(* A preview that is pointed to is stored.                                 *)
PreviewsServed == \A t \in Theme : preview[t] # NoImage => refs[preview[t]] > 0

ThemesHold ==
    DefaultServed /\ VisitsServed /\ EngineComplete /\ ActiveInPlace /\ ChainAgrees
        /\ PreviewsServed

=============================================================================
