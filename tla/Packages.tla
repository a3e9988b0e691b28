-------------------------------- MODULE Packages --------------------------------
(***************************************************************************)
(* Plugin packages: an archive that is unpacked to be reviewed and again   *)
(* to be installed, the directory a plugin then lives in, the elements it  *)
(* shows on pages and the media members upload through it.                 *)
(*                                                                         *)
(* Two front ends, the API and the administration pages, do the same in    *)
(* their own order and clean up differently.  Directories and rows change  *)
(* one after another; a disk error or a crash may come between any two.    *)
(* Status, hooks, webhooks and schemas are in PluginLifecycle, the         *)
(* deletion of a stored file step by step is in BlobPointers.              *)
(***************************************************************************)
EXTENDS Naturals, Sequences, SequencesExt

CONSTANTS
    Slug,          \* plugin ids
    Part,          \* files of a package besides its manifest
    Manifest,      \* plugin.toml
    Refused,       \* an entry whose path is not accepted
    Huge,          \* an entry that exceeds what may be unpacked
    Package,       \* archives: slug, entries, valid, components
    Place,         \* named slots of the pages
    Image,         \* contents members upload
    Temp,          \* names of directories for unpacking, never used twice
    Worker,
    MaxMade,       \* bound: times the elements of a plugin are made
    MaxRef,        \* bound: references to a stored file
    PackageWorlds,
    NoDir, NoPlugin, NoPackage

Name == Slug \cup Temp
Key == Slug \X Image          \* cas_key("plugin_{slug}", ..)

Requests == {"review", "install", "activate", "deactivate", "move", "upload", "uninstall"}
Events == {"overlap", "reinstall", "disk_error", "db_error", "restart", "repeat", "early"}

Content == [package : Package, parts : SUBSET (Part \cup {Manifest})]
PluginRow == [package : Package, status : {"inactive", "active", "uninstalling"}]

PackageConstants ==
    /\ Manifest \notin Part /\ {Refused, Huge} \cap (Part \cup {Manifest}) = {}
    /\ Refused # Huge
    /\ Slug \cap Temp = {} /\ MaxMade \in Nat /\ MaxRef \in Nat
    /\ NoDir \notin Name /\ NoDir \notin Content
    /\ NoPlugin \notin Slug /\ NoPlugin \notin PluginRow
    /\ \A k \in Package :
          /\ k.slug \in Slug /\ k.valid \in BOOLEAN
          /\ k.entries \in Seq({Manifest, Refused, Huge} \cup Part)
          /\ DOMAIN k.components \subseteq ToSet(k.entries) \cap Part
          /\ \A c \in DOMAIN k.components : k.components[c] \in Place
    /\ \A x \in PackageWorlds : /\ x.packages \subseteq Package /\ x.requests \subseteq Requests
                                /\ x.fronts \subseteq {"api", "page"} /\ x.events \subseteq Events

VARIABLES
    package_world,
    dir,          \* by name: NoDir, or whose files and which of them are there
    plugin,       \* by slug: NoPlugin, or the package and the status of the row
    elements,     \* by slug: rows of plugin_ui_slots
    made,         \* by slug: how often they were made, which tells their ids apart
    stored, ref_count, jobs,
    given,        \* keys whose URL a member got, until an uninstallation begins
    package_pc, package_req

fileVars == <<dir>>
rowVars == <<plugin, elements, made>>
mediaVars == <<stored, ref_count, jobs, given>>
requestVars == <<package_pc, package_req>>
packageVars == <<package_world, fileVars, rowVars, mediaVars, requestVars>>

Disturbed(event) == event \in package_world.events

NoRequest == [front |-> "api", package |-> NoPackage, install |-> FALSE, at |-> NoDir,
              entry |-> 1, slug |-> NoPlugin, left |-> {}, made |-> 0, element |-> <<>>]

TypeOK ==
    /\ package_world \in PackageWorlds
    /\ dir \in [Name -> Content \cup {NoDir}]
    /\ plugin \in [Slug -> PluginRow \cup {NoPlugin}]
    /\ made \in [Slug -> 0 .. MaxMade]
    /\ elements \in [Slug -> SUBSET [made : 0 .. MaxMade, component : Part, place : Place]]
    /\ ref_count \in [Key -> 0 .. MaxRef]
    /\ stored \subseteq Key /\ jobs \subseteq Key /\ given \subseteq Key

Init ==
    /\ package_world \in PackageWorlds
    /\ dir = [n \in Name |-> NoDir]
    /\ plugin = [s \in Slug |-> NoPlugin]
    /\ elements = [s \in Slug |-> {}] /\ made = [s \in Slug |-> 0]
    /\ ref_count = [k \in Key |-> 0] /\ stored = {} /\ jobs = {} /\ given = {}
    /\ package_pc = [w \in Worker |-> "idle"]
    /\ package_req = [w \in Worker |-> NoRequest]

-----------------------------------------------------------------------------
(* Requests.                                                               *)

Go(w, place, request) ==
    /\ package_pc' = [package_pc EXCEPT ![w] = place]
    /\ package_req' = [package_req EXCEPT ![w] = request]
Goto(w, place) == Go(w, place, package_req[w])
Finish(w) == Go(w, "idle", NoRequest)

Quiet == \A w \in Worker : package_pc[w] = "idle"
Idle(w, request) ==
    /\ package_pc[w] = "idle" /\ request \in package_world.requests
    /\ Disturbed("overlap") \/ Quiet

Parts(n) == IF dir[n] = NoDir THEN {} ELSE dir[n].parts
Holding(k, parts) == [package |-> k, parts |-> parts]

InUse(n) == \E w \in Worker : package_req[w].at = n
Fresh(n) == n \in Temp /\ dir[n] = NoDir /\ ~InUse(n)

(* A request for a slug: what the row says when it begins.                 *)
Begin(w, request, s, place, r) ==
    /\ Idle(w, request) /\ plugin[s] # NoPlugin
    /\ Go(w, place, [r EXCEPT !.slug = s])

(* The directory a request works in is deleted with it.                    *)
FinishWithout(w, n) == dir' = [dir EXCEPT ![n] = NoDir] /\ Finish(w)

-----------------------------------------------------------------------------
(* extract: into a directory of the name it is given, whatever is there.   *)

(* An upload that is reviewed, or installed: both unpack it in a directory *)
(* of its own to read its manifest.                                        *)
Receive(w, request, f, k, r) ==
    \E n \in Temp :
        /\ Idle(w, request) /\ Fresh(n)
        /\ Go(w, "clean", [r EXCEPT !.front = f, !.package = k, !.at = n])

BeginReview(w) ==
    /\ \E f \in package_world.fronts, k \in package_world.packages :
          Receive(w, "review", f, k, NoRequest)
    /\ UNCHANGED <<package_world, fileVars, rowVars, mediaVars>>

BeginInstall(w) ==
    /\ \E f \in package_world.fronts, k \in package_world.packages :
          /\ \/ Disturbed("reinstall")
             \/ plugin[k.slug] = NoPlugin /\ \A x \in Worker : package_req[x].slug # k.slug
          /\ Receive(w, "install", f, k, [NoRequest EXCEPT !.install = TRUE, !.slug = k.slug])
    /\ UNCHANGED <<package_world, fileVars, rowVars, mediaVars>>

Clean(w) ==
    LET r == package_req[w]
    IN  /\ package_pc[w] = "clean"
        /\ \/ /\ dir' = [dir EXCEPT ![r.at] = Holding(r.package, {})]
              /\ Go(w, "unpack", [r EXCEPT !.entry = 1])
           \/ Disturbed("disk_error") /\ UNCHANGED dir /\ Finish(w)
        /\ UNCHANGED <<package_world, rowVars, mediaVars>>

(* A handler that relies on the extraction to have cleaned up.             *)
ExtractionFailsAnyhow(w) == UNCHANGED dir /\ Finish(w)

(* An error leaves what was unpacked, but for a review by the API, which   *)
(* deletes its directory.                                                  *)
ExtractionFails(w) ==
    LET r == package_req[w]
    IN  IF r.front = "api" /\ ~r.install THEN FinishWithout(w, r.at)
        ELSE UNCHANGED dir /\ Finish(w)

(* One entry after another: too much deletes the directory at once.        *)
Unpack(w) ==
    LET r == package_req[w]
        entry == r.package.entries[r.entry]
    IN  /\ package_pc[w] = "unpack" /\ r.entry <= Len(r.package.entries)
        /\ \/ /\ entry \in Part \cup {Manifest}
              /\ dir' = [dir EXCEPT ![r.at] = Holding(r.package, Parts(r.at) \cup {entry})]
              /\ Go(w, "unpack", [r EXCEPT !.entry = @ + 1])
           \/ entry = Huge /\ FinishWithout(w, r.at)
           \/ (entry = Refused \/ Disturbed("disk_error")) /\ ExtractionFails(w)
        /\ UNCHANGED <<package_world, rowVars, mediaVars>>

(* Without a manifest it is no package.                                    *)
Unpacked(w) ==
    LET r == package_req[w]
    IN  /\ package_pc[w] = "unpack" /\ r.entry > Len(r.package.entries)
        /\ IF Manifest \in Parts(r.at)
           THEN UNCHANGED dir /\ Goto(w, IF r.at \in Temp THEN "read" ELSE "register")
           ELSE FinishWithout(w, r.at)
        /\ UNCHANGED <<package_world, rowVars, mediaVars>>

(* The manifest parses and has an id, a name, a version and a tier.        *)
load_from_dir(k) == k.valid

(* A review shows what the manifest asks for, and has no directory then.   *)
ReadForReview(w) ==
    /\ package_pc[w] = "read" /\ ~package_req[w].install
    /\ FinishWithout(w, package_req[w].at)
    /\ UNCHANGED <<package_world, rowVars, mediaVars>>

(* An installation that cannot read the manifest leaves the directory.     *)
ReadForInstall(w) ==
    LET r == package_req[w]
    IN  /\ package_pc[w] = "read" /\ r.install
        /\ IF load_from_dir(r.package)
           THEN /\ dir' = [dir EXCEPT ![r.at] = NoDir]
                /\ Go(w, "clean", [r EXCEPT !.at = r.package.slug])
           ELSE UNCHANGED dir /\ Finish(w)
        /\ UNCHANGED <<package_world, rowVars, mediaVars>>

(* register_extracted: the row, under the unique key of its slug; without  *)
(* it, no directory.                                                       *)
Register(w) ==
    LET r == package_req[w]
        s == r.package.slug
    IN  /\ package_pc[w] = "register"
        /\ \/ /\ plugin[s] = NoPlugin
              /\ plugin' = [plugin EXCEPT ![s] = [package |-> r.package, status |-> "inactive"]]
              /\ UNCHANGED dir /\ Finish(w)
           \/ /\ plugin[s] # NoPlugin \/ Disturbed("db_error")
              /\ UNCHANGED plugin /\ FinishWithout(w, r.at)
        /\ UNCHANGED <<package_world, elements, made, mediaVars>>

-----------------------------------------------------------------------------
(* The elements of a plugin on the pages: rows that an activation makes    *)
(* from the manifest and a deactivation deletes.                           *)

BeginActivate(w) ==
    /\ \E s \in Slug :
          LET k == plugin[s].package
          IN  /\ Begin(w, "activate", s, "drop",
                       [NoRequest EXCEPT !.package = k, !.left = DOMAIN k.components])
              /\ plugin[s].status # "active"
    /\ UNCHANGED <<package_world, fileVars, rowVars, mediaVars>>

DropElements(w) ==
    LET s == package_req[w].slug
    IN  /\ package_pc[w] = "drop" /\ made[s] < MaxMade
        /\ elements' = [elements EXCEPT ![s] = {}]
        /\ made' = [made EXCEPT ![s] = @ + 1]
        /\ Go(w, "create", [package_req[w] EXCEPT !.made = made'[s]])
        /\ UNCHANGED <<package_world, fileVars, plugin, mediaVars>>

(* What the manifest said that the activation read when it began.          *)
Element(r, c) == [made |-> r.made, component |-> c, place |-> r.package.components[c]]

(* A row needs its plugin's.                                               *)
CreateElement(w) ==
    LET r == package_req[w]
    IN  /\ package_pc[w] = "create" /\ r.left # {}
        /\ \E c \in r.left :
              IF plugin[r.slug] # NoPlugin
              THEN /\ elements' = [elements EXCEPT ![r.slug] = @ \cup {Element(r, c)}]
                   /\ Go(w, "create", [r EXCEPT !.left = @ \ {c}])
              ELSE UNCHANGED elements /\ Finish(w)
        /\ UNCHANGED <<package_world, fileVars, plugin, made, mediaVars>>

SetStatus(w, from, to, next) ==
    LET s == package_req[w].slug
    IN  /\ package_pc[w] = from
        /\ IF plugin[s] # NoPlugin
           THEN plugin' = [plugin EXCEPT ![s].status = to] /\ next
           ELSE UNCHANGED plugin /\ Finish(w)

SetActive(w) ==
    /\ package_req[w].left = {}
    /\ SetStatus(w, "create", "active", Finish(w))
    /\ UNCHANGED <<package_world, fileVars, elements, made, mediaVars>>

BeginDeactivate(w) ==
    /\ \E s \in Slug : Begin(w, "deactivate", s, "deactivate", NoRequest)
    /\ UNCHANGED <<package_world, fileVars, rowVars, mediaVars>>

SetInactive(w) ==
    /\ SetStatus(w, "deactivate", "inactive", Goto(w, "hide"))
    /\ UNCHANGED <<package_world, fileVars, elements, made, mediaVars>>

HideElements(w) ==
    /\ package_pc[w] = "hide"
    /\ elements' = [elements EXCEPT ![package_req[w].slug] = {}]
    /\ Finish(w)
    /\ UNCHANGED <<package_world, fileVars, plugin, made, mediaVars>>

(* update_ui_slot_placement: a row that is read, checked to be the         *)
(* plugin's, and written by its id, if it is still there.                  *)
BeginMove(w) ==
    /\ \E s \in Slug : \E e \in elements[s] :
          Begin(w, "move", s, "move", [NoRequest EXCEPT !.element = <<e.made, e.component>>])
    /\ UNCHANGED <<package_world, fileVars, rowVars, mediaVars>>

UpdateElement(w) ==
    LET r == package_req[w]
        row == {e \in elements[r.slug] : <<e.made, e.component>> = r.element}
    IN  /\ package_pc[w] = "move"
        /\ \E p \in Place :
              elements' = [elements EXCEPT ![r.slug] =
                              (@ \ row) \cup {[e EXCEPT !.place = p] : e \in row}]
        /\ Finish(w)
        /\ UNCHANGED <<package_world, fileVars, plugin, made, mediaVars>>

-----------------------------------------------------------------------------
(* Media: stored under the plugin's prefix, with a reference an upload.    *)

BeginMedia(w) ==
    /\ \E s \in Slug : /\ Begin(w, "upload", s, "upload", NoRequest)
                       /\ plugin[s].status = "active"
    /\ UNCHANGED <<package_world, fileVars, rowVars, mediaVars>>

Leaving(s) ==
    plugin[s] = NoPlugin \/ \E w \in Worker : /\ package_pc[w] \in {"list", "release", "remove"}
                                              /\ package_req[w].slug = s

StoreMedia(w) ==
    /\ package_pc[w] = "upload"
    /\ \E i \in Image :
          LET k == <<package_req[w].slug, i>>
          IN  /\ ref_count[k] < MaxRef
              /\ Disturbed("repeat") \/ k \notin stored
              /\ Disturbed("early") \/ k \notin jobs
              /\ ref_count' = [ref_count EXCEPT ![k] = @ + 1]
              /\ stored' = stored \cup {k}
              /\ given' = IF Leaving(k[1]) THEN given ELSE given \cup {k}
    /\ Finish(w)
    /\ UNCHANGED <<package_world, fileVars, rowVars, jobs>>

Decremented(k) == IF ref_count[k] = 0 THEN 0 ELSE ref_count[k] - 1

(* The job takes one more reference and deletes the file if none is left.  *)
Collect(k) ==
    /\ k \in jobs
    /\ jobs' = jobs \ {k}
    /\ ref_count' = [ref_count EXCEPT ![k] = Decremented(k)]
    /\ stored' = IF Decremented(k) = 0 THEN stored \ {k} ELSE stored
    /\ UNCHANGED <<package_world, fileVars, rowVars, given, requestVars>>

-----------------------------------------------------------------------------
(* uninstall: the status, a reference of each file, the row with the       *)
(* elements, the directory.                                                *)

BeginUninstall(w) ==
    /\ \E s \in Slug : Begin(w, "uninstall", s, "uninstall", NoRequest)
    /\ UNCHANGED <<package_world, fileVars, rowVars, mediaVars>>

SetUninstalling(w) ==
    /\ SetStatus(w, "uninstall", "uninstalling", Goto(w, "list"))
    /\ given' = {k \in given : k[1] # package_req[w].slug}
    /\ UNCHANGED <<package_world, fileVars, elements, made, stored, ref_count, jobs>>

ListMedia(w) ==
    LET r == package_req[w]
    IN  /\ package_pc[w] = "list"
        /\ \E listed \in {{k \in stored : k[1] = r.slug}}
                            \cup (IF Disturbed("db_error") THEN {{}} ELSE {}) :
              Go(w, "release", [r EXCEPT !.left = listed])
        /\ UNCHANGED <<package_world, fileVars, rowVars, mediaVars>>

Dereference(w) ==
    LET r == package_req[w]
    IN  /\ package_pc[w] = "release"
        /\ \E k \in r.left :
              /\ Go(w, "release", [r EXCEPT !.left = @ \ {k}])
              /\ \/ /\ ref_count' = [ref_count EXCEPT ![k] = Decremented(k)]
                    /\ jobs' = IF Decremented(k) = 0 THEN jobs \cup {k} ELSE jobs
                 \/ Disturbed("db_error") /\ UNCHANGED <<ref_count, jobs>>
        /\ UNCHANGED <<package_world, fileVars, rowVars, stored, given>>

(* What a page shows goes with the row.                                    *)
DeleteRow(w) ==
    LET s == package_req[w].slug
    IN  /\ package_pc[w] = "release" /\ package_req[w].left = {}
        /\ \/ /\ plugin' = [plugin EXCEPT ![s] = NoPlugin]
              /\ elements' = [elements EXCEPT ![s] = {}]
              /\ Goto(w, "remove")
           \/ Disturbed("db_error") /\ UNCHANGED <<plugin, elements>> /\ Finish(w)
        /\ UNCHANGED <<package_world, fileVars, made, mediaVars>>

(* The directory, though it cannot be deleted, does not keep the plugin.   *)
RemoveDir(w) ==
    LET s == package_req[w].slug
    IN  /\ package_pc[w] = "remove"
        /\ \/ dir' = [dir EXCEPT ![s] = NoDir]
           \/ Disturbed("disk_error") /\ UNCHANGED dir
        /\ Finish(w)
        /\ UNCHANGED <<package_world, rowVars, mediaVars>>

(* A crash loses the requests and the jobs.                                *)
Restart ==
    /\ Disturbed("restart")
    /\ package_pc' = [w \in Worker |-> "idle"]
    /\ package_req' = [w \in Worker |-> NoRequest]
    /\ jobs' = {}
    /\ UNCHANGED <<package_world, fileVars, rowVars, stored, ref_count, given>>

Extract(w) == BeginReview(w) \/ BeginInstall(w) \/ Clean(w) \/ Unpack(w) \/ Unpacked(w)
Install(w) == ReadForReview(w) \/ ReadForInstall(w) \/ Register(w)
Show(w) == BeginActivate(w) \/ DropElements(w) \/ CreateElement(w) \/ SetActive(w)
Hide(w) == BeginDeactivate(w) \/ SetInactive(w) \/ HideElements(w)
Move(w) == BeginMove(w) \/ UpdateElement(w)
Media(w) == BeginMedia(w) \/ StoreMedia(w)
Uninstall(w) ==
    BeginUninstall(w) \/ SetUninstalling(w) \/ ListMedia(w) \/ Dereference(w)
        \/ DeleteRow(w) \/ RemoveDir(w)

Next ==
    \/ \E w \in Worker : \/ Extract(w) \/ Install(w) \/ Show(w) \/ Hide(w)
                         \/ Move(w) \/ Media(w) \/ Uninstall(w)
    \/ \E k \in Key : Collect(k)
    \/ Restart

Spec == Init /\ [][Next]_packageVars

-----------------------------------------------------------------------------

Without(events) == package_world.events \cap events = {}

(* Whatever crashes, fails or overlaps: behind a row is a directory with   *)
(* every file of the package it was installed from, unless a package is    *)
(* uploaded for a slug that is installed or being uninstalled (the first is *)
(* a finding, see InstalledHasFiles).                                      *)
InstalledWhole ==
    Without({"reinstall"}) =>
        \A s \in Slug : plugin[s] # NoPlugin =>
            dir[s] = Holding(plugin[s].package, ToSet(plugin[s].package.entries))

(* An element is on the pages only while the file it loads is there.       *)
ElementsServed ==
    Without({"reinstall"}) =>
        \A s \in Slug : \A e \in elements[s] : e.component \in Parts(s)

(* Activations one at a time, whatever fails in them, show each element of *)
(* a plugin once, wherever administrators move it meanwhile.               *)
ElementsOnce ==
    Without({"overlap"}) =>
        \A s \in Slug : \A e, f \in elements[s] : e.component = f.component => e = f

(* However a package is refused, it leaves no directory behind: only a     *)
(* disk error or a crash does, and the two omissions of the handlers, a    *)
(* refused entry that did not come as a review by the API and an invalid   *)
(* manifest that is installed at once.                                     *)
Omitted(k) ==
    \/ Refused \in ToSet(k.entries)
          /\ ("page" \in package_world.fronts \/ "install" \in package_world.requests)
    \/ ~load_from_dir(k) /\ "install" \in package_world.requests
NothingLeft ==
    Without({"disk_error", "restart"}) =>
        /\ \A n \in Temp : dir[n] # NoDir /\ ~InUse(n) => Omitted(dir[n].package)
        /\ \A s \in Slug : Quiet /\ plugin[s] = NoPlugin => dir[s] = NoDir

(* A file stays until the plugin it was uploaded through is uninstalled,   *)
(* unless it is uploaded before the jobs of an earlier uninstallation ran. *)
MediaServed == Without({"early"}) => given \subseteq stored

(* An uninstallation leaves no media, if each was uploaded once and none   *)
(* meanwhile.                                                              *)
MediaReclaimed ==
    Without({"overlap", "repeat", "db_error", "restart", "early"}) /\ Quiet /\ jobs = {} =>
        \A k \in stored : plugin[k[1]] # NoPlugin

PackagesHold ==
    /\ TypeOK /\ InstalledWhole /\ ElementsServed /\ ElementsOnce
    /\ NothingLeft /\ MediaServed /\ MediaReclaimed

=============================================================================
