-------------------------------- MODULE MCPlugins --------------------------------
(***************************************************************************)
(* Plugins for TLC: the life of a plugin and the files of its package.     *)
(* PluginLifecycle knows a package only as present or not, Packages knows  *)
(* only the statuses its requests look at: a behaviour is about one of     *)
(* them and the other stays as it began.                                   *)
(***************************************************************************)
EXTENDS MCPluginLifecycle, Sequences

CONSTANTS Slug, Part, Manifest, Refused, Huge, Package, Place, Image, Temp, Worker,
          MaxMade, MaxRef, PackageWorlds, NoDir, NoPackage,
          s1, s2, f1, f2, h1                                     \* model values

VARIABLES package_world, dir, plugin, elements, made, stored, ref_count, jobs, given,
          package_pc, package_req, side

K == INSTANCE Packages

ASSUME PackageAssumption == K!PackageConstants

packageVars == <<package_world, dir, plugin, elements, made, stored, ref_count, jobs,
                 given, package_pc, package_req>>
pluginVars == <<vars, packageVars, side>>

PluginInit ==
    /\ Init /\ K!Init
    /\ side \in {"lifecycle", "packages"}
    /\ side = "packages" => environment = CHOOSE x \in Environments : TRUE
    /\ side = "lifecycle" => package_world = CHOOSE x \in PackageWorlds : TRUE

PluginNext ==
    /\ side' = side
    /\ \/ side = "lifecycle" /\ Next /\ UNCHANGED packageVars
       \/ side = "packages" /\ K!Next /\ UNCHANGED vars

PluginSpec == PluginInit /\ [][PluginNext]_pluginVars

(* Whatever is refused, fails or crashes, the directories are those of the *)
(* plugins that are installed and hold what these need, and the media of a *)
(* plugin stay until it is uninstalled and go then (see Packages).         *)
PackagesHold == K!PackagesHold

-----------------------------------------------------------------------------

Good == [slug |-> s1, entries |-> <<f1, Manifest, f2>>, valid |-> TRUE,
         components |-> [f \in {f1} |-> h1]]
Newer == [Good EXCEPT !.entries = <<Manifest, f1>>]
Other == [Good EXCEPT !.slug = s2]
Escaping == [Good EXCEPT !.entries = <<Manifest, f1, Refused>>]
Overfull == [Good EXCEPT !.entries = <<Manifest, f1, Huge>>]
Bare == [Good EXCEPT !.entries = <<f1>>]
Invalid == [Good EXCEPT !.valid = FALSE]
Packages == {Good, Newer, Other, Escaping, Overfull, Bare, Invalid}

Uploading == [packages |-> Packages, requests |-> {"review", "install", "uninstall"},
              fronts |-> {"api", "page"}, events |-> {}]
Reviewing == [packages |-> Packages, requests |-> {"review"}, fronts |-> {"api"},
              events |-> {"overlap"}]
Failing == [packages |-> {Newer, Other}, requests |-> {"install", "uninstall"},
            fronts |-> {"page"}, events |-> {"overlap", "disk_error", "db_error", "restart"}]
Showing == [packages |-> {Good},
            requests |-> {"install", "uninstall", "activate", "deactivate", "move"},
            fronts |-> {"page"}, events |-> {"db_error", "restart"}]
ShowingTogether == [Showing EXCEPT !.events = {"overlap"}]
Sharing == [packages |-> {Newer}, requests |-> {"install", "uninstall", "activate", "upload"},
            fronts |-> {"page"}, events |-> {}]
SharingTogether == [Sharing EXCEPT !.events = {"overlap", "repeat", "db_error", "restart"}]
AllPackageWorlds == {Uploading, Reviewing, Failing, Showing, ShowingTogether, Sharing,
                     SharingTogether}

AllSymmetry == Symmetry \cup Permutations(Image) \cup Permutations(Temp)
                  \cup Permutations(Worker)

=============================================================================
