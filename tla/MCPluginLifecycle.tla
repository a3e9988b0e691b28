---------------------------- MODULE MCPluginLifecycle ----------------------------
(* Instances of PluginLifecycle for TLC. *)
EXTENDS PluginLifecycle, TLC

CONSTANTS p1, p2

(* A plugin of each tier, in either order of installation. *)
BothTiers == (p1 :> "script") @@ (p2 :> "manifest")
ScriptOnly == p1 :> "script"
Calm == {"schema_error"}
Restarts == {"restart"}
Errors == {"db_error", "schema_error", "bad_bundle", "reinstall"}
Overlapping == {"overlap", "early", "reinstall", "schema_error", "bad_bundle"}

Orderly == {Calm, Restarts, Errors}
Crowded == {Overlapping}
JustOverlap == {{"overlap"}}
JustReinstall == {{"reinstall"}}

Symmetry == Permutations(Admin) \cup Permutations(Config)

=============================================================================
