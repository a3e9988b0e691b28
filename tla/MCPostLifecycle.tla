---------------------------- MODULE MCPostLifecycle ----------------------------
(* Instances of PostLifecycle for TLC. *)
EXTENDS PostLifecycle, TLC

(* What the behaviours of an instance are disturbed by. *)
Isolation == {{}}
Drifts == {{"lost_increment", "foreign_url"}, {"lost_decrement"}, {"crash"}}
EverythingButACrash == {Disturbances \ {"crash"}}
OverlapOnly == {{"overlap"}}
QueueOnly == {{"stale_queue"}}
TombstoneOnly == {{"tombstone"}}

Symmetry == Permutations(Post) \cup Permutations(Worker) \cup Permutations(File)

=============================================================================
