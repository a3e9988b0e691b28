------------------------------ MODULE BlobPointers ------------------------------
(***************************************************************************)
(* Avatars, covers and thread thumbnails.  Each is a pointer from a slot   *)
(* (a user or a thread) to a content-addressed row of stored_files, which  *)
(* counts the pointers to it; the request that takes the last reference    *)
(* away spawns a job that deletes the row.                                 *)
(*                                                                         *)
(* Sources: UserUseCase (avatars, covers), ThreadUseCase (thumbnails),     *)
(* their repositories, the migration that declares the foreign keys, and   *)
(* JobExecutor.  Every database call is a step, the job runs beside the    *)
(* requests.  The storage service is the database one: its delete and      *)
(* delete_by_key remove the same row.  A key carries the prefix of its     *)
(* kind of image, so two kinds never share a row: a behaviour is about one.*)
(***************************************************************************)
EXTENDS Integers, FiniteSets

CONSTANTS
    Slot,     \* users or threads that can point to an image
    File,     \* content-addressed keys
    Worker,   \* requests in flight
    MaxRef,   \* bound: no upload starts while a count is above it
    MaxJobs,  \* bound: no request starts while more jobs are outstanding
    Worlds,   \* the worlds a behaviour may be in
    NoFile

(***************************************************************************)
(* A world is a kind of image, the requests clients send, and what may     *)
(* disturb them:                                                           *)
(*   overlap         two requests on one slot may be in flight together    *)
(*   reupload        the image uploaded may be the current one             *)
(*   pointer_error   writing the pointer may fail                          *)
(***************************************************************************)
World == [thumbnails: BOOLEAN,   \* thread thumbnails, or avatars (or covers)
          requests: SUBSET {"set", "remove"},
          disturbance: SUBSET {"overlap", "reupload", "pointer_error"}]

BlobConstants ==
    /\ Worlds \subseteq World
    /\ NoFile \notin File
    /\ IsFiniteSet(Slot) /\ Slot # {} /\ IsFiniteSet(Worker)
    /\ MaxRef \in Nat /\ MaxJobs \in Nat

VARIABLES
    world,      \* chosen once
    pointer,    \* user_avatars, user_covers, thread_thumbnails: file_key
    stored,     \* keys with a row in stored_files
    ref_count,  \* stored_files.ref_count (0 for a key without a row)
    gc,         \* GcStorageKey jobs outstanding, by key and stage
    pc,
    req

vars == <<world, pointer, stored, ref_count, gc, pc, req>>

Stage == {"decrement", "storage", "row"}
Control == {"idle", "read", "point", "drop", "rollback", "drop_first", "clear"}
NoRequest == [slot |-> CHOOSE s \in Slot : TRUE, key |-> NoFile, old |-> NoFile]

TypeOK ==
    /\ world \in Worlds
    /\ pointer \in [Slot -> File \cup {NoFile}]
    /\ stored \subseteq File
    /\ ref_count \in [File -> Nat]
    /\ gc \in [File -> [Stage -> Nat]]
    /\ pc \in [Worker -> Control]
    /\ req \in [Worker -> [slot: Slot, key: File \cup {NoFile},
                           old: File \cup {NoFile}]]

Init ==
    /\ world \in Worlds
    /\ pointer = [s \in Slot |-> NoFile]
    /\ stored = {}
    /\ ref_count = [k \in File |-> 0]
    /\ gc = [k \in File |-> [g \in Stage |-> 0]]
    /\ pc = [w \in Worker |-> "idle"]
    /\ req = [w \in Worker |-> NoRequest]

-----------------------------------------------------------------------------

Outstanding(k) == gc[k]["decrement"] + gc[k]["storage"] + gc[k]["row"]

Begin(w, s, label, r) ==
    /\ pc[w] = "idle"
    /\ \A k \in File : Outstanding(k) < MaxJobs
    /\ \/ "overlap" \in world.disturbance
       \/ \A v \in Worker : pc[v] # "idle" => req[v].slot # s
    /\ pc' = [pc EXCEPT ![w] = label]
    /\ req' = [req EXCEPT ![w] = r]

Finish(w) ==
    /\ pc' = [pc EXCEPT ![w] = "idle"]
    /\ req' = [req EXCEPT ![w] = NoRequest]

Goto(w, label) == pc' = [pc EXCEPT ![w] = label]

(* What decrement_ref returns: 0 for a key without a row. *)
Remaining(k) == IF ref_count[k] > 0 THEN ref_count[k] - 1 ELSE 0

Enqueue(k) == gc' = [gc EXCEPT ![k]["decrement"] = @ + 1]

(* decrement_ref, and the job when the last reference is gone. *)
Release(k) ==
    /\ ref_count' = [ref_count EXCEPT ![k] = Remaining(k)]
    /\ IF Remaining(k) = 0 THEN Enqueue(k) ELSE UNCHANGED gc

-----------------------------------------------------------------------------
(* set_avatar, set_cover, set_thumbnail. *)

(* upsert_and_ref: a new row with one reference, or one reference more. *)
UpsertAndRef(w, s, k) ==
    /\ "set" \in world.requests
    /\ ref_count[k] < MaxRef
    /\ "reupload" \in world.disturbance \/ pointer[s] # k
    /\ Begin(w, s, "read", [slot |-> s, key |-> k, old |-> NoFile])
    /\ stored' = stored \cup {k}
    /\ ref_count' = [ref_count EXCEPT ![k] = IF k \in stored THEN @ + 1 ELSE 1]
    /\ UNCHANGED <<world, pointer, gc>>

ReadOld(w) ==
    /\ pc[w] = "read"
    /\ req' = [req EXCEPT ![w].old = pointer[req[w].slot]]
    /\ Goto(w, "point")
    /\ UNCHANGED <<world, pointer, stored, ref_count, gc>>

(* The foreign key to stored_files refuses a key without a row.  A         *)
(* thumbnail gives its new reference back when the write fails, an avatar  *)
(* and a cover do not.                                                     *)
SetPointer(w) ==
    /\ pc[w] = "point"
    /\ LET r == req[w] IN
        \/ /\ r.key \in stored
           /\ pointer' = [pointer EXCEPT ![r.slot] = r.key]
           /\ IF r.old \in {NoFile, r.key} THEN Finish(w)
                                           ELSE Goto(w, "drop") /\ UNCHANGED req
        \/ /\ r.key \notin stored \/ "pointer_error" \in world.disturbance
           /\ UNCHANGED pointer
           /\ IF world.thumbnails THEN Goto(w, "rollback") /\ UNCHANGED req
                                      ELSE Finish(w)
    /\ UNCHANGED <<world, stored, ref_count, gc>>

DropOld(w) ==
    /\ pc[w] = "drop"
    /\ Release(req[w].old)
    /\ Finish(w)
    /\ UNCHANGED <<world, pointer, stored>>

RollBack(w) ==
    /\ pc[w] = "rollback"
    /\ Release(req[w].key)
    /\ Finish(w)
    /\ UNCHANGED <<world, pointer, stored>>

-----------------------------------------------------------------------------
(* remove_avatar, remove_cover, remove_thumbnail: the reference is given   *)
(* back before the pointer is cleared.                                     *)

BeginRemove(w, s) ==
    /\ "remove" \in world.requests
    /\ Begin(w, s, IF pointer[s] = NoFile THEN "clear" ELSE "drop_first",
             [slot |-> s, key |-> NoFile, old |-> pointer[s]])
    /\ UNCHANGED <<world, pointer, stored, ref_count, gc>>

DropFirst(w) ==
    /\ pc[w] = "drop_first"
    /\ Release(req[w].old)
    /\ Goto(w, "clear")
    /\ UNCHANGED <<world, pointer, stored, req>>

ClearPointer(w) ==
    /\ pc[w] = "clear"
    /\ pointer' = [pointer EXCEPT ![req[w].slot] = NoFile]
    /\ Finish(w)
    /\ UNCHANGED <<world, stored, ref_count, gc>>

-----------------------------------------------------------------------------
(* run_gc_storage_key, a spawned task: nobody retries it. *)

Advance(k, from, to) ==
    /\ gc[k][from] > 0
    /\ gc' = [gc EXCEPT ![k] = [g \in Stage |->
                IF g = from THEN @[g] - 1 ELSE IF g = to THEN @[g] + 1 ELSE @[g]]]

(* It gives a reference back once more, and stops if one is left. *)
GcDecrement(k) ==
    /\ Advance(k, "decrement", IF Remaining(k) = 0 THEN "storage" ELSE "done")
    /\ ref_count' = [ref_count EXCEPT ![k] = Remaining(k)]
    /\ UNCHANGED <<world, pointer, stored, pc, req>>

(* A deletion that no foreign key stops. *)
DeleteRowUnrestricted(k) ==
    /\ stored' = stored \ {k}
    /\ ref_count' = [ref_count EXCEPT ![k] = 0]

(* ON DELETE RESTRICT: a row something points to is not deleted. *)
DeleteRow(k) ==
    IF \E s \in Slot : pointer[s] = k
    THEN UNCHANGED <<stored, ref_count>>
    ELSE /\ stored' = stored \ {k}
         /\ ref_count' = [ref_count EXCEPT ![k] = 0]

GcStorage(k) ==
    /\ Advance(k, "storage", "row")
    /\ DeleteRow(k)
    /\ UNCHANGED <<world, pointer, pc, req>>

GcRow(k) ==
    /\ Advance(k, "row", "done")
    /\ DeleteRow(k)
    /\ UNCHANGED <<world, pointer, pc, req>>

Step(w) == \/ ReadOld(w) \/ SetPointer(w) \/ DropOld(w) \/ RollBack(w)
           \/ DropFirst(w) \/ ClearPointer(w)
Job(k) == GcDecrement(k) \/ GcStorage(k) \/ GcRow(k)

Next ==
    \/ \E w \in Worker : \/ \E s \in Slot, k \in File : UpsertAndRef(w, s, k)
                         \/ \E s \in Slot : BeginRemove(w, s)
                         \/ Step(w)
    \/ \E k \in File : Job(k)

Spec == Init /\ [][Next]_vars

-----------------------------------------------------------------------------

(* Every pointer leads to a stored file, whatever jobs and requests race:  *)
(* an avatar, cover or thumbnail shown on a page can be served.            *)
PointersServed == \A s \in Slot : pointer[s] # NoFile => pointer[s] \in stored

(* Slots that point to k, uploads of k not yet pointed to, and references  *)
(* on k about to be given back.                                            *)
Due(k) ==
    Cardinality({s \in Slot : pointer[s] = k})
    + Cardinality({w \in Worker : pc[w] \in {"read", "point", "rollback"}
                                    /\ req[w].key = k})
    + Cardinality({w \in Worker : pc[w] = "drop" /\ req[w].old = k})

(* No reference on a thumbnail outlives its reason, even when writing the  *)
(* pointer fails: a file nobody points to cannot be kept by a count that   *)
(* no request will ever take down (the comment in set_thumbnail: "not      *)
(* orphaned with ref_count > 0").  Requests on one thread come one at a    *)
(* time and bring new images.                                              *)
NoOrphan ==
    world.thumbnails /\ world.disturbance \cap {"overlap", "reupload"} = {}
        => \A k \in File : ref_count[k] <= Due(k)

(* When every request and job is done, a file still stored is one that a   *)
(* slot points to: images that were replaced have been deleted.            *)
Quiet == /\ \A w \in Worker : pc[w] = "idle"
         /\ \A k \in File : Outstanding(k) = 0
StoredIsUsed == Quiet => \A k \in stored : \E s \in Slot : pointer[s] = k
Reclaimed ==
    world.disturbance = {} /\ "remove" \notin world.requests => StoredIsUsed

(* run_gc_storage_key says it skips the deletion when another reference    *)
(* was added concurrently: it never deletes a file that a request has      *)
(* taken a reference on and is about to point to.                          *)
FreshReferenceKept ==
    [][\A w \in Worker :
         pc[w] \in {"read", "point"} /\ req[w].key \in stored
            => req[w].key \in stored']_vars

=============================================================================
