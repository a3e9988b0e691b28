------------------------------ MODULE AccountsProof ------------------------------
(***************************************************************************)
(* Proofs about what MCAccounts checks, for any values of the constants:   *)
(* the images of users and threads and the site's own (see BlobPointers    *)
(* and SiteImages), registrations, follows, and the lists of them (see     *)
(* Registration, Marks).                                                   *)
(***************************************************************************)
EXTENDS MCAccounts, FiniteSetTheorems, SequenceTheorems, WellFoundedInduction, TLAPS

-----------------------------------------------------------------------------
(* The pointers of users and threads.                                      *)

LEMMA BlobFacts ==
    /\ BlobWorlds \subseteq B!World /\ NoFile \notin File
    /\ IsFiniteSet(Slot) /\ Slot # {} /\ IsFiniteSet(Worker)
  BY ImageConstants DEF B!BlobConstants, B!IsFiniteSet, IsFiniteSet

BlobRequest == [slot: Slot, key: File \cup {NoFile}, old: File \cup {NoFile}]

(* What a request knows where it stands, and that a key without a row has  *)
(* no references.                                                          *)
Carries(w) ==
    /\ blob_pc[w] \in {"read", "point", "rollback"} => blob_req[w].key \in File
    /\ blob_pc[w] \in {"drop", "drop_first"} => blob_req[w].old \in File
    /\ blob_pc[w] = "rollback" => blob_world.thumbnails
    /\ blob_pc[w] \in {"drop_first", "clear"} => "remove" \in blob_world.requests

BlobTyped ==
    /\ B!TypeOK
    /\ \A w \in Worker : Carries(w)
    /\ \A k \in File \ stored : ref_count[k] = 0
    /\ B!PointersServed

LEMMA NothingTyped == B!NoRequest \in BlobRequest
<1>1. (CHOOSE s \in Slot : TRUE) \in Slot
  BY BlobFacts
<1> QED
  BY <1>1 DEF B!NoRequest, BlobRequest

LEMMA RemainingTyped ==
    ASSUME B!TypeOK, NEW k \in File
    PROVE  /\ B!Remaining(k) \in Nat
           /\ B!Remaining(k) <= ref_count[k]
           /\ ref_count[k] > 0 => B!Remaining(k) = ref_count[k] - 1
           /\ ref_count[k] = 0 => B!Remaining(k) = 0
  BY DEF B!TypeOK, B!Remaining

(* Jobs of one key move on, those of the others stay.                      *)
LEMMA Advanced ==
    ASSUME B!TypeOK, NEW k \in File, NEW from \in B!Stage, NEW to, to # from,
           B!Advance(k, from, to)
    PROVE  /\ gc' \in [File -> [B!Stage -> Nat]]
           /\ \A x \in File \ {k} : gc'[x] = gc[x]
           /\ to \in B!Stage => gc'[k][to] > 0
<1> DEFINE g == [x \in B!Stage |-> IF x = from THEN gc[k][x] - 1
                                   ELSE IF x = to THEN gc[k][x] + 1 ELSE gc[k][x]]
<1>1. gc[k] \in [B!Stage -> Nat] /\ gc[k][from] > 0
  BY DEF B!TypeOK, B!Advance
<1>2. gc' = [gc EXCEPT ![k] = g]
  BY DEF B!TypeOK, B!Advance
<1>3. g \in [B!Stage -> Nat] /\ (to \in B!Stage => g[to] > 0)
  BY <1>1
<1> HIDE DEF g
<1> QED
  BY <1>2, <1>3 DEF B!TypeOK

LEMMA Enqueued ==
    ASSUME B!TypeOK, NEW k \in File, B!Enqueue(k)
    PROVE  /\ gc' \in [File -> [B!Stage -> Nat]]
           /\ \A x \in File \ {k} : gc'[x] = gc[x]
           /\ gc'[k]["decrement"] > 0
<1> DEFINE g == [gc[k] EXCEPT !["decrement"] = gc[k]["decrement"] + 1]
<1>1. gc[k] \in [B!Stage -> Nat]
  BY DEF B!TypeOK
<1>2. gc' = [gc EXCEPT ![k] = g]
  BY DEF B!TypeOK, B!Enqueue
<1>3. g \in [B!Stage -> Nat] /\ g["decrement"] > 0
  BY <1>1 DEF B!Stage
<1> HIDE DEF g
<1> QED
  BY <1>2, <1>3 DEF B!TypeOK

(* A step of a request, for what it holds and where it stands.             *)
LEMMA RequestTyped ==
    ASSUME BlobTyped, NEW w \in Worker, NEW r \in BlobRequest, NEW label \in B!Control,
           blob_pc' = [blob_pc EXCEPT ![w] = label], blob_req' = [blob_req EXCEPT ![w] = r]
    PROVE  /\ blob_pc' \in [Worker -> B!Control] /\ blob_req' \in [Worker -> BlobRequest]
           /\ blob_pc'[w] = label /\ blob_req'[w] = r
           /\ \A v \in Worker \ {w} : blob_pc'[v] = blob_pc[v] /\ blob_req'[v] = blob_req[v]
  BY DEF BlobTyped, B!TypeOK, BlobRequest

(* The requests on slot s that w makes go on by one step: what w knows is  *)
(* now r, it stands at label, and the pointer of s is p.                   *)
Turn(w, s, label, r, p) ==
    /\ blob_pc' = [blob_pc EXCEPT ![w] = label]
    /\ blob_req' = [blob_req EXCEPT ![w] = r]
    /\ pointer' = [pointer EXCEPT ![s] = p]

LEMMA TurnTyped ==
    ASSUME B!TypeOK, NEW w \in Worker, NEW s \in Slot, NEW label \in B!Control,
           NEW r \in BlobRequest, NEW p \in File \cup {NoFile}, Turn(w, s, label, r, p)
    PROVE  /\ blob_pc' \in [Worker -> B!Control] /\ blob_req' \in [Worker -> BlobRequest]
           /\ pointer' \in [Slot -> File \cup {NoFile}]
           /\ blob_pc'[w] = label /\ blob_req'[w] = r /\ pointer'[s] = p
           /\ \A v \in Worker \ {w} : blob_pc'[v] = blob_pc[v] /\ blob_req'[v] = blob_req[v]
           /\ \A t \in Slot \ {s} : pointer'[t] = pointer[t]
  BY DEF B!TypeOK, BlobRequest, Turn

(* What each step of a request does to the pointers and to the request.    *)
LEMMA Stays ==
    ASSUME B!TypeOK, NEW w \in Worker
    PROVE  /\ blob_req[w] \in BlobRequest
           /\ [blob_req EXCEPT ![w] = blob_req[w]] = blob_req
           /\ [pointer EXCEPT ![blob_req[w].slot] = pointer[blob_req[w].slot]] = pointer
           /\ \A s \in Slot : [pointer EXCEPT ![s] = pointer[s]] = pointer
           /\ [blob_req EXCEPT ![w].old = pointer[blob_req[w].slot]] =
              [blob_req EXCEPT ![w] = [blob_req[w] EXCEPT !.old = pointer[blob_req[w].slot]]]
  BY DEF B!TypeOK, BlobRequest


(* What giving a reference back on k changes.                              *)
Released(k) ==
    /\ ref_count' = [ref_count EXCEPT ![k] = B!Remaining(k)]
    /\ gc' \in [File -> [B!Stage -> Nat]]
    /\ \A x \in File \ {k} : gc'[x] = gc[x]
    /\ B!Remaining(k) = 0 => gc'[k]["decrement"] > 0
    /\ stored' = stored

LEMMA ReleaseGives ==
    ASSUME B!TypeOK, NEW k \in File, B!Release(k), stored' = stored
    PROVE  Released(k)
<1>1. CASE B!Remaining(k) = 0
  BY <1>1, Enqueued DEF B!Release, Released
<1>2. CASE B!Remaining(k) # 0
  BY <1>2 DEF B!Release, Released, B!TypeOK
<1> QED
  BY <1>1, <1>2

Uploads(w, s, k) ==
    /\ blob_pc[w] = "idle"
    /\ "reupload" \in blob_world.disturbance \/ pointer[s] # k
    /\ stored' = stored \cup {k}
    /\ ref_count' = [ref_count EXCEPT ![k] = IF k \in stored THEN ref_count[k] + 1 ELSE 1]
    /\ gc' = gc

(* The slot is free for a request of w: nobody else is at work on it,      *)
(* unless requests may overlap.                                            *)
FreeFor(w, s) ==
    \/ "overlap" \in blob_world.disturbance
    \/ \A v \in Worker : blob_pc[v] # "idle" => blob_req[v].slot # s

Counters == <<stored, ref_count, gc>>

LEMMA UpsertTurns ==
    ASSUME B!TypeOK, NEW w \in Worker, NEW s \in Slot, NEW k \in File, B!UpsertAndRef(w, s, k)
    PROVE  /\ Turn(w, s, "read", [slot |-> s, key |-> k, old |-> NoFile], pointer[s])
           /\ Uploads(w, s, k) /\ FreeFor(w, s)
  BY Stays DEF B!UpsertAndRef, B!Begin, Turn, Uploads, FreeFor

LEMMA RemoveTurns ==
    ASSUME B!TypeOK, NEW w \in Worker, NEW s \in Slot, B!BeginRemove(w, s)
    PROVE  /\ Turn(w, s, IF pointer[s] = NoFile THEN "clear" ELSE "drop_first",
                   [slot |-> s, key |-> NoFile, old |-> pointer[s]], pointer[s])
           /\ blob_pc[w] = "idle" /\ "remove" \in blob_world.requests
           /\ UNCHANGED Counters /\ FreeFor(w, s)
  BY Stays DEF B!BeginRemove, B!Begin, Turn, Counters, FreeFor

LEMMA ReadTurns ==
    ASSUME B!TypeOK, NEW w \in Worker, B!ReadOld(w)
    PROVE  /\ Turn(w, blob_req[w].slot, "point",
                   [blob_req[w] EXCEPT !.old = pointer[blob_req[w].slot]],
                   pointer[blob_req[w].slot])
           /\ blob_pc[w] = "read" /\ UNCHANGED Counters
  BY Stays DEF B!ReadOld, B!Goto, Turn, Counters

(* Writing the pointer: it is there and nothing is left to do, or the old  *)
(* image has to be given back, or nothing was written.                     *)
LEMMA SetTurns ==
    ASSUME B!TypeOK, NEW w \in Worker, B!SetPointer(w)
    PROVE  LET r == blob_req[w] IN
           /\ blob_pc[w] = "point" /\ UNCHANGED Counters
           /\ \/ /\ r.key \in stored /\ r.old \in {NoFile, r.key}
                 /\ Turn(w, r.slot, "idle", B!NoRequest, r.key)
              \/ /\ r.key \in stored /\ r.old \notin {NoFile, r.key}
                 /\ Turn(w, r.slot, "drop", r, r.key)
              \/ /\ r.key \notin stored \/ "pointer_error" \in blob_world.disturbance
                 /\ blob_world.thumbnails /\ Turn(w, r.slot, "rollback", r, pointer[r.slot])
              \/ /\ r.key \notin stored \/ "pointer_error" \in blob_world.disturbance
                 /\ ~blob_world.thumbnails
                 /\ Turn(w, r.slot, "idle", B!NoRequest, pointer[r.slot])
<1> DEFINE r == blob_req[w]
<1>1. CASE /\ r.key \in stored
           /\ pointer' = [pointer EXCEPT ![r.slot] = r.key]
           /\ IF r.old \in {NoFile, r.key} THEN B!Finish(w)
              ELSE B!Goto(w, "drop") /\ UNCHANGED blob_req
  BY <1>1, Stays DEF B!SetPointer, B!Goto, B!Finish, Turn, Counters
<1>2. CASE /\ r.key \notin stored \/ "pointer_error" \in blob_world.disturbance
           /\ UNCHANGED pointer
           /\ IF blob_world.thumbnails THEN B!Goto(w, "rollback") /\ UNCHANGED blob_req
              ELSE B!Finish(w)
  BY <1>2, Stays DEF B!SetPointer, B!Goto, B!Finish, Turn, Counters
<1> QED
  BY <1>1, <1>2 DEF B!SetPointer

LEMMA DropTurns ==
    ASSUME B!TypeOK, NEW w \in Worker, B!DropOld(w), blob_req[w].old \in File
    PROVE  /\ Turn(w, blob_req[w].slot, "idle", B!NoRequest, pointer[blob_req[w].slot])
           /\ blob_pc[w] = "drop" /\ Released(blob_req[w].old)
  BY Stays, ReleaseGives DEF B!DropOld, B!Finish, Turn

LEMMA RollBackTurns ==
    ASSUME B!TypeOK, NEW w \in Worker, B!RollBack(w), blob_req[w].key \in File
    PROVE  /\ Turn(w, blob_req[w].slot, "idle", B!NoRequest, pointer[blob_req[w].slot])
           /\ blob_pc[w] = "rollback" /\ Released(blob_req[w].key)
  BY Stays, ReleaseGives DEF B!RollBack, B!Finish, Turn

LEMMA DropFirstTurns ==
    ASSUME B!TypeOK, NEW w \in Worker, B!DropFirst(w), blob_req[w].old \in File
    PROVE  /\ Turn(w, blob_req[w].slot, "clear", blob_req[w], pointer[blob_req[w].slot])
           /\ blob_pc[w] = "drop_first" /\ Released(blob_req[w].old)
  BY Stays, ReleaseGives DEF B!DropFirst, B!Goto, Turn

LEMMA ClearTurns ==
    ASSUME B!TypeOK, NEW w \in Worker, B!ClearPointer(w)
    PROVE  /\ Turn(w, blob_req[w].slot, "idle", B!NoRequest, NoFile)
           /\ blob_pc[w] = "clear" /\ UNCHANGED Counters
  BY Stays DEF B!ClearPointer, B!Finish, Turn, Counters

Requests == <<pointer, blob_pc, blob_req>>

(* A job: the references on its file, and perhaps the row, are gone; a row *)
(* something points to is not deleted, and while the job is not over there *)
(* is a count of it.                                                       *)
Works(k) ==
    /\ UNCHANGED Requests
    /\ gc' \in [File -> [B!Stage -> Nat]]
    /\ \A x \in File \ {k} : gc'[x] = gc[x] /\ ref_count'[x] = ref_count[x]
    /\ ref_count' \in [File -> Nat] /\ ref_count'[k] <= ref_count[k]
    /\ \/ stored' = stored
       \/ stored' = stored \ {k} /\ ref_count'[k] = 0 /\ \A s \in Slot : pointer[s] # k
    /\ \/ k \notin stored' \/ ref_count'[k] > 0
       \/ \E g \in B!Stage : gc'[k][g] > 0
       \/ \E s \in Slot : pointer[s] = k

LEMMA JobWorks ==
    ASSUME B!TypeOK, NEW k \in File, B!Job(k)
    PROVE  Works(k)
<1>1. CASE B!GcDecrement(k)
  <2> DEFINE to == IF B!Remaining(k) = 0 THEN "storage" ELSE "done"
  <2>1. B!Advance(k, "decrement", to) /\ to # "decrement" /\ "decrement" \in B!Stage
    BY <1>1 DEF B!GcDecrement, B!Stage
  <2>2. /\ gc' \in [File -> [B!Stage -> Nat]]
        /\ \A x \in File \ {k} : gc'[x] = gc[x]
        /\ to \in B!Stage => gc'[k][to] > 0
    BY <2>1, Advanced
  <2>3. B!Remaining(k) = 0 => to \in B!Stage
    BY DEF B!Stage
  <2> HIDE DEF to
  <2>4. /\ ref_count' = [ref_count EXCEPT ![k] = B!Remaining(k)]
        /\ UNCHANGED Requests /\ stored' = stored
    BY <1>1 DEF B!GcDecrement, Requests
  <2>5. /\ ref_count' \in [File -> Nat] /\ ref_count'[k] = B!Remaining(k)
        /\ \A x \in File \ {k} : ref_count'[x] = ref_count[x]
        /\ B!Remaining(k) <= ref_count[k] /\ B!Remaining(k) \in Nat
    BY <2>4, RemainingTyped DEF B!TypeOK
  <2>6. ref_count'[k] > 0 \/ \E g \in B!Stage : gc'[k][g] > 0
    BY <2>2, <2>3, <2>5
  <2> QED
    BY <2>2, <2>4, <2>5, <2>6 DEF Works
<1>2. CASE B!GcStorage(k)
  <2>1. /\ gc' \in [File -> [B!Stage -> Nat]]
        /\ \A x \in File \ {k} : gc'[x] = gc[x]
        /\ "row" \in B!Stage /\ gc'[k]["row"] > 0
    BY <1>2, Advanced DEF B!GcStorage, B!Stage
  <2> QED
    BY <1>2, <2>1 DEF B!GcStorage, B!DeleteRow, Works, Requests, B!TypeOK
<1>3. CASE B!GcRow(k)
  <2>1. /\ gc' \in [File -> [B!Stage -> Nat]]
        /\ \A x \in File \ {k} : gc'[x] = gc[x]
    BY <1>3, Advanced DEF B!GcRow, B!Stage
  <2> QED
    BY <1>3, <2>1 DEF B!GcRow, B!DeleteRow, Works, Requests, B!TypeOK
<1> QED
  BY <1>1, <1>2, <1>3 DEF B!Job


BlobUnchanged == UNCHANGED blobVars

WorkerStep(w) ==
    \/ \E s \in Slot, k \in File : B!UpsertAndRef(w, s, k)
    \/ \E s \in Slot : B!BeginRemove(w, s)
    \/ B!Step(w)

LEMMA WorldStays ==
    ASSUME B!Next
    PROVE  blob_world' = blob_world
  BY DEF B!Next, B!Step, B!Job, B!UpsertAndRef, B!BeginRemove, B!ReadOld, B!SetPointer, B!DropOld,
         B!RollBack, B!DropFirst, B!ClearPointer, B!GcDecrement, B!GcStorage, B!GcRow

(* A row keeps its file or loses its count with it.                        *)
CountsTyped ==
    /\ stored \subseteq File /\ ref_count \in [File -> Nat]
    /\ gc \in [File -> [B!Stage -> Nat]]
    /\ \A k \in File \ stored : ref_count[k] = 0

LEMMA ReleasedTyped ==
    ASSUME BlobTyped, NEW k \in File, Released(k)
    PROVE  /\ CountsTyped' /\ ref_count'[k] = B!Remaining(k)
           /\ \A x \in File \ {k} : ref_count'[x] = ref_count[x]
<1>1. ref_count' \in [File -> Nat] /\ ref_count'[k] = B!Remaining(k)
      /\ \A x \in File \ {k} : ref_count'[x] = ref_count[x]
  BY RemainingTyped DEF BlobTyped, B!TypeOK, Released
<1> QED
  BY <1>1, RemainingTyped DEF BlobTyped, B!TypeOK, Released, CountsTyped

(* A step of a request keeps the types, if what it knows where it stands   *)
(* is what it should know, and the pointer it writes leads to a row.       *)
LEMMA TurnKeepsTypes ==
    ASSUME BlobTyped, NEW w \in Worker, NEW s \in Slot, NEW label \in B!Control,
           NEW r \in BlobRequest, NEW p \in stored \cup {NoFile}, Turn(w, s, label, r, p),
           blob_world' = blob_world, CountsTyped', stored \subseteq stored',
           label \in {"read", "point", "rollback"} => r.key \in File,
           label \in {"drop", "drop_first"} => r.old \in File,
           label = "rollback" => blob_world.thumbnails,
           label \in {"drop_first", "clear"} => "remove" \in blob_world.requests
    PROVE  BlobTyped'
<1>1. p \in File \cup {NoFile}
  BY DEF BlobTyped, B!TypeOK
<1>2. /\ blob_pc' \in [Worker -> B!Control] /\ blob_req' \in [Worker -> BlobRequest]
      /\ pointer' \in [Slot -> File \cup {NoFile}]
      /\ blob_pc'[w] = label /\ blob_req'[w] = r /\ pointer'[s] = p
      /\ \A v \in Worker \ {w} : blob_pc'[v] = blob_pc[v] /\ blob_req'[v] = blob_req[v]
      /\ \A t \in Slot \ {s} : pointer'[t] = pointer[t]
  BY <1>1, TurnTyped DEF BlobTyped
<1>3. B!TypeOK'
  BY <1>2 DEF BlobTyped, B!TypeOK, BlobRequest, CountsTyped
<1>4. \A v \in Worker : Carries(v)'
  <2> TAKE v \in Worker
  <2>1. CASE v = w
    BY <2>1, <1>2 DEF Carries
  <2>2. CASE v # w
    BY <2>2, <1>2 DEF Carries, BlobTyped
  <2> QED
    BY <2>1, <2>2
<1>5. B!PointersServed'
  BY <1>2 DEF BlobTyped, B!PointersServed
<1> QED
  BY <1>3, <1>4, <1>5 DEF BlobTyped, CountsTyped

LEMMA StepKeepsTypes ==
    ASSUME BlobTyped, blob_world' = blob_world, NEW w \in Worker, WorkerStep(w)
    PROVE  BlobTyped'
<1> DEFINE r == blob_req[w]
<1>0. /\ B!TypeOK /\ Carries(w) /\ r \in BlobRequest /\ r.slot \in Slot
      /\ B!NoRequest \in BlobRequest /\ CountsTyped
      /\ \A s \in Slot : pointer[s] \in stored \cup {NoFile}
      /\ stored \subseteq File
  BY NothingTyped DEF BlobTyped, B!TypeOK, BlobRequest, CountsTyped, B!PointersServed
<1>u. UNCHANGED Counters => CountsTyped' /\ stored \subseteq stored'
  BY <1>0 DEF Counters, CountsTyped
<1>c. /\ "idle" \in B!Control /\ "read" \in B!Control /\ "point" \in B!Control
      /\ "drop" \in B!Control /\ "rollback" \in B!Control /\ "clear" \in B!Control
      /\ "drop_first" \in B!Control
  BY DEF B!Control
<1>1. ASSUME NEW s \in Slot, NEW k \in File, B!UpsertAndRef(w, s, k) PROVE BlobTyped'
  <2>1. /\ Turn(w, s, "read", [slot |-> s, key |-> k, old |-> NoFile], pointer[s])
        /\ Uploads(w, s, k)
    BY <1>0, <1>1, UpsertTurns
  <2>2. CountsTyped' /\ stored \subseteq stored'
    BY <1>0, <2>1 DEF Uploads, CountsTyped
  <2>3. [slot |-> s, key |-> k, old |-> NoFile] \in BlobRequest
    BY DEF BlobRequest
  <2> QED
    BY <1>0, <1>c, <2>1, <2>2, <2>3, TurnKeepsTypes
<1>2. ASSUME NEW s \in Slot, B!BeginRemove(w, s) PROVE BlobTyped'
  <2> DEFINE label == IF pointer[s] = NoFile THEN "clear" ELSE "drop_first"
             q == [slot |-> s, key |-> NoFile, old |-> pointer[s]]
  <2>1. /\ Turn(w, s, label, q, pointer[s]) /\ UNCHANGED Counters
        /\ "remove" \in blob_world.requests
    BY <1>0, <1>2, RemoveTurns
  <2>2. label \in B!Control /\ q \in BlobRequest /\ (label = "drop_first" => q.old \in File)
        /\ label \in {"clear", "drop_first"}
    BY <1>0, <1>c DEF BlobRequest
  <2> HIDE DEF label, q
  <2> QED
    BY <1>0, <1>u, <2>1, <2>2, TurnKeepsTypes
<1>3. ASSUME B!ReadOld(w) PROVE BlobTyped'
  <2> DEFINE q == [r EXCEPT !.old = pointer[r.slot]]
  <2>1. /\ Turn(w, r.slot, "point", q, pointer[r.slot]) /\ UNCHANGED Counters
        /\ blob_pc[w] = "read"
    BY <1>0, <1>3, ReadTurns
  <2>2. q \in BlobRequest /\ q.key \in File
    BY <1>0, <2>1 DEF BlobRequest, Carries
  <2> HIDE DEF q
  <2> QED
    BY <1>0, <1>c, <1>u, <2>1, <2>2, TurnKeepsTypes
<1>4. ASSUME B!SetPointer(w) PROVE BlobTyped'
  <2> HIDE DEF r
  <2>1. /\ blob_pc[w] = "point" /\ UNCHANGED Counters
        /\ \/ /\ r.key \in stored /\ r.old \in {NoFile, r.key}
              /\ Turn(w, r.slot, "idle", B!NoRequest, r.key)
           \/ /\ r.key \in stored /\ r.old \notin {NoFile, r.key}
              /\ Turn(w, r.slot, "drop", r, r.key)
           \/ /\ r.key \notin stored \/ "pointer_error" \in blob_world.disturbance
              /\ blob_world.thumbnails /\ Turn(w, r.slot, "rollback", r, pointer[r.slot])
           \/ /\ r.key \notin stored \/ "pointer_error" \in blob_world.disturbance
              /\ ~blob_world.thumbnails
              /\ Turn(w, r.slot, "idle", B!NoRequest, pointer[r.slot])
    BY <1>0, <1>4, SetTurns DEF r
  <2>2. r.key \in File /\ (r.old # NoFile => r.old \in File)
    BY <1>0, <2>1 DEF Carries, r, BlobRequest
  <2>3. CASE r.key \in stored /\ Turn(w, r.slot, "idle", B!NoRequest, r.key)
    BY <1>0, <1>c, <1>u, <2>1, <2>3, TurnKeepsTypes
  <2>4. CASE /\ r.key \in stored /\ r.old \notin {NoFile, r.key}
             /\ Turn(w, r.slot, "drop", r, r.key)
    BY <1>0, <1>c, <1>u, <2>1, <2>2, <2>4, TurnKeepsTypes
  <2>5. CASE blob_world.thumbnails /\ Turn(w, r.slot, "rollback", r, pointer[r.slot])
    BY <1>0, <1>c, <1>u, <2>1, <2>2, <2>5, TurnKeepsTypes
  <2>6. CASE Turn(w, r.slot, "idle", B!NoRequest, pointer[r.slot])
    BY <1>0, <1>c, <1>u, <2>1, <2>6, TurnKeepsTypes
  <2> QED
    BY <2>1, <2>3, <2>4, <2>5, <2>6
<1>5. ASSUME B!DropOld(w) PROVE BlobTyped'
  <2>1. r.old \in File
    BY <1>0, <1>5 DEF B!DropOld, Carries
  <2>2. Turn(w, r.slot, "idle", B!NoRequest, pointer[r.slot]) /\ Released(r.old)
    BY <1>0, <1>5, <2>1, DropTurns
  <2>3. CountsTyped' /\ stored \subseteq stored'
    BY <2>1, <2>2, ReleasedTyped DEF Released
  <2> QED
    BY <1>0, <1>c, <2>2, <2>3, TurnKeepsTypes
<1>6. ASSUME B!RollBack(w) PROVE BlobTyped'
  <2>1. r.key \in File
    BY <1>0, <1>6 DEF B!RollBack, Carries
  <2>2. Turn(w, r.slot, "idle", B!NoRequest, pointer[r.slot]) /\ Released(r.key)
    BY <1>0, <1>6, <2>1, RollBackTurns
  <2>3. CountsTyped' /\ stored \subseteq stored'
    BY <2>1, <2>2, ReleasedTyped DEF Released
  <2> QED
    BY <1>0, <1>c, <2>2, <2>3, TurnKeepsTypes
<1>7. ASSUME B!DropFirst(w) PROVE BlobTyped'
  <2>1. r.old \in File /\ "remove" \in blob_world.requests
    BY <1>0, <1>7 DEF B!DropFirst, Carries
  <2>2. Turn(w, r.slot, "clear", r, pointer[r.slot]) /\ Released(r.old)
    BY <1>0, <1>7, <2>1, DropFirstTurns
  <2>3. CountsTyped' /\ stored \subseteq stored'
    BY <2>1, <2>2, ReleasedTyped DEF Released
  <2> HIDE DEF r
  <2> QED
    BY <1>0, <1>c, <2>1, <2>2, <2>3, TurnKeepsTypes
<1>8. ASSUME B!ClearPointer(w) PROVE BlobTyped'
  <2>1. Turn(w, r.slot, "idle", B!NoRequest, NoFile) /\ UNCHANGED Counters
    BY <1>0, <1>8, ClearTurns
  <2> QED
    BY <1>0, <1>c, <1>u, <2>1, TurnKeepsTypes
<1> QED
  BY <1>1, <1>2, <1>3, <1>4, <1>5, <1>6, <1>7, <1>8 DEF WorkerStep, B!Step

LEMMA JobKeepsTypes ==
    ASSUME BlobTyped, blob_world' = blob_world, NEW k \in File, Works(k)
    PROVE  BlobTyped'
<1>1. \A v \in Worker : Carries(v)'
  BY DEF BlobTyped, Works, Requests, Carries
<1>2. B!TypeOK'
  BY DEF BlobTyped, B!TypeOK, Works, Requests
<1>3. /\ \A x \in File \ stored' : ref_count'[x] = 0
      /\ B!PointersServed'
  BY DEF BlobTyped, B!TypeOK, B!PointersServed, Works, Requests
<1> QED
  BY <1>1, <1>2, <1>3 DEF BlobTyped


(***************************************************************************)
(* While requests on a slot come one after the other, the old image a      *)
(* request has in mind is the current one, and if images are new the one   *)
(* it brings is not.                                                       *)
(***************************************************************************)
AtWork(w, s) == blob_pc[w] # "idle" /\ blob_req[w].slot = s

Aware(w) ==
    /\ blob_pc[w] \in {"point", "drop_first"} => blob_req[w].old = pointer[blob_req[w].slot]
    /\ "reupload" \in blob_world.disturbance
       \/ (blob_pc[w] \in {"read", "point"} => blob_req[w].key # pointer[blob_req[w].slot])

Orderly ==
    "overlap" \in blob_world.disturbance
    \/ /\ \A s \in Slot : \A v, w \in Worker : AtWork(v, s) /\ AtWork(w, s) => v = w
       /\ \A w \in Worker : Aware(w)

(* A step of the one request on s, and what is the same around it.         *)
AloneOn(w, s) ==
    /\ \A v \in Worker \ {w} : ~AtWork(v, s)
    /\ blob_pc[w] # "idle" => blob_req[w].slot = s

LEMMA TurnKeepsOrder ==
    ASSUME BlobTyped, Orderly, NEW w \in Worker, NEW s \in Slot, NEW label \in B!Control,
           NEW r \in BlobRequest, NEW p \in File \cup {NoFile}, Turn(w, s, label, r, p),
           blob_world' = blob_world, "overlap" \notin blob_world.disturbance,
           AloneOn(w, s), label # "idle" => r.slot = s,
           label \in {"point", "drop_first"} => r.old = p,
           "reupload" \in blob_world.disturbance
           \/ (label \in {"read", "point"} => r.key # p)
    PROVE  Orderly'
<1>1. /\ blob_pc'[w] = label /\ blob_req'[w] = r /\ pointer'[s] = p
      /\ \A v \in Worker \ {w} : blob_pc'[v] = blob_pc[v] /\ blob_req'[v] = blob_req[v]
      /\ \A t \in Slot \ {s} : pointer'[t] = pointer[t]
  BY TurnTyped DEF BlobTyped
<1>2. /\ \A t \in Slot : \A v, u \in Worker : AtWork(v, t) /\ AtWork(u, t) => v = u
      /\ \A v \in Worker : Aware(v)
  BY DEF Orderly
<1>3. \A t \in Slot : \A v, u \in Worker : AtWork(v, t)' /\ AtWork(u, t)' => v = u
  BY <1>1, <1>2 DEF AtWork, AloneOn
<1>4. ASSUME NEW v \in Worker PROVE Aware(v)'
  <2>1. CASE v = w
    BY <2>1, <1>1 DEF Aware
  <2>2. CASE v # w
    <3>1. blob_pc[v] # "idle" => blob_req[v].slot \in Slot \ {s}
      BY <2>2 DEF AloneOn, AtWork, BlobTyped, B!TypeOK
    <3> QED
      BY <2>2, <3>1, <1>1, <1>2 DEF Aware
  <2> QED
    BY <2>1, <2>2
<1> QED
  BY <1>3, <1>4 DEF Orderly

LEMMA BusyIsAlone ==
    ASSUME BlobTyped, Orderly, NEW w \in Worker, "overlap" \notin blob_world.disturbance,
           blob_pc[w] # "idle"
    PROVE  AloneOn(w, blob_req[w].slot) /\ Aware(w)
  BY DEF Orderly, AloneOn, AtWork, BlobTyped, B!TypeOK

LEMMA BeginnerIsAlone ==
    ASSUME BlobTyped, NEW w \in Worker, NEW s \in Slot, FreeFor(w, s), blob_pc[w] = "idle",
           "overlap" \notin blob_world.disturbance
    PROVE  AloneOn(w, s)
  BY DEF FreeFor, AloneOn, AtWork

(* What a step of a request makes of the slot it is about, whichever step  *)
(* it is; the changes of the counters are named where they matter.         *)
Known(w) ==
    /\ BlobTyped /\ Carries(w) /\ blob_req[w] \in BlobRequest /\ blob_req[w].slot \in Slot
    /\ B!NoRequest \in BlobRequest
    /\ \A s \in Slot : pointer[s] \in File \cup {NoFile}

LEMMA IsKnown == ASSUME BlobTyped, NEW w \in Worker PROVE Known(w) /\ B!TypeOK
  BY NothingTyped DEF BlobTyped, B!TypeOK, BlobRequest, Known

LEMMA Stations ==
    /\ "idle" \in B!Control /\ "read" \in B!Control /\ "point" \in B!Control
    /\ "drop" \in B!Control /\ "rollback" \in B!Control /\ "clear" \in B!Control
    /\ "drop_first" \in B!Control
  BY DEF B!Control

LEMMA StepKeepsOrder ==
    ASSUME BlobTyped, Orderly, blob_world' = blob_world, NEW w \in Worker, WorkerStep(w),
           "overlap" \notin blob_world.disturbance
    PROVE  Orderly'
<1> DEFINE r == blob_req[w]
<1>0. Known(w) /\ B!TypeOK /\ Carries(w) /\ r \in BlobRequest /\ r.slot \in Slot
      /\ B!NoRequest \in BlobRequest /\ (\A s \in Slot : pointer[s] \in File \cup {NoFile})
      /\ NoFile \in File \cup {NoFile}
  BY IsKnown DEF Known
<1>a. blob_pc[w] # "idle" => AloneOn(w, r.slot) /\ Aware(w)
  BY BusyIsAlone
<1>1. ASSUME NEW s \in Slot, NEW k \in File, B!UpsertAndRef(w, s, k) PROVE Orderly'
  <2> DEFINE q == [slot |-> s, key |-> k, old |-> NoFile]
  <2>1. Turn(w, s, "read", q, pointer[s]) /\ Uploads(w, s, k) /\ FreeFor(w, s)
    BY <1>0, <1>1, UpsertTurns
  <2>2. q \in BlobRequest /\ q.slot = s /\ q.key = k
    BY DEF BlobRequest
  <2>3. AloneOn(w, s) /\ ("reupload" \in blob_world.disturbance \/ k # pointer[s])
    BY <2>1, BeginnerIsAlone DEF Uploads
  <2> HIDE DEF q
  <2> QED
    BY <1>0, <2>1, <2>2, <2>3, Stations, TurnKeepsOrder
<1>2. ASSUME NEW s \in Slot, B!BeginRemove(w, s) PROVE Orderly'
  <2> DEFINE label == IF pointer[s] = NoFile THEN "clear" ELSE "drop_first"
             q == [slot |-> s, key |-> NoFile, old |-> pointer[s]]
  <2>1. Turn(w, s, label, q, pointer[s]) /\ FreeFor(w, s) /\ blob_pc[w] = "idle"
    BY <1>0, <1>2, RemoveTurns
  <2>2. label \in B!Control /\ q \in BlobRequest /\ q.old = pointer[s] /\ q.slot = s
        /\ label \notin {"read", "point"}
    BY <1>0, Stations DEF BlobRequest
  <2>3. AloneOn(w, s)
    BY <2>1, BeginnerIsAlone
  <2> HIDE DEF label, q
  <2> QED
    BY <1>0, <2>1, <2>2, <2>3, TurnKeepsOrder
<1>3. ASSUME B!ReadOld(w) PROVE Orderly'
  <2> DEFINE q == [r EXCEPT !.old = pointer[r.slot]]
  <2>1. Turn(w, r.slot, "point", q, pointer[r.slot]) /\ blob_pc[w] = "read"
    BY <1>0, <1>3, ReadTurns
  <2>2. q \in BlobRequest /\ q.key = r.key /\ q.slot = r.slot /\ q.old = pointer[r.slot]
    BY <1>0 DEF BlobRequest
  <2>3. AloneOn(w, r.slot) /\ ("reupload" \in blob_world.disturbance \/ r.key # pointer[r.slot])
    BY <1>a, <2>1 DEF Aware
  <2> HIDE DEF q, r
  <2> QED
    BY <1>0, <2>1, <2>2, <2>3, Stations, TurnKeepsOrder
<1>4. ASSUME B!SetPointer(w) PROVE Orderly'
  <2> HIDE DEF r
  <2>1. /\ blob_pc[w] = "point"
        /\ \/ Turn(w, r.slot, "idle", B!NoRequest, r.key)
           \/ Turn(w, r.slot, "drop", r, r.key)
           \/ Turn(w, r.slot, "rollback", r, pointer[r.slot])
           \/ Turn(w, r.slot, "idle", B!NoRequest, pointer[r.slot])
    BY <1>0, <1>4, SetTurns DEF r
  <2>2. r.key \in File \cup {NoFile} /\ AloneOn(w, r.slot)
    BY <1>0, <1>a, <2>1 DEF r, BlobRequest
  <2> QED
    BY <1>0, <2>1, <2>2, Stations, TurnKeepsOrder
<1>5. ASSUME B!DropOld(w) PROVE Orderly'
  <2>1. Turn(w, r.slot, "idle", B!NoRequest, pointer[r.slot]) /\ blob_pc[w] = "drop"
    BY <1>0, <1>5, DropTurns DEF Carries, B!DropOld
  <2> QED
    BY <1>0, <1>a, <2>1, Stations, TurnKeepsOrder
<1>6. ASSUME B!RollBack(w) PROVE Orderly'
  <2>1. Turn(w, r.slot, "idle", B!NoRequest, pointer[r.slot]) /\ blob_pc[w] = "rollback"
    BY <1>0, <1>6, RollBackTurns DEF Carries, B!RollBack
  <2> QED
    BY <1>0, <1>a, <2>1, Stations, TurnKeepsOrder
<1>7. ASSUME B!DropFirst(w) PROVE Orderly'
  <2>1. Turn(w, r.slot, "clear", r, pointer[r.slot]) /\ blob_pc[w] = "drop_first"
    BY <1>0, <1>7, DropFirstTurns DEF Carries, B!DropFirst
  <2> HIDE DEF r
  <2> QED
    BY <1>0, <1>a, <2>1, Stations, TurnKeepsOrder
<1>8. ASSUME B!ClearPointer(w) PROVE Orderly'
  <2>1. Turn(w, r.slot, "idle", B!NoRequest, NoFile) /\ blob_pc[w] = "clear"
    BY <1>0, <1>8, ClearTurns
  <2> QED
    BY <1>0, <1>a, <2>1, Stations, TurnKeepsOrder
<1> QED
  BY <1>1, <1>2, <1>3, <1>4, <1>5, <1>6, <1>7, <1>8 DEF WorkerStep, B!Step


(***************************************************************************)
(* What the references on k are for: the slots that point to it and are    *)
(* not being cleared, the requests that bring it, and those that leave it. *)
(***************************************************************************)
BeingCleared(s) == \E w \in Worker : blob_pc[w] = "clear" /\ blob_req[w].slot = s
PointsTo(s, k) == pointer[s] = k /\ ~BeingCleared(s)
Brings(w, k) == blob_pc[w] \in {"read", "point", "rollback"} /\ blob_req[w].key = k
Leaves(w, k) == blob_pc[w] = "drop" /\ blob_req[w].old = k
Pointing(k) == {s \in Slot : PointsTo(s, k)}
Bringing(k) == {w \in Worker : Brings(w, k)}
Leaving(k) == {w \in Worker : Leaves(w, k)}
Held(k) == Cardinality(Pointing(k)) + Cardinality(Bringing(k)) + Cardinality(Leaving(k))

(* Images are new, and requests on a slot come one after the other.        *)
InTurn == blob_world.disturbance \cap {"overlap", "reupload"} = {}

HeldCounts ==
    InTurn /\ (blob_world.thumbnails \/ "pointer_error" \notin blob_world.disturbance) =>
        \A k \in File : ref_count[k] <= Held(k)

One(b) == IF b THEN 1 ELSE 0

LEMMA WithoutOne ==
    ASSUME NEW T, IsFiniteSet(T), NEW S \in SUBSET T, NEW x
    PROVE  /\ Cardinality(S) \in Nat /\ Cardinality(S \ {x}) \in Nat
           /\ Cardinality(S) = Cardinality(S \ {x}) + One(x \in S)
<1>1. IsFiniteSet(S) /\ IsFiniteSet(S \ {x})
  BY FS_Subset
<1>2. Cardinality(S) \in Nat /\ Cardinality(S \ {x}) \in Nat
  BY <1>1, FS_CardinalityType
<1> QED
  BY <1>1, <1>2, FS_RemoveElement DEF One

(* What the one request on s, and s itself, add to the references on k.    *)
Own(w, s, k) == One(PointsTo(s, k)) + One(Brings(w, k)) + One(Leaves(w, k))
Rest(w, s, k) == Cardinality(Pointing(k) \ {s}) + Cardinality(Bringing(k) \ {w})
                 + Cardinality(Leaving(k) \ {w})

LEMMA Shares ==
    ASSUME NEW w \in Worker, NEW s \in Slot, NEW k
    PROVE  Held(k) = Rest(w, s, k) + Own(w, s, k) /\ Held(k) \in Nat
           /\ Rest(w, s, k) \in Nat
<1>1. /\ Pointing(k) \in SUBSET Slot /\ Bringing(k) \in SUBSET Worker
      /\ Leaving(k) \in SUBSET Worker
      /\ (s \in Pointing(k) <=> PointsTo(s, k)) /\ (w \in Bringing(k) <=> Brings(w, k))
      /\ (w \in Leaving(k) <=> Leaves(w, k))
  BY DEF Pointing, Bringing, Leaving
<1>2. /\ Cardinality(Pointing(k)) \in Nat /\ Cardinality(Pointing(k) \ {s}) \in Nat
      /\ Cardinality(Pointing(k)) = Cardinality(Pointing(k) \ {s}) + One(s \in Pointing(k))
  BY <1>1, BlobFacts, WithoutOne
<1>3. /\ Cardinality(Bringing(k)) \in Nat /\ Cardinality(Bringing(k) \ {w}) \in Nat
      /\ Cardinality(Bringing(k)) = Cardinality(Bringing(k) \ {w}) + One(w \in Bringing(k))
  BY <1>1, BlobFacts, WithoutOne
<1>4. /\ Cardinality(Leaving(k)) \in Nat /\ Cardinality(Leaving(k) \ {w}) \in Nat
      /\ Cardinality(Leaving(k)) = Cardinality(Leaving(k) \ {w}) + One(w \in Leaving(k))
  BY <1>1, BlobFacts, WithoutOne
<1> QED
  BY <1>1, <1>2, <1>3, <1>4 DEF Held, Rest, Own, One

(* The same after the step.                                                *)
LEMMA SharesAfter ==
    ASSUME NEW w \in Worker, NEW s \in Slot, NEW k
    PROVE  Held(k)' = Rest(w, s, k)' + Own(w, s, k)' /\ Held(k)' \in Nat
           /\ Rest(w, s, k)' \in Nat
<1>1. /\ Pointing(k)' \in SUBSET Slot /\ Bringing(k)' \in SUBSET Worker
      /\ Leaving(k)' \in SUBSET Worker
      /\ (s \in Pointing(k)' <=> PointsTo(s, k)') /\ (w \in Bringing(k)' <=> Brings(w, k)')
      /\ (w \in Leaving(k)' <=> Leaves(w, k)')
  BY DEF Pointing, Bringing, Leaving
<1>2. /\ Cardinality(Pointing(k)') \in Nat /\ Cardinality(Pointing(k)' \ {s}) \in Nat
      /\ Cardinality(Pointing(k)') = Cardinality(Pointing(k)' \ {s}) + One(s \in Pointing(k)')
  BY <1>1, BlobFacts, WithoutOne
<1>3. /\ Cardinality(Bringing(k)') \in Nat /\ Cardinality(Bringing(k)' \ {w}) \in Nat
      /\ Cardinality(Bringing(k)') = Cardinality(Bringing(k)' \ {w}) + One(w \in Bringing(k)')
  BY <1>1, BlobFacts, WithoutOne
<1>4. /\ Cardinality(Leaving(k)') \in Nat /\ Cardinality(Leaving(k)' \ {w}) \in Nat
      /\ Cardinality(Leaving(k)') = Cardinality(Leaving(k)' \ {w}) + One(w \in Leaving(k)')
  BY <1>1, BlobFacts, WithoutOne
<1> QED
  BY <1>1, <1>2, <1>3, <1>4 DEF Held, Rest, Own, One

(* A step of the one request on s leaves the rest of the references.       *)
LEMMA TurnKeepsRest ==
    ASSUME BlobTyped, NEW w \in Worker, NEW s \in Slot, NEW label \in B!Control,
           NEW r \in BlobRequest, NEW p \in File \cup {NoFile}, Turn(w, s, label, r, p),
           AloneOn(w, s), label # "idle" => r.slot = s, NEW k \in File
    PROVE  /\ Rest(w, s, k)' = Rest(w, s, k)
           /\ Own(w, s, k) = One(pointer[s] = k /\ blob_pc[w] # "clear")
                             + One(Brings(w, k)) + One(Leaves(w, k))
           /\ Own(w, s, k)' = One(p = k /\ label # "clear")
                              + One(label \in {"read", "point", "rollback"} /\ r.key = k)
                              + One(label = "drop" /\ r.old = k)
<1>1. /\ blob_pc'[w] = label /\ blob_req'[w] = r /\ pointer'[s] = p
      /\ \A v \in Worker \ {w} : blob_pc'[v] = blob_pc[v] /\ blob_req'[v] = blob_req[v]
      /\ \A t \in Slot \ {s} : pointer'[t] = pointer[t]
  BY TurnTyped DEF BlobTyped
<1>2. \A t \in Slot \ {s} : BeingCleared(t)' <=> BeingCleared(t)
  BY <1>1 DEF BeingCleared, AloneOn
<1>3. /\ BeingCleared(s) <=> blob_pc[w] = "clear"
      /\ BeingCleared(s)' <=> label = "clear"
  BY <1>1 DEF BeingCleared, AloneOn, AtWork
<1>4. /\ Pointing(k)' \ {s} = Pointing(k) \ {s}
      /\ Bringing(k)' \ {w} = Bringing(k) \ {w}
      /\ Leaving(k)' \ {w} = Leaving(k) \ {w}
  BY <1>1, <1>2 DEF Pointing, PointsTo, Bringing, Brings, Leaving, Leaves
<1>5. Rest(w, s, k)' = Rest(w, s, k)
  BY <1>4 DEF Rest
<1>6. /\ PointsTo(s, k) <=> (pointer[s] = k /\ blob_pc[w] # "clear")
      /\ PointsTo(s, k)' <=> (p = k /\ label # "clear")
      /\ Brings(w, k)' <=> (label \in {"read", "point", "rollback"} /\ r.key = k)
      /\ Leaves(w, k)' <=> (label = "drop" /\ r.old = k)
  BY <1>1, <1>3 DEF PointsTo, Brings, Leaves
<1> QED
  BY <1>5, <1>6 DEF Own, One


LEMMA Balance ==
    ASSUME BlobTyped, NEW w \in Worker, NEW s \in Slot, NEW label \in B!Control,
           NEW r \in BlobRequest, NEW p \in File \cup {NoFile}, Turn(w, s, label, r, p),
           AloneOn(w, s), label # "idle" => r.slot = s, NEW k \in File
    PROVE  /\ Held(k) \in Nat /\ Held(k)' \in Nat
           /\ Held(k)' + (One(pointer[s] = k /\ blob_pc[w] # "clear")
                          + One(Brings(w, k)) + One(Leaves(w, k)))
              = Held(k) + (One(p = k /\ label # "clear")
                           + One(label \in {"read", "point", "rollback"} /\ r.key = k)
                           + One(label = "drop" /\ r.old = k))
<1>1. Held(k) = Rest(w, s, k) + Own(w, s, k) /\ Held(k) \in Nat /\ Rest(w, s, k) \in Nat
  BY Shares
<1>2. Held(k)' = Rest(w, s, k)' + Own(w, s, k)' /\ Held(k)' \in Nat
  BY SharesAfter
<1>3. /\ Rest(w, s, k)' = Rest(w, s, k)
      /\ Own(w, s, k) = One(pointer[s] = k /\ blob_pc[w] # "clear")
                        + One(Brings(w, k)) + One(Leaves(w, k))
      /\ Own(w, s, k)' = One(p = k /\ label # "clear")
                         + One(label \in {"read", "point", "rollback"} /\ r.key = k)
                         + One(label = "drop" /\ r.old = k)
  BY TurnKeepsRest
<1>4. \A b : One(b) \in Nat
  BY DEF One
<1> QED
  BY <1>1, <1>2, <1>3, <1>4

(* While nothing disturbs the requests and no image is removed, a row is   *)
(* there for a reason or a job is on its way to it.                        *)
Wanted(k) == Held(k) > 0 \/ \E g \in B!Stage : gc[k][g] > 0
AllWanted ==
    blob_world.disturbance = {} /\ "remove" \notin blob_world.requests =>
        \A k \in stored : Wanted(k)

(* What a step has to be to keep both: the references on a file change     *)
(* with what holds it, and a file held by one less is without a count or   *)
(* has a job.                                                              *)
Fair(k) ==
    /\ blob_world.thumbnails \/ "pointer_error" \notin blob_world.disturbance =>
         (ref_count[k] <= Held(k) => ref_count'[k] <= Held(k)')
    /\ /\ blob_world.disturbance = {} /\ "remove" \notin blob_world.requests
       /\ k \in stored'
       => (ref_count[k] <= Held(k) /\ (k \in stored => Wanted(k)) => Wanted(k)')

LEMMA SameHold ==
    ASSUME BlobTyped, NEW k \in File, Held(k) \in Nat, Held(k)' = Held(k),
           ref_count'[k] = ref_count[k], k \in stored' => k \in stored, gc'[k] = gc[k]
    PROVE  Fair(k)
  BY DEF Fair, Wanted, BlobTyped, B!TypeOK

(* A file of which a reference is given back, and that is held once less.  *)
LEMMA LeftOnce ==
    ASSUME BlobTyped, NEW k \in File, Held(k) \in Nat, Held(k)' \in Nat,
           Held(k)' + 1 = Held(k), Released(k)
    PROVE  Fair(k)
<1>1. /\ B!Remaining(k) \in Nat /\ ref_count[k] \in Nat
      /\ ref_count[k] > 0 => B!Remaining(k) = ref_count[k] - 1
      /\ ref_count[k] = 0 => B!Remaining(k) = 0
      /\ ref_count'[k] = B!Remaining(k)
  BY RemainingTyped, ReleasedTyped DEF BlobTyped, B!TypeOK
<1>2. ref_count[k] <= Held(k) => ref_count'[k] <= Held(k)'
  BY <1>1
<1>3. ref_count[k] <= Held(k) => Wanted(k)'
  <2>1. CASE B!Remaining(k) = 0
    BY <2>1 DEF Released, Wanted, B!Stage
  <2>2. CASE B!Remaining(k) # 0
    BY <1>1, <1>2, <2>2 DEF Wanted
  <2> QED
    BY <2>1, <2>2
<1> QED
  BY <1>2, <1>3 DEF Fair


LEMMA StepIsFair ==
    ASSUME BlobTyped, Orderly, InTurn, NEW w \in Worker, WorkerStep(w), NEW k \in File
    PROVE  Fair(k)
<1> DEFINE r == blob_req[w]
<1>0. Known(w) /\ B!TypeOK /\ Carries(w) /\ r \in BlobRequest /\ r.slot \in Slot
      /\ B!NoRequest \in BlobRequest /\ (\A s \in Slot : pointer[s] \in File \cup {NoFile})
      /\ NoFile \in File \cup {NoFile} /\ k # NoFile
      /\ ref_count \in [File -> Nat]
  BY IsKnown, BlobFacts DEF Known, B!TypeOK
<1>o. "overlap" \notin blob_world.disturbance /\ "reupload" \notin blob_world.disturbance
  BY DEF InTurn
<1>a. blob_pc[w] # "idle" => AloneOn(w, r.slot) /\ Aware(w)
  BY <1>o, BusyIsAlone
<1>b. blob_pc[w] = "idle" => ~Brings(w, k) /\ ~Leaves(w, k)
  BY DEF Brings, Leaves
<1>1. ASSUME NEW s \in Slot, NEW i \in File, B!UpsertAndRef(w, s, i) PROVE Fair(k)
  <2> DEFINE q == [slot |-> s, key |-> i, old |-> NoFile]
  <2>1. Turn(w, s, "read", q, pointer[s]) /\ Uploads(w, s, i) /\ FreeFor(w, s)
    BY <1>0, <1>1, UpsertTurns
  <2>2. q \in BlobRequest /\ q.slot = s /\ q.key = i
    BY DEF BlobRequest
  <2>3. AloneOn(w, s) /\ blob_pc[w] = "idle"
    BY <1>o, <2>1, BeginnerIsAlone DEF Uploads
  <2> HIDE DEF q
  <2>4. /\ Held(k) \in Nat /\ Held(k)' \in Nat
        /\ Held(k)' + (One(pointer[s] = k /\ blob_pc[w] # "clear")
                       + One(Brings(w, k)) + One(Leaves(w, k)))
           = Held(k) + (One(pointer[s] = k /\ "read" # "clear")
                        + One("read" \in {"read", "point", "rollback"} /\ q.key = k)
                        + One("read" = "drop" /\ q.old = k))
    BY <1>0, <2>1, <2>2, <2>3, Balance, Stations
  <2>5. Held(k)' = Held(k) + One(i = k)
    BY <1>b, <2>2, <2>3, <2>4 DEF One
  <2>6. CASE i = k
    <3>1. Held(k)' = Held(k) + 1 /\ ref_count'[k] <= ref_count[k] + 1
      BY <1>0, <2>1, <2>5, <2>6 DEF Uploads, One
    <3>2. ref_count[k] \in Nat /\ ref_count'[k] \in Nat
      BY <1>0, <2>1, <2>6 DEF Uploads
    <3> QED
      BY <2>4, <3>1, <3>2 DEF Fair, Wanted
  <2>7. CASE i # k
    <3>1. Held(k)' = Held(k) /\ ref_count'[k] = ref_count[k]
      BY <1>0, <2>1, <2>4, <2>5, <2>7 DEF Uploads, One
    <3>2. (k \in stored' => k \in stored) /\ gc'[k] = gc[k]
      BY <2>1, <2>7 DEF Uploads
    <3> QED
      BY <2>4, <3>1, <3>2, SameHold
  <2> QED
    BY <2>6, <2>7
<1>s. UNCHANGED Counters => /\ ref_count'[k] = ref_count[k] /\ (k \in stored' => k \in stored)
                            /\ gc'[k] = gc[k]
  BY DEF Counters
<1>2. ASSUME NEW s \in Slot, B!BeginRemove(w, s) PROVE Fair(k)
  <2> DEFINE label == IF pointer[s] = NoFile THEN "clear" ELSE "drop_first"
             q == [slot |-> s, key |-> NoFile, old |-> pointer[s]]
  <2>1. /\ Turn(w, s, label, q, pointer[s]) /\ FreeFor(w, s) /\ blob_pc[w] = "idle"
        /\ UNCHANGED Counters
    BY <1>0, <1>2, RemoveTurns
  <2>2. /\ label \in B!Control /\ q \in BlobRequest /\ q.slot = s
        /\ label \notin {"read", "point", "rollback"} /\ label # "drop"
        /\ (pointer[s] = k => label # "clear")
    BY <1>0, Stations DEF BlobRequest
  <2>3. AloneOn(w, s)
    BY <1>o, <2>1, BeginnerIsAlone
  <2> HIDE DEF label, q
  <2>4. /\ Held(k) \in Nat /\ Held(k)' \in Nat
        /\ Held(k)' + (One(pointer[s] = k /\ blob_pc[w] # "clear")
                       + One(Brings(w, k)) + One(Leaves(w, k)))
           = Held(k) + (One(pointer[s] = k /\ label # "clear")
                        + One(label \in {"read", "point", "rollback"} /\ q.key = k)
                        + One(label = "drop" /\ q.old = k))
    BY <1>0, <2>1, <2>2, <2>3, Balance
  <2>5. Held(k)' = Held(k)
    BY <1>b, <2>1, <2>2, <2>4 DEF One
  <2> QED
    BY <1>s, <2>1, <2>4, <2>5, SameHold
<1>3. ASSUME B!ReadOld(w) PROVE Fair(k)
  <2> DEFINE q == [r EXCEPT !.old = pointer[r.slot]]
  <2>1. /\ Turn(w, r.slot, "point", q, pointer[r.slot]) /\ blob_pc[w] = "read"
        /\ UNCHANGED Counters
    BY <1>0, <1>3, ReadTurns
  <2>2. q \in BlobRequest /\ q.key = r.key /\ q.slot = r.slot
    BY <1>0 DEF BlobRequest
  <2> HIDE DEF q
  <2>4. /\ Held(k) \in Nat /\ Held(k)' \in Nat
        /\ Held(k)' + (One(pointer[r.slot] = k /\ blob_pc[w] # "clear")
                       + One(Brings(w, k)) + One(Leaves(w, k)))
           = Held(k) + (One(pointer[r.slot] = k /\ "point" # "clear")
                        + One("point" \in {"read", "point", "rollback"} /\ q.key = k)
                        + One("point" = "drop" /\ q.old = k))
    BY <1>0, <1>a, <2>1, <2>2, Balance, Stations
  <2>5. Held(k)' = Held(k)
    BY <2>1, <2>2, <2>4 DEF One, Brings, Leaves
  <2> QED
    BY <1>s, <2>1, <2>4, <2>5, SameHold
<1>4. ASSUME B!SetPointer(w) PROVE Fair(k)
  <2>d. r = blob_req[w]
    OBVIOUS
  <2> HIDE DEF r
  <2>1. /\ blob_pc[w] = "point" /\ UNCHANGED Counters
        /\ \/ /\ r.key \in stored /\ r.old \in {NoFile, r.key}
              /\ Turn(w, r.slot, "idle", B!NoRequest, r.key)
           \/ /\ r.key \in stored /\ r.old \notin {NoFile, r.key}
              /\ Turn(w, r.slot, "drop", r, r.key)
           \/ /\ r.key \notin stored \/ "pointer_error" \in blob_world.disturbance
              /\ blob_world.thumbnails /\ Turn(w, r.slot, "rollback", r, pointer[r.slot])
           \/ /\ r.key \notin stored \/ "pointer_error" \in blob_world.disturbance
              /\ ~blob_world.thumbnails
              /\ Turn(w, r.slot, "idle", B!NoRequest, pointer[r.slot])
    BY <1>0, <1>4, SetTurns DEF r
  <2>2. /\ r.key \in File \cup {NoFile} /\ AloneOn(w, r.slot)
        /\ r.old = pointer[r.slot] /\ r.key # pointer[r.slot]
    BY <1>0, <1>a, <1>o, <2>1, <2>d DEF BlobRequest, Aware
  <2>b. (Brings(w, k) <=> r.key = k) /\ ~Leaves(w, k)
    BY <2>1, <2>d DEF Brings, Leaves
  <2>3. CASE r.old \in {NoFile, r.key} /\ Turn(w, r.slot, "idle", B!NoRequest, r.key)
    <3>1. /\ Held(k) \in Nat /\ Held(k)' \in Nat
          /\ Held(k)' + (One(pointer[r.slot] = k /\ blob_pc[w] # "clear")
                         + One(Brings(w, k)) + One(Leaves(w, k)))
             = Held(k) + (One(r.key = k /\ "idle" # "clear")
                          + One("idle" \in {"read", "point", "rollback"} /\ B!NoRequest.key = k)
                          + One("idle" = "drop" /\ B!NoRequest.old = k))
      BY <1>0, <2>2, <2>3, Balance, Stations
    <3>2. Held(k)' = Held(k)
      BY <1>0, <2>2, <2>3, <2>b, <3>1 DEF One
    <3> QED
      BY <1>s, <2>1, <3>1, <3>2, SameHold
  <2>4. CASE r.old \notin {NoFile, r.key} /\ Turn(w, r.slot, "drop", r, r.key)
    <3>1. /\ Held(k) \in Nat /\ Held(k)' \in Nat
          /\ Held(k)' + (One(pointer[r.slot] = k /\ blob_pc[w] # "clear")
                         + One(Brings(w, k)) + One(Leaves(w, k)))
             = Held(k) + (One(r.key = k /\ "drop" # "clear")
                          + One("drop" \in {"read", "point", "rollback"} /\ r.key = k)
                          + One("drop" = "drop" /\ r.old = k))
      BY <1>0, <2>2, <2>4, Balance, Stations
    <3>2. Held(k)' = Held(k)
      BY <1>0, <2>1, <2>2, <2>4, <2>b, <3>1 DEF One
    <3> QED
      BY <1>s, <2>1, <3>1, <3>2, SameHold
  <2>5. CASE Turn(w, r.slot, "rollback", r, pointer[r.slot])
    <3>1. /\ Held(k) \in Nat /\ Held(k)' \in Nat
          /\ Held(k)' + (One(pointer[r.slot] = k /\ blob_pc[w] # "clear")
                         + One(Brings(w, k)) + One(Leaves(w, k)))
             = Held(k) + (One(pointer[r.slot] = k /\ "rollback" # "clear")
                          + One("rollback" \in {"read", "point", "rollback"} /\ r.key = k)
                          + One("rollback" = "drop" /\ r.old = k))
      BY <1>0, <2>2, <2>5, Balance, Stations
    <3>2. Held(k)' = Held(k)
      BY <2>1, <2>b, <3>1 DEF One
    <3> QED
      BY <1>s, <2>1, <3>1, <3>2, SameHold
  <2>6. CASE /\ r.key \notin stored \/ "pointer_error" \in blob_world.disturbance
             /\ ~blob_world.thumbnails
             /\ Turn(w, r.slot, "idle", B!NoRequest, pointer[r.slot])
    <3>1. /\ Held(k) \in Nat /\ Held(k)' \in Nat
          /\ Held(k)' + (One(pointer[r.slot] = k /\ blob_pc[w] # "clear")
                         + One(Brings(w, k)) + One(Leaves(w, k)))
             = Held(k) + (One(pointer[r.slot] = k /\ "idle" # "clear")
                          + One("idle" \in {"read", "point", "rollback"} /\ B!NoRequest.key = k)
                          + One("idle" = "drop" /\ B!NoRequest.old = k))
      BY <1>0, <2>2, <2>6, Balance, Stations
    <3>2. r.key # k => Held(k)' = Held(k)
      BY <2>1, <2>b, <3>1 DEF One
    <3>3. CASE r.key # k
      BY <1>s, <2>1, <3>1, <3>2, <3>3, SameHold
    <3>4. CASE r.key = k
      <4>1. k \notin stored \/ "pointer_error" \in blob_world.disturbance
        BY <2>6, <3>4
      <4>2. k \notin stored => ref_count'[k] = 0 /\ k \notin stored'
        BY <2>1 DEF BlobTyped, Counters
      <4> QED
        BY <2>6, <3>1, <4>1, <4>2 DEF Fair
    <3> QED
      BY <3>3, <3>4
  <2> QED
    BY <2>1, <2>3, <2>4, <2>5, <2>6
<1>5. ASSUME B!DropOld(w) PROVE Fair(k)
  <2>1. /\ Turn(w, r.slot, "idle", B!NoRequest, pointer[r.slot]) /\ blob_pc[w] = "drop"
        /\ Released(r.old) /\ r.old \in File
    BY <1>0, <1>5, DropTurns DEF Carries, B!DropOld
  <2>2. /\ Held(k) \in Nat /\ Held(k)' \in Nat
        /\ Held(k)' + (One(pointer[r.slot] = k /\ blob_pc[w] # "clear")
                       + One(Brings(w, k)) + One(Leaves(w, k)))
           = Held(k) + (One(pointer[r.slot] = k /\ "idle" # "clear")
                        + One("idle" \in {"read", "point", "rollback"} /\ B!NoRequest.key = k)
                        + One("idle" = "drop" /\ B!NoRequest.old = k))
    BY <1>0, <1>a, <2>1, Balance, Stations
  <2>3. Held(k)' + One(r.old = k) = Held(k)
    BY <2>1, <2>2 DEF One, Brings, Leaves
  <2>4. CASE r.old = k
    <3>1. Held(k)' + 1 = Held(k)
      BY <2>3, <2>4 DEF One
    <3> QED
      BY <2>1, <2>2, <2>4, <3>1, LeftOnce
  <2>5. CASE r.old # k
    <3>1. Held(k)' = Held(k)
      BY <2>2, <2>3, <2>5 DEF One
    <3>2. ref_count'[k] = ref_count[k] /\ gc'[k] = gc[k] /\ (k \in stored' => k \in stored)
      BY <2>1, <2>5, ReleasedTyped DEF Released
    <3> QED
      BY <2>2, <3>1, <3>2, SameHold
  <2> QED
    BY <2>4, <2>5
<1>6. ASSUME B!RollBack(w) PROVE Fair(k)
  <2>1. /\ Turn(w, r.slot, "idle", B!NoRequest, pointer[r.slot]) /\ blob_pc[w] = "rollback"
        /\ Released(r.key) /\ r.key \in File
    BY <1>0, <1>6, RollBackTurns DEF Carries, B!RollBack
  <2>2. /\ Held(k) \in Nat /\ Held(k)' \in Nat
        /\ Held(k)' + (One(pointer[r.slot] = k /\ blob_pc[w] # "clear")
                       + One(Brings(w, k)) + One(Leaves(w, k)))
           = Held(k) + (One(pointer[r.slot] = k /\ "idle" # "clear")
                        + One("idle" \in {"read", "point", "rollback"} /\ B!NoRequest.key = k)
                        + One("idle" = "drop" /\ B!NoRequest.old = k))
    BY <1>0, <1>a, <2>1, Balance, Stations
  <2>3. Held(k)' + One(r.key = k) = Held(k)
    BY <2>1, <2>2 DEF One, Brings, Leaves
  <2>4. CASE r.key = k
    <3>1. Held(k)' + 1 = Held(k)
      BY <2>3, <2>4 DEF One
    <3> QED
      BY <2>1, <2>2, <2>4, <3>1, LeftOnce
  <2>5. CASE r.key # k
    <3>1. Held(k)' = Held(k)
      BY <2>2, <2>3, <2>5 DEF One
    <3>2. ref_count'[k] = ref_count[k] /\ gc'[k] = gc[k] /\ (k \in stored' => k \in stored)
      BY <2>1, <2>5, ReleasedTyped DEF Released
    <3> QED
      BY <2>2, <3>1, <3>2, SameHold
  <2> QED
    BY <2>4, <2>5
<1>7. ASSUME B!DropFirst(w) PROVE Fair(k)
  <2>d. r = blob_req[w]
    OBVIOUS
  <2>1. /\ Turn(w, r.slot, "clear", r, pointer[r.slot]) /\ blob_pc[w] = "drop_first"
        /\ Released(r.old) /\ r.old \in File /\ "remove" \in blob_world.requests
    BY <1>0, <1>7, DropFirstTurns DEF Carries, B!DropFirst
  <2>a. AloneOn(w, r.slot) /\ r.old = pointer[r.slot]
    BY <1>a, <2>1 DEF Aware
  <2> HIDE DEF r
  <2>2. /\ Held(k) \in Nat /\ Held(k)' \in Nat
        /\ Held(k)' + (One(pointer[r.slot] = k /\ blob_pc[w] # "clear")
                       + One(Brings(w, k)) + One(Leaves(w, k)))
           = Held(k) + (One(pointer[r.slot] = k /\ "clear" # "clear")
                        + One("clear" \in {"read", "point", "rollback"} /\ r.key = k)
                        + One("clear" = "drop" /\ r.old = k))
    BY <1>0, <2>a, <2>1, Balance, Stations
  <2>3. Held(k)' + One(r.old = k) = Held(k)
    BY <2>1, <2>a, <2>2 DEF One, Brings, Leaves
  <2>4. CASE r.old = k
    <3>1. Held(k)' + 1 = Held(k)
      BY <2>3, <2>4 DEF One
    <3> QED
      BY <2>1, <2>2, <2>4, <3>1, LeftOnce
  <2>5. CASE r.old # k
    <3>1. Held(k)' = Held(k)
      BY <2>2, <2>3, <2>5 DEF One
    <3>2. ref_count'[k] = ref_count[k] /\ gc'[k] = gc[k] /\ (k \in stored' => k \in stored)
      BY <2>1, <2>5, ReleasedTyped DEF Released
    <3> QED
      BY <2>2, <3>1, <3>2, SameHold
  <2> QED
    BY <2>4, <2>5
<1>8. ASSUME B!ClearPointer(w) PROVE Fair(k)
  <2>1. /\ Turn(w, r.slot, "idle", B!NoRequest, NoFile) /\ blob_pc[w] = "clear"
        /\ UNCHANGED Counters
    BY <1>0, <1>8, ClearTurns
  <2>2. /\ Held(k) \in Nat /\ Held(k)' \in Nat
        /\ Held(k)' + (One(pointer[r.slot] = k /\ blob_pc[w] # "clear")
                       + One(Brings(w, k)) + One(Leaves(w, k)))
           = Held(k) + (One(NoFile = k /\ "idle" # "clear")
                        + One("idle" \in {"read", "point", "rollback"} /\ B!NoRequest.key = k)
                        + One("idle" = "drop" /\ B!NoRequest.old = k))
    BY <1>0, <1>a, <2>1, Balance, Stations
  <2>3. Held(k)' = Held(k)
    BY <1>0, <2>1, <2>2 DEF One, Brings, Leaves
  <2> QED
    BY <1>s, <2>1, <2>2, <2>3, SameHold
<1> QED
  BY <1>1, <1>2, <1>3, <1>4, <1>5, <1>6, <1>7, <1>8 DEF WorkerStep, B!Step


(* Nothing but the slots and the requests says what is held.               *)
LEMMA HeldIsNat == \A k : Held(k) \in Nat
<1> TAKE k
<1>1. /\ Pointing(k) \in SUBSET Slot /\ Bringing(k) \in SUBSET Worker
      /\ Leaving(k) \in SUBSET Worker
  BY DEF Pointing, Bringing, Leaving
<1>2. \A T : \A S \in SUBSET T : IsFiniteSet(T) => Cardinality(S) \in Nat
  BY FS_Subset, FS_CardinalityType
<1>3. /\ Cardinality(Pointing(k)) \in Nat /\ Cardinality(Bringing(k)) \in Nat
      /\ Cardinality(Leaving(k)) \in Nat
  BY <1>1, <1>2, BlobFacts
<1> QED
  BY <1>3 DEF Held

LEMMA HeldStays ==
    ASSUME UNCHANGED Requests, NEW k
    PROVE  Held(k)' = Held(k)
<1>1. /\ Pointing(k)' = Pointing(k) /\ Bringing(k)' = Bringing(k)
      /\ Leaving(k)' = Leaving(k)
  BY DEF Requests, Pointing, PointsTo, BeingCleared, Bringing, Brings, Leaving, Leaves
<1> QED
  BY <1>1 DEF Held

LEMMA PointedIsHeld ==
    ASSUME NEW k, NEW s \in Slot, pointer[s] = k, \A w \in Worker : blob_pc[w] # "clear"
    PROVE  Held(k) > 0
<1>1. s \in Pointing(k)
  BY DEF Pointing, PointsTo, BeingCleared
<1>2. /\ Pointing(k) \in SUBSET Slot /\ Bringing(k) \in SUBSET Worker
      /\ Leaving(k) \in SUBSET Worker
  BY DEF Pointing, Bringing, Leaving
<1>3. \A T : \A S \in SUBSET T : IsFiniteSet(T) =>
        Cardinality(S) \in Nat /\ (S # {} => Cardinality(S) # 0)
  BY FS_Subset, FS_CardinalityType, FS_EmptySet
<1>4. /\ Cardinality(Pointing(k)) \in Nat /\ Cardinality(Bringing(k)) \in Nat
      /\ Cardinality(Leaving(k)) \in Nat /\ Cardinality(Pointing(k)) # 0
  BY <1>1, <1>2, <1>3, BlobFacts
<1> QED
  BY <1>4 DEF Held

LEMMA JobIsFair ==
    ASSUME BlobTyped, NEW i \in File, Works(i), NEW k \in File
    PROVE  Fair(k)
<1>1. Held(k) \in Nat /\ Held(k)' = Held(k)
  BY HeldIsNat, HeldStays DEF Works
<1>2. CASE k # i
  <2>1. ref_count'[k] = ref_count[k] /\ gc'[k] = gc[k] /\ (k \in stored' => k \in stored)
    BY <1>2 DEF Works
  <2> QED
    BY <1>1, <2>1, SameHold
<1>3. CASE k = i
  <2>1. /\ ref_count[k] \in Nat /\ ref_count'[k] \in Nat /\ ref_count'[k] <= ref_count[k]
        /\ k \in stored' => \/ ref_count'[k] > 0
                            \/ \E g \in B!Stage : gc'[k][g] > 0
                            \/ \E s \in Slot : pointer[s] = k
    BY <1>3 DEF Works, BlobTyped, B!TypeOK
  <2>2. ref_count[k] <= Held(k) => ref_count'[k] <= Held(k)'
    BY <1>1, <2>1
  <2>3. ASSUME "remove" \notin blob_world.requests, k \in stored', ref_count[k] <= Held(k)
        PROVE  Wanted(k)'
    <3>1. \A w \in Worker : blob_pc[w] # "clear"
      BY <2>3 DEF BlobTyped, Carries
    <3>2. CASE ref_count'[k] > 0
      BY <1>1, <2>1, <2>3, <3>2 DEF Wanted
    <3>3. CASE \E g \in B!Stage : gc'[k][g] > 0
      BY <3>3 DEF Wanted
    <3>4. CASE \E s \in Slot : pointer[s] = k
      BY <1>1, <3>1, <3>4, PointedIsHeld DEF Wanted
    <3> QED
      BY <2>1, <2>3, <3>2, <3>3, <3>4
  <2> QED
    BY <2>2, <2>3 DEF Fair
<1> QED
  BY <1>2, <1>3

BlobInv == BlobTyped /\ Orderly /\ HeldCounts /\ AllWanted

LEMMA BlobInitially ==
    ASSUME B!Init, blob_world \in BlobWorlds
    PROVE  BlobInv
<1>1. BlobTyped
  <2>1. B!TypeOK
    BY BlobFacts, NothingTyped DEF B!Init, B!TypeOK, BlobRequest, B!Control
  <2>2. \A w \in Worker : blob_pc[w] = "idle"
    BY DEF B!Init
  <2> QED
    BY <2>1, <2>2 DEF BlobTyped, B!Init, Carries, B!PointersServed
<1>2. Orderly
  BY DEF B!Init, Orderly, AtWork, Aware
<1>3. HeldCounts
  <2>1. \A k \in File : ref_count[k] = 0 /\ Held(k) \in Nat
    BY HeldIsNat DEF B!Init
  <2> QED
    BY <2>1 DEF HeldCounts
<1>4. AllWanted
  BY DEF B!Init, AllWanted
<1> QED
  BY <1>1, <1>2, <1>3, <1>4 DEF BlobInv

LEMMA FairKeepsCounts ==
    ASSUME BlobInv, blob_world' = blob_world, BlobTyped', InTurn => \A k \in File : Fair(k)
    PROVE  HeldCounts' /\ AllWanted'
<1>1. HeldCounts'
  BY DEF BlobInv, HeldCounts, InTurn, Fair
<1>2. AllWanted'
  <2> SUFFICES ASSUME blob_world.disturbance = {}, "remove" \notin blob_world.requests,
                      NEW k \in stored'
               PROVE  Wanted(k)'
    BY DEF AllWanted
  <2>1. k \in File /\ InTurn /\ "pointer_error" \notin blob_world.disturbance
    BY DEF BlobTyped, B!TypeOK, InTurn
  <2>2. ref_count[k] <= Held(k) /\ (k \in stored => Wanted(k))
    BY <2>1 DEF BlobInv, HeldCounts, AllWanted
  <2> QED
    BY <2>1, <2>2 DEF Fair
<1> QED
  BY <1>1, <1>2

LEMMA BlobNext ==
    ASSUME BlobInv, B!Next
    PROVE  BlobInv'
<1>0. BlobTyped /\ Orderly /\ blob_world' = blob_world /\ B!TypeOK
  BY WorldStays DEF BlobInv, BlobTyped
<1>1. ASSUME NEW w \in Worker, WorkerStep(w) PROVE BlobInv'
  <2>1. BlobTyped'
    BY <1>0, <1>1, StepKeepsTypes
  <2>2. Orderly'
    BY <1>0, <1>1, StepKeepsOrder DEF Orderly
  <2>3. InTurn => \A k \in File : Fair(k)
    BY <1>0, <1>1, StepIsFair
  <2> QED
    BY <1>0, <2>1, <2>2, <2>3, FairKeepsCounts DEF BlobInv
<1>2. ASSUME NEW i \in File, B!Job(i) PROVE BlobInv'
  <2>0. Works(i)
    BY <1>0, <1>2, JobWorks
  <2>1. BlobTyped'
    BY <1>0, <2>0, JobKeepsTypes
  <2>2. Orderly'
    BY <1>0, <2>0 DEF Orderly, Works, Requests, AtWork, Aware
  <2>3. InTurn => \A k \in File : Fair(k)
    BY <1>0, <2>0, JobIsFair
  <2> QED
    BY <1>0, <2>1, <2>2, <2>3, FairKeepsCounts DEF BlobInv
<1> QED
  BY <1>1, <1>2 DEF B!Next, WorkerStep

LEMMA BlobStutters ==
    ASSUME BlobInv, UNCHANGED blobVars
    PROVE  BlobInv'
<1>1. UNCHANGED Requests /\ UNCHANGED <<blob_world, stored, ref_count, gc>>
  BY DEF blobVars, Requests
<1>2. BlobTyped'
  BY <1>1 DEF BlobInv, BlobTyped, B!TypeOK, Carries, B!PointersServed, Requests
<1>3. Orderly'
  BY <1>1 DEF BlobInv, Orderly, AtWork, Aware, Requests
<1>4. \A k \in File : Held(k)' = Held(k)
  BY <1>1, HeldStays
<1>5. HeldCounts' /\ AllWanted'
  <2>1. stored \subseteq File
    BY DEF BlobInv, BlobTyped, B!TypeOK
  <2> QED
    BY <1>1, <1>4, <2>1 DEF BlobInv, HeldCounts, AllWanted, Wanted, InTurn
<1> QED
  BY <1>2, <1>3, <1>5 DEF BlobInv

(* What the run checks of the pointers.                                    *)
LEMMA BlobGives ==
    ASSUME BlobInv
    PROVE  B!TypeOK /\ B!PointersServed /\ B!NoOrphan /\ B!Reclaimed
<1>1. B!TypeOK /\ B!PointersServed
  BY DEF BlobInv, BlobTyped
<1>2. \A k \in File : Held(k) <= B!Due(k) /\ B!Due(k) \in Nat
  <2> TAKE k \in File
  <2> DEFINE P == {s \in Slot : pointer[s] = k}
  <2>1. Pointing(k) \in SUBSET P /\ P \in SUBSET Slot
    BY DEF Pointing, PointsTo
  <2>2. IsFiniteSet(P) /\ Cardinality(Pointing(k)) <= Cardinality(P)
    BY <2>1, BlobFacts, FS_Subset
  <2>3. IsFiniteSet(Pointing(k)) /\ IsFiniteSet(Bringing(k)) /\ IsFiniteSet(Leaving(k))
    BY <2>1, <2>2, BlobFacts, FS_Subset DEF Bringing, Leaving
  <2>4. /\ Cardinality(P) \in Nat /\ Cardinality(Pointing(k)) \in Nat
        /\ Cardinality(Bringing(k)) \in Nat /\ Cardinality(Leaving(k)) \in Nat
    BY <2>2, <2>3, FS_CardinalityType
  <2>5. \A S : B!Cardinality(S) = Cardinality(S)
    BY DEF B!Cardinality, Cardinality
  <2>6. B!Due(k) = Cardinality(P) + Cardinality(Bringing(k)) + Cardinality(Leaving(k))
    BY <2>5 DEF B!Due, Bringing, Brings, Leaving, Leaves
  <2> HIDE DEF P
  <2> QED
    BY <2>2, <2>4, <2>6 DEF Held
<1>3. B!NoOrphan
  <2> SUFFICES ASSUME blob_world.thumbnails,
                      blob_world.disturbance \cap {"overlap", "reupload"} = {},
                      NEW k \in File
               PROVE  ref_count[k] <= B!Due(k)
    BY DEF B!NoOrphan
  <2>1. ref_count[k] <= Held(k)
    BY DEF BlobInv, HeldCounts, InTurn
  <2>2. ref_count[k] \in Nat /\ Held(k) \in Nat /\ B!Due(k) \in Int
    BY <1>1, <1>2, HeldIsNat DEF B!TypeOK
  <2> QED
    BY <1>2, <2>1, <2>2
<1>4. B!Reclaimed
  <2> SUFFICES ASSUME blob_world.disturbance = {}, "remove" \notin blob_world.requests,
                      B!Quiet, NEW k \in stored
               PROVE  \E s \in Slot : pointer[s] = k
    BY DEF B!Reclaimed, B!StoredIsUsed
  <2>1. k \in File /\ \A g \in B!Stage : gc[k][g] = 0
    <3>1. k \in File /\ gc[k] \in [B!Stage -> Nat] /\ B!Outstanding(k) = 0
      BY <1>1 DEF B!TypeOK, B!Quiet
    <3>2. /\ gc[k]["decrement"] \in Nat /\ gc[k]["storage"] \in Nat /\ gc[k]["row"] \in Nat
          /\ gc[k]["decrement"] + gc[k]["storage"] + gc[k]["row"] = 0
      BY <3>1 DEF B!Stage, B!Outstanding
    <3> QED
      BY <3>1, <3>2 DEF B!Stage
  <2>2. Held(k) > 0
    BY <1>1, <2>1 DEF BlobInv, AllWanted, Wanted, B!TypeOK, B!Stage
  <2>3. Bringing(k) = {} /\ Leaving(k) = {}
    BY DEF B!Quiet, Bringing, Brings, Leaving, Leaves
  <2>4. Pointing(k) # {}
    BY <2>2, <2>3, FS_EmptySet DEF Held
  <2> QED
    BY <2>4 DEF Pointing, PointsTo
<1> QED
  BY <1>1, <1>3, <1>4


-----------------------------------------------------------------------------
(* The site's own images.                                                  *)

LEMMA SiteFacts ==
    /\ MaxRef \in Nat /\ NoImage \notin Image
    /\ I!Cardinality(Worker) \in Nat
<1>1. I!Cardinality(Worker) = Cardinality(Worker)
  BY DEF I!Cardinality, Cardinality
<1> QED
  BY <1>1, SiteImageConstants, BlobFacts, FS_CardinalityType DEF I!SiteConstants

SiteRequest == [new: Image \cup {NoImage}, old: Image \cup {NoImage}]
SiteStage == {"idle", "get", "set", "insert", "release", "delete"}

(* A file without a row has no references, and a request knows the image   *)
(* it brings or gives back.                                                *)
SiteTyped ==
    /\ site_world \in SiteWorlds
    /\ site_image \in Image \cup {NoImage} /\ site_config_cache \in Image \cup {NoImage}
    /\ files \subseteq Image /\ refs \in [Image -> 0 .. MaxRef]
    /\ site_pc \in [Worker -> SiteStage] /\ site_req \in [Worker -> SiteRequest]
    /\ \A i \in Image \ files : refs[i] = 0
    /\ \A w \in Worker :
        /\ site_pc[w] = "get" => site_req[w].new \in Image
        /\ site_pc[w] \in {"release", "delete"} =>
             site_req[w].old \in Image /\ site_req[w].old # site_req[w].new

(* Without overlap one request is at work at a time.                       *)
OneAtATime ==
    I!May("overlap")
    \/ \A v, w \in Worker : site_pc[v] # "idle" /\ site_pc[w] # "idle" => v = w

(* While images are only uploaded, one after the other: the row's image    *)
(* and the copy's are stored, and so is the one on its way; the old one is *)
(* given back when neither the row nor the copy names it.                  *)
Uploaded(w) ==
    /\ site_pc[w] # "idle" => site_req[w].new \in files
    /\ site_pc[w] \in {"insert", "release", "delete"} => site_image = site_req[w].new
    /\ site_pc[w] \in {"release", "delete"} => site_config_cache = site_req[w].new

ShownKept ==
    ~I!Asked("clear") /\ ~I!May("overlap") =>
        /\ site_config_cache \in files \cup {NoImage} /\ site_image \in files \cup {NoImage}
        /\ \A w \in Worker : Uploaded(w)

(* When nothing fails either, what the row, the copy and the files are at  *)
(* each point of the one request.                                          *)
Agreed(w) ==
    LET r == site_req[w] IN
    /\ site_pc[w] \in {"get", "set", "insert"} /\ r.new # NoImage =>
         /\ r.new \in files
         /\ ~I!May("again") => files \subseteq {site_config_cache, r.new}
    /\ site_pc[w] = "get" => r.new # NoImage
    /\ site_pc[w] \in {"get", "set"} => site_config_cache = site_image
    /\ site_pc[w] = "set" => r.old = site_image
    /\ site_pc[w] \in {"set", "insert"} /\ r.new = NoImage /\ ~I!May("again") => files = {}
    /\ site_pc[w] = "insert" => site_image = r.new /\ site_config_cache = r.old
    /\ site_pc[w] \in {"release", "delete"} =>
         /\ site_config_cache = site_image /\ site_image \in files
         /\ site_image = IF r.new = NoImage THEN r.old ELSE r.new
         /\ ~I!May("again") => files \subseteq {r.old, r.new}

AllAgreed ==
    site_world.events \subseteq {"again"} =>
        /\ ~I!May("again") => \A i \in Image : refs[i] <= 1
        /\ I!SiteQuiet => /\ site_config_cache = site_image
                          /\ site_image \in files \cup {NoImage}
                          /\ ~I!May("again") => files \subseteq {site_image}
        /\ \A w \in Worker : Agreed(w)

SiteInv == SiteTyped /\ OneAtATime /\ ShownKept /\ AllAgreed

LEMMA SiteInitially ==
    ASSUME I!Init
    PROVE  SiteInv
  BY SiteFacts DEF I!Init, I!Nothing, SiteInv, SiteTyped, SiteRequest, SiteStage, OneAtATime,
     ShownKept, Uploaded, AllAgreed, Agreed

(* A step of w: the others stay where they are.                            *)
Moves(w, label, r) ==
    /\ site_pc' = [site_pc EXCEPT ![w] = label]
    /\ site_req' = [site_req EXCEPT ![w] = r]
    /\ site_world' = site_world

LEMMA Moved ==
    ASSUME SiteTyped, NEW w \in Worker, NEW label \in SiteStage, NEW r \in SiteRequest,
           Moves(w, label, r)
    PROVE  /\ site_pc' \in [Worker -> SiteStage] /\ site_req' \in [Worker -> SiteRequest]
           /\ site_pc'[w] = label /\ site_req'[w] = r /\ site_world' = site_world
           /\ \A v \in Worker \ {w} : site_pc'[v] = site_pc[v] /\ site_req'[v] = site_req[v]
           /\ \A event : I!May(event)' <=> I!May(event)
           /\ \A kind : I!Asked(kind)' <=> I!Asked(kind)
  BY DEF SiteTyped, Moves, I!May, I!Asked

(* Without overlap the others are idle when w is at work or may begin.     *)
Lone(w) == I!May("overlap") \/ \A v \in Worker \ {w} : site_pc[v] = "idle"

LEMMA IsLone ==
    ASSUME SiteInv, NEW w \in Worker, site_pc[w] # "idle" \/ I!Idle(w)
    PROVE  Lone(w)
  BY DEF SiteInv, OneAtATime, Lone, I!Idle

(* What has to be shown of a step of w for the invariant to hold again.    *)
LEMMA MovesKeep ==
    ASSUME SiteInv, NEW w \in Worker, NEW label \in SiteStage, NEW r \in SiteRequest,
           Moves(w, label, r), Lone(w),
           site_image' \in Image \cup {NoImage}, site_config_cache' \in Image \cup {NoImage},
           files' \subseteq Image, refs' \in [Image -> 0 .. MaxRef],
           \A i \in Image \ files' : refs'[i] = 0,
           label = "get" => r.new \in Image,
           label \in {"release", "delete"} => r.old \in Image /\ r.old # r.new,
           ~I!Asked("clear") /\ ~I!May("overlap") =>
              /\ site_config_cache' \in files' \cup {NoImage}
              /\ site_image' \in files' \cup {NoImage}
              /\ Uploaded(w)',
           site_world.events \subseteq {"again"} =>
              /\ ~I!May("again") => \A i \in Image : refs'[i] <= 1
              /\ label = "idle" => /\ site_config_cache' = site_image'
                                   /\ site_image' \in files' \cup {NoImage}
                                   /\ ~I!May("again") => files' \subseteq {site_image'}
              /\ Agreed(w)'
    PROVE  SiteInv'
<1>1. /\ site_pc' \in [Worker -> SiteStage] /\ site_req' \in [Worker -> SiteRequest]
      /\ site_pc'[w] = label /\ site_req'[w] = r /\ site_world' = site_world
      /\ \A v \in Worker \ {w} : site_pc'[v] = site_pc[v] /\ site_req'[v] = site_req[v]
      /\ \A event : I!May(event)' <=> I!May(event)
      /\ \A kind : I!Asked(kind)' <=> I!Asked(kind)
  BY Moved DEF SiteInv
<1>2. SiteTyped'
  BY <1>1 DEF SiteInv, SiteTyped
<1>3. OneAtATime'
  BY <1>1 DEF SiteInv, OneAtATime, Lone, I!May
<1>o. site_world.events \subseteq {"again"} => ~I!May("overlap")
  BY DEF I!May
<1>4. ShownKept'
  BY <1>1 DEF ShownKept, Uploaded, Lone, I!May, I!Asked
<1>5. AllAgreed'
  BY <1>1, <1>o DEF AllAgreed, Agreed, Lone, I!May, I!SiteQuiet
<1> QED
  BY <1>2, <1>3, <1>4, <1>5 DEF SiteInv


LEMMA SiteUploads ==
    ASSUME SiteInv, NEW w \in Worker, NEW i \in Image, I!Upload(w, i)
    PROVE  SiteInv'
<1> DEFINE r == [new |-> i, old |-> NoImage]
<1>1. Moves(w, "get", r) /\ r \in SiteRequest /\ "get" \in SiteStage /\ r.new = i
  BY DEF I!Upload, I!Goto, Moves, SiteRequest, SiteStage
<1>2. Lone(w)
  BY IsLone DEF I!Upload
<1>t. SiteTyped
  BY DEF SiteInv
<1>3. /\ site_pc'[w] = "get" /\ site_req'[w] = r
      /\ \A event : I!May(event)' <=> I!May(event)
  BY <1>t, <1>1, Moved
<1>4. /\ UNCHANGED <<site_image, site_config_cache>> /\ files' = files \cup {i}
      /\ refs' = [refs EXCEPT ![i] = refs[i] + 1] /\ refs[i] < MaxRef
      /\ i # site_image \/ I!May("again")
  BY DEF I!Upload, I!UpsertAndRef
<1>5. /\ files' \subseteq Image /\ refs' \in [Image -> 0 .. MaxRef]
      /\ \A x \in Image \ files' : refs'[x] = 0
      /\ refs'[i] = refs[i] + 1 /\ \A x \in Image \ {i} : refs'[x] = refs[x]
  BY <1>t, <1>4, SiteFacts DEF SiteTyped
<1>6. ~I!Asked("clear") /\ ~I!May("overlap") =>
        /\ site_config_cache' \in files' \cup {NoImage}
        /\ site_image' \in files' \cup {NoImage}
        /\ Uploaded(w)'
  BY <1>1, <1>3, <1>4 DEF SiteInv, ShownKept, Uploaded
<1> HIDE DEF r
<1>7. ASSUME site_world.events \subseteq {"again"}
      PROVE  /\ ~I!May("again") => \A x \in Image : refs'[x] <= 1
             /\ Agreed(w)'
  <2>1. \A v \in Worker : site_pc[v] = "idle"
    BY <1>2, <1>7 DEF I!Upload, I!Idle, I!May
  <2>2. /\ site_config_cache = site_image
        /\ ~I!May("again") => files \subseteq {site_image}
        /\ ~I!May("again") => \A x \in Image : refs[x] <= 1
    BY <1>7, <2>1 DEF SiteInv, AllAgreed, I!SiteQuiet
  <2>3. ~I!May("again") => refs[i] = 0
    BY <1>t, <1>4, <2>2 DEF SiteTyped
  <2>4. ~I!May("again") => \A x \in Image : refs'[x] <= 1
    BY <1>5, <2>2, <2>3
  <2>5. i # NoImage
    BY SiteFacts
  <2> QED
    BY <1>1, <1>3, <1>4, <2>2, <2>4, <2>5 DEF Agreed
<1> QED
  BY <1>1, <1>2, <1>t, <1>4, <1>5, <1>6, <1>7, MovesKeep DEF SiteTyped

LEMMA SiteGets ==
    ASSUME SiteInv, NEW w \in Worker, I!Get(w)
    PROVE  SiteInv'
<1> DEFINE r == [site_req[w] EXCEPT !.old = site_image]
<1>t. SiteTyped
  BY DEF SiteInv
<1>1. /\ Moves(w, "set", r) /\ r \in SiteRequest /\ "set" \in SiteStage
      /\ r.new = site_req[w].new /\ r.old = site_image /\ site_pc[w] = "get"
      /\ UNCHANGED <<site_image, site_config_cache, files, refs>>
  BY <1>t DEF I!Get, I!Goto, Moves, SiteTyped, SiteRequest, SiteStage
<1> HIDE DEF r
<1>2. Lone(w)
  BY <1>1, IsLone
<1>3. /\ site_pc'[w] = "set" /\ site_req'[w] = r
      /\ \A event : I!May(event)' <=> I!May(event)
  BY <1>t, <1>1, Moved
<1>4. ~I!Asked("clear") /\ ~I!May("overlap") =>
        /\ site_config_cache' \in files' \cup {NoImage}
        /\ site_image' \in files' \cup {NoImage}
        /\ Uploaded(w)'
  BY <1>1, <1>3 DEF SiteInv, ShownKept, Uploaded
<1>5. site_world.events \subseteq {"again"} =>
        /\ ~I!May("again") => \A x \in Image : refs'[x] <= 1
        /\ Agreed(w)'
  BY <1>1, <1>3 DEF SiteInv, AllAgreed, Agreed
<1> QED
  BY <1>1, <1>2, <1>t, <1>4, <1>5, MovesKeep DEF SiteTyped

LEMMA SiteSets ==
    ASSUME SiteInv, NEW w \in Worker, I!Set(w)
    PROVE  SiteInv'
<1> DEFINE r == site_req[w]
<1>t. SiteTyped
  BY DEF SiteInv
<1>1. /\ Moves(w, "insert", r) /\ r \in SiteRequest /\ "insert" \in SiteStage
      /\ site_pc[w] = "set" /\ site_image' = r.new
      /\ UNCHANGED <<site_config_cache, files, refs>>
  BY <1>t DEF I!Set, I!Step, I!Goto, Moves, SiteTyped, SiteRequest, SiteStage
<1>2. Lone(w)
  BY <1>1, IsLone
<1>3. /\ site_pc'[w] = "insert" /\ site_req'[w] = r
      /\ \A event : I!May(event)' <=> I!May(event)
  BY <1>t, <1>1, Moved
<1>4. ~I!Asked("clear") /\ ~I!May("overlap") =>
        /\ site_config_cache' \in files' \cup {NoImage}
        /\ site_image' \in files' \cup {NoImage}
        /\ Uploaded(w)'
  BY <1>1, <1>3 DEF SiteInv, ShownKept, Uploaded
<1>5. site_world.events \subseteq {"again"} =>
        /\ ~I!May("again") => \A x \in Image : refs'[x] <= 1
        /\ Agreed(w)'
  BY <1>1, <1>3 DEF SiteInv, AllAgreed, Agreed
<1>6. r.new \in Image \cup {NoImage}
  BY <1>1 DEF SiteRequest
<1> HIDE DEF r
<1> QED
  BY <1>1, <1>2, <1>t, <1>4, <1>5, <1>6, MovesKeep DEF SiteTyped

LEMMA NothingAsked == I!Nothing \in SiteRequest /\ "idle" \in SiteStage
                      /\ "release" \in SiteStage /\ "delete" \in SiteStage /\ "set" \in SiteStage
  BY DEF I!Nothing, SiteRequest, SiteStage

LEMMA SiteInserts ==
    ASSUME SiteInv, NEW w \in Worker, I!Insert(w)
    PROVE  SiteInv'
<1> DEFINE r == site_req[w]
<1>t. SiteTyped
  BY DEF SiteInv
<1>1. /\ site_pc[w] = "insert" /\ r \in SiteRequest /\ site_config_cache' = r.new
      /\ UNCHANGED <<site_image, files, refs>>
      /\ r.new \in Image \cup {NoImage} /\ r.old \in Image \cup {NoImage}
  BY <1>t DEF I!Insert, SiteTyped, SiteRequest
<1>2. Lone(w)
  BY <1>1, IsLone
<1>s. /\ ~I!Asked("clear") /\ ~I!May("overlap") =>
           site_image \in files \cup {NoImage} /\ r.new \in files /\ site_image = r.new
      /\ site_world.events \subseteq {"again"} =>
           /\ ~I!May("again") => \A x \in Image : refs[x] <= 1
           /\ site_image = r.new /\ site_config_cache = r.old
           /\ r.new # NoImage => /\ r.new \in files
                                 /\ ~I!May("again") => files \subseteq {r.old, r.new}
           /\ r.new = NoImage /\ ~I!May("again") => files = {}
  BY <1>1 DEF SiteInv, ShownKept, Uploaded, AllAgreed, Agreed
<1> HIDE DEF r
<1>3. CASE Moves(w, "idle", I!Nothing) /\ (r.new = NoImage \/ r.old \in {NoImage, r.new})
  <2>1. /\ site_pc'[w] = "idle" /\ \A event : I!May(event)' <=> I!May(event)
    BY <1>t, <1>3, Moved, NothingAsked
  <2>2. Uploaded(w)' /\ Agreed(w)'
    BY <2>1 DEF Uploaded, Agreed
  <2>f. files \subseteq Image /\ NoImage \notin Image
    BY <1>t, SiteFacts DEF SiteTyped
  <2>3. site_world.events \subseteq {"again"} /\ ~I!May("again") => files \subseteq {r.new}
    BY <1>3, <1>s, <2>f
  <2>4. site_world.events \subseteq {"again"} => r.new \in files \cup {NoImage}
    BY <1>s
  <2> QED
    BY <1>1, <1>2, <1>3, <1>s, <1>t, <2>2, <2>3, <2>4, MovesKeep, NothingAsked DEF SiteTyped
<1>4. CASE Moves(w, "release", r) /\ r.new # NoImage /\ r.old \notin {NoImage, r.new}
  <2>1. /\ site_pc'[w] = "release" /\ site_req'[w] = r
        /\ \A event : I!May(event)' <=> I!May(event)
    BY <1>t, <1>1, <1>4, Moved, NothingAsked
  <2>2. /\ ~I!Asked("clear") /\ ~I!May("overlap") => Uploaded(w)'
        /\ site_world.events \subseteq {"again"} => Agreed(w)'
    BY <1>1, <1>4, <1>s, <2>1 DEF Uploaded, Agreed
  <2> QED
    BY <1>1, <1>2, <1>4, <1>s, <1>t, <2>2, MovesKeep, NothingAsked DEF SiteTyped
<1> QED
  BY <1>3, <1>4 DEF I!Insert, I!Finish, I!Goto, Moves, r


LEMMA SiteReleases ==
    ASSUME SiteInv, NEW w \in Worker, I!Release(w)
    PROVE  SiteInv'
<1> DEFINE r == site_req[w]
           n == IF refs[r.old] > 0 THEN refs[r.old] - 1 ELSE 0
<1>t. SiteTyped
  BY DEF SiteInv
<1>1. /\ site_pc[w] = "release" /\ r \in SiteRequest /\ r.old \in Image /\ r.old # r.new
      /\ refs' = [refs EXCEPT ![r.old] = n] /\ r.new \in Image \cup {NoImage}
      /\ UNCHANGED <<site_image, site_config_cache, files>>
  BY <1>t DEF I!Release, SiteTyped, SiteRequest
<1>2. Lone(w)
  BY <1>1, IsLone
<1>n. refs[r.old] \in 0 .. MaxRef /\ n \in 0 .. MaxRef /\ n <= refs[r.old]
      /\ (refs[r.old] <= 1 => n = 0)
  BY <1>t, <1>1, SiteFacts DEF SiteTyped
<1>m. \/ n = 0 /\ Moves(w, "delete", r)
      \/ n # 0 /\ r.new = NoImage /\ Moves(w, "set", r)
      \/ n # 0 /\ r.new # NoImage /\ Moves(w, "idle", I!Nothing)
  <2>1. refs'[r.old] = n
    BY <1>t, <1>1 DEF SiteTyped
  <2> QED
    BY <2>1 DEF I!Release, I!Goto, I!Finish, Moves
<1>s. /\ ~I!Asked("clear") /\ ~I!May("overlap") =>
           /\ site_image \in files \cup {NoImage} /\ r.new \in files
           /\ site_image = r.new /\ site_config_cache = r.new
      /\ site_world.events \subseteq {"again"} =>
           /\ ~I!May("again") => \A x \in Image : refs[x] <= 1
           /\ site_config_cache = site_image /\ site_image \in files
           /\ site_image = IF r.new = NoImage THEN r.old ELSE r.new
           /\ ~I!May("again") => files \subseteq {r.old, r.new}
  BY <1>1 DEF SiteInv, ShownKept, Uploaded, AllAgreed, Agreed
<1> HIDE DEF r, n
<1>r. /\ refs' \in [Image -> 0 .. MaxRef] /\ \A x \in Image : refs'[x] <= refs[x]
      /\ \A x \in Image \ files' : refs'[x] = 0
  <2>1. /\ refs' \in [Image -> 0 .. MaxRef] /\ refs'[r.old] = n
        /\ \A x \in Image \ {r.old} : refs'[x] = refs[x]
    BY <1>t, <1>1, <1>n DEF SiteTyped
  <2>2. \A x \in Image : refs[x] \in 0 .. MaxRef
    BY <1>t DEF SiteTyped
  <2>3. r.old \notin files => n = 0
    BY <1>t, <1>1, <1>n DEF SiteTyped
  <2> QED
    BY <1>t, <1>1, <1>n, <2>1, <2>2, <2>3, SiteFacts DEF SiteTyped
<1>a. site_world.events \subseteq {"again"} /\ ~I!May("again") =>
        n = 0 /\ \A x \in Image : refs'[x] <= 1
  <2>1. \A x \in Image : refs[x] \in 0 .. MaxRef /\ refs'[x] \in 0 .. MaxRef
    BY <1>t, <1>r DEF SiteTyped
  <2> QED
    BY <1>1, <1>n, <1>s, <1>r, <2>1, SiteFacts
<1>f. NoImage \notin files
  BY <1>t, SiteFacts DEF SiteTyped
<1>3. CASE n = 0 /\ Moves(w, "delete", r)
  <2>1. /\ site_pc'[w] = "delete" /\ site_req'[w] = r
        /\ \A event : I!May(event)' <=> I!May(event)
    BY <1>t, <1>1, <1>3, Moved, NothingAsked
  <2>2. /\ ~I!Asked("clear") /\ ~I!May("overlap") => Uploaded(w)'
        /\ site_world.events \subseteq {"again"} => Agreed(w)'
    BY <1>1, <1>s, <2>1 DEF Uploaded, Agreed
  <2> QED
    BY <1>1, <1>2, <1>3, <1>s, <1>t, <1>r, <1>a, <2>2, MovesKeep, NothingAsked DEF SiteTyped
<1>4. CASE n # 0 /\ r.new = NoImage /\ Moves(w, "set", r)
  <2>1. /\ site_pc'[w] = "set" /\ site_req'[w] = r
        /\ \A event : I!May(event)' <=> I!May(event)
    BY <1>t, <1>1, <1>4, Moved, NothingAsked
  <2>2. /\ ~I!Asked("clear") /\ ~I!May("overlap") => Uploaded(w)'
        /\ site_world.events \subseteq {"again"} => Agreed(w)'
    BY <1>1, <1>4, <1>s, <1>a, <1>f, <2>1 DEF Uploaded, Agreed
  <2> QED
    BY <1>1, <1>2, <1>4, <1>s, <1>t, <1>r, <1>a, <2>2, MovesKeep, NothingAsked DEF SiteTyped
<1>5. CASE n # 0 /\ r.new # NoImage /\ Moves(w, "idle", I!Nothing)
  <2>1. /\ site_pc'[w] = "idle" /\ \A event : I!May(event)' <=> I!May(event)
    BY <1>t, <1>5, Moved, NothingAsked
  <2>2. Uploaded(w)' /\ Agreed(w)'
    BY <2>1 DEF Uploaded, Agreed
  <2>3. site_world.events \subseteq {"again"} =>
          I!May("again") /\ site_config_cache = site_image /\ site_image \in files
    BY <1>5, <1>s, <1>a
  <2> QED
    BY <1>1, <1>2, <1>5, <1>s, <1>t, <1>r, <2>2, <2>3, MovesKeep, NothingAsked DEF SiteTyped
<1> QED
  BY <1>m, <1>3, <1>4, <1>5

LEMMA SiteDeletes ==
    ASSUME SiteInv, NEW w \in Worker, I!DeleteByKey(w)
    PROVE  SiteInv'
<1> DEFINE r == site_req[w]
<1>t. SiteTyped
  BY DEF SiteInv
<1>1. /\ site_pc[w] = "delete" /\ r \in SiteRequest /\ r.old \in Image /\ r.old # r.new
      /\ r.new \in Image \cup {NoImage} /\ UNCHANGED <<site_image, site_config_cache>>
      /\ \/ files' = files \ {r.old} /\ refs' = [refs EXCEPT ![r.old] = 0]
         \/ I!May("db_error") /\ UNCHANGED <<files, refs>>
      /\ \/ r.new = NoImage /\ Moves(w, "set", r)
         \/ r.new # NoImage /\ Moves(w, "idle", I!Nothing)
  BY <1>t DEF I!DeleteByKey, SiteTyped, SiteRequest, I!Goto, I!Finish, Moves
<1>2. Lone(w)
  BY <1>1, IsLone
<1>s. /\ ~I!Asked("clear") /\ ~I!May("overlap") =>
           /\ site_image \in files \cup {NoImage} /\ r.new \in files
           /\ site_image = r.new /\ site_config_cache = r.new
      /\ site_world.events \subseteq {"again"} =>
           /\ ~I!May("again") => \A x \in Image : refs[x] <= 1
           /\ site_config_cache = site_image /\ site_image \in files
           /\ site_image = IF r.new = NoImage THEN r.old ELSE r.new
           /\ ~I!May("again") => files \subseteq {r.old, r.new}
  BY <1>1 DEF SiteInv, ShownKept, Uploaded, AllAgreed, Agreed
<1> HIDE DEF r
<1>r. /\ refs' \in [Image -> 0 .. MaxRef] /\ \A x \in Image : refs'[x] <= refs[x]
      /\ files' \subseteq Image /\ \A x \in Image \ files' : refs'[x] = 0
  BY <1>t, <1>1, SiteFacts DEF SiteTyped
<1>f. NoImage \notin files
  BY <1>t, SiteFacts DEF SiteTyped
<1>a. site_world.events \subseteq {"again"} =>
        /\ files' = files \ {r.old}
        /\ ~I!May("again") => \A x \in Image : refs'[x] <= 1
  <2>1. \A x \in Image : refs[x] \in 0 .. MaxRef /\ refs'[x] \in 0 .. MaxRef
    BY <1>t, <1>r DEF SiteTyped
  <2>2. site_world.events \subseteq {"again"} => ~I!May("db_error")
    BY DEF I!May
  <2> QED
    BY <1>1, <1>s, <1>r, <2>1, <2>2, SiteFacts
<1>k. ~I!Asked("clear") /\ ~I!May("overlap") => r.new \in files'
  BY <1>1, <1>s
<1>4. CASE r.new = NoImage /\ Moves(w, "set", r)
  <2>1. /\ site_pc'[w] = "set" /\ site_req'[w] = r
        /\ \A event : I!May(event)' <=> I!May(event)
    BY <1>t, <1>1, <1>4, Moved, NothingAsked
  <2>2. /\ ~I!Asked("clear") /\ ~I!May("overlap") =>
            /\ Uploaded(w)'
            /\ site_config_cache' \in files' \cup {NoImage}
            /\ site_image' \in files' \cup {NoImage}
        /\ site_world.events \subseteq {"again"} => Agreed(w)'
    BY <1>1, <1>4, <1>s, <1>a, <1>f, <2>1 DEF Uploaded, Agreed
  <2> QED
    BY <1>1, <1>2, <1>4, <1>t, <1>r, <1>a, <2>2, MovesKeep, NothingAsked DEF SiteTyped
<1>5. CASE r.new # NoImage /\ Moves(w, "idle", I!Nothing)
  <2>1. /\ site_pc'[w] = "idle" /\ \A event : I!May(event)' <=> I!May(event)
    BY <1>t, <1>5, Moved, NothingAsked
  <2>2. Uploaded(w)' /\ Agreed(w)'
    BY <2>1 DEF Uploaded, Agreed
  <2>3. /\ ~I!Asked("clear") /\ ~I!May("overlap") =>
            /\ site_config_cache' \in files' \cup {NoImage}
            /\ site_image' \in files' \cup {NoImage}
        /\ site_world.events \subseteq {"again"} =>
             /\ site_config_cache' = site_image' /\ site_image' \in files' \cup {NoImage}
             /\ ~I!May("again") => files' \subseteq {site_image'}
    BY <1>1, <1>5, <1>s, <1>a, <1>k
  <2> QED
    BY <1>1, <1>2, <1>5, <1>t, <1>r, <1>a, <2>2, <2>3, MovesKeep, NothingAsked DEF SiteTyped
<1> QED
  BY <1>1, <1>4, <1>5

LEMMA SiteClears ==
    ASSUME SiteInv, NEW w \in Worker, I!Clear(w)
    PROVE  SiteInv'
<1> DEFINE r == [new |-> NoImage, old |-> site_image]
           label == IF site_image = NoImage THEN "set" ELSE "release"
<1>t. SiteTyped
  BY DEF SiteInv
<1>1. /\ Moves(w, label, r) /\ r \in SiteRequest /\ label \in SiteStage
      /\ label \in {"set", "release"} /\ (label = "release" <=> site_image # NoImage)
      /\ r.new = NoImage /\ r.old = site_image /\ I!Idle(w) /\ I!Asked("clear")
      /\ UNCHANGED <<site_image, site_config_cache, files, refs>>
  BY <1>t, NothingAsked DEF I!Clear, I!Goto, Moves, SiteTyped, SiteRequest
<1> HIDE DEF r, label
<1>2. Lone(w)
  BY <1>1, IsLone
<1>3. /\ site_pc'[w] = label /\ site_req'[w] = r
      /\ \A event : I!May(event)' <=> I!May(event)
  BY <1>t, <1>1, Moved
<1>4. ASSUME site_world.events \subseteq {"again"}
      PROVE  /\ ~I!May("again") => \A x \in Image : refs'[x] <= 1
             /\ Agreed(w)'
  <2>1. I!SiteQuiet
    BY <1>1, <1>4 DEF I!Idle, I!May, I!SiteQuiet
  <2>2. /\ site_config_cache = site_image /\ site_image \in files \cup {NoImage}
        /\ ~I!May("again") => files \subseteq {site_image}
        /\ ~I!May("again") => \A x \in Image : refs[x] <= 1
    BY <1>4, <2>1 DEF SiteInv, AllAgreed
  <2>3. files \subseteq Image /\ NoImage \notin Image
    BY <1>t, SiteFacts DEF SiteTyped
  <2> QED
    BY <1>1, <1>3, <2>2, <2>3 DEF Agreed
<1>5. label = "release" => r.old \in Image /\ r.old # r.new
  BY <1>t, <1>1, SiteFacts DEF SiteTyped
<1> QED
  BY <1>1, <1>2, <1>t, <1>4, <1>5, MovesKeep DEF SiteTyped

LEMMA SiteFails ==
    ASSUME SiteInv, NEW w \in Worker, I!Fail(w)
    PROVE  SiteInv'
<1>t. SiteTyped
  BY DEF SiteInv
<1>1. /\ Moves(w, "idle", I!Nothing) /\ I!May("db_error") /\ site_pc[w] # "idle"
      /\ UNCHANGED <<site_image, site_config_cache, files, refs>>
  BY DEF I!Fail, I!Finish, I!Goto, Moves
<1>2. Lone(w)
  BY <1>1, IsLone
<1>3. site_pc'[w] = "idle"
  BY <1>t, <1>1, Moved, NothingAsked
<1>4. ~(site_world.events \subseteq {"again"})
  BY <1>1 DEF I!May
<1>5. ~I!Asked("clear") /\ ~I!May("overlap") =>
        /\ site_config_cache' \in files' \cup {NoImage}
        /\ site_image' \in files' \cup {NoImage}
        /\ Uploaded(w)'
  BY <1>1, <1>3 DEF SiteInv, ShownKept, Uploaded
<1> QED
  BY <1>1, <1>2, <1>t, <1>4, <1>5, MovesKeep, NothingAsked DEF SiteTyped

LEMMA SiteRestarts ==
    ASSUME SiteInv, I!Restart
    PROVE  SiteInv'
<1>t. SiteTyped
  BY DEF SiteInv
<1>1. /\ site_config_cache' \in {site_image, NoImage} /\ I!May("restart")
      /\ site_pc' = [w \in Worker |-> "idle"] /\ site_req' = [w \in Worker |-> I!Nothing]
      /\ UNCHANGED <<site_world, site_image, files, refs>>
  BY DEF I!Restart
<1>2. SiteTyped'
  BY <1>t, <1>1, NothingAsked DEF SiteTyped
<1>3. OneAtATime' /\ AllAgreed'
  BY <1>1 DEF OneAtATime, AllAgreed, I!May
<1>4. ShownKept'
  BY <1>1 DEF SiteInv, ShownKept, Uploaded, I!May, I!Asked
<1> QED
  BY <1>2, <1>3, <1>4 DEF SiteInv

LEMMA SiteNext ==
    ASSUME SiteInv, I!Next
    PROVE  SiteInv'
<1>1. ASSUME NEW w \in Worker, NEW i \in Image, I!UploadFavicon(w, i) \/ I!UploadLogo(w, i)
      PROVE  SiteInv'
  BY <1>1, SiteUploads DEF I!UploadFavicon, I!UploadLogo
<1> QED
  BY <1>1, SiteGets, SiteSets, SiteInserts, SiteReleases, SiteDeletes, SiteClears, SiteFails,
     SiteRestarts DEF I!Next

LEMMA SiteStutters ==
    ASSUME SiteInv, UNCHANGED siteVars
    PROVE  SiteInv'
<1>1. UNCHANGED <<site_world, site_image, site_config_cache, files, refs, site_pc, site_req>>
  BY DEF siteVars
<1>2. SiteTyped' /\ OneAtATime'
  BY <1>1 DEF SiteInv, SiteTyped, OneAtATime, I!May
<1>3. ShownKept' /\ AllAgreed'
  BY <1>1 DEF SiteInv, ShownKept, Uploaded, AllAgreed, Agreed, I!May, I!Asked, I!SiteQuiet
<1> QED
  BY <1>2, <1>3 DEF SiteInv

LEMMA SiteGives ==
    ASSUME SiteInv
    PROVE  I!SiteImageHolds
<1>1. I!TypeOK
  <2>1. 0 .. MaxRef \subseteq 0 .. MaxRef + I!Cardinality(Worker)
    BY SiteFacts
  <2>2. refs \in [Image -> 0 .. MaxRef + I!Cardinality(Worker)]
    BY <2>1 DEF SiteInv, SiteTyped
  <2> QED
    BY <2>2 DEF SiteInv, SiteTyped, SiteStage, SiteRequest, I!TypeOK
<1>2. I!ShownIsStored
  BY DEF SiteInv, ShownKept, I!ShownIsStored
<1>3. I!NothingLeft
  BY DEF SiteInv, AllAgreed, I!NothingLeft
<1> QED
  BY <1>1, <1>2, <1>3 DEF I!SiteImageHolds

-----------------------------------------------------------------------------

ImagesInv == BlobInv /\ SiteInv

LEMMA ImagesInitially ==
    ASSUME AccountInit
    PROVE  ImagesInv
<1>1. blob_world \in BlobWorlds
  BY DEF AccountInit, B!Init
<1> QED
  BY <1>1, BlobInitially, SiteInitially DEF AccountInit, ImagesInv

LEMMA ImagesNext ==
    ASSUME ImagesInv, [AccountNext]_accountVars
    PROVE  ImagesInv'
<1>1. CASE B!Next /\ UNCHANGED siteVars
  BY <1>1, BlobNext, SiteStutters DEF ImagesInv
<1>2. CASE I!Next /\ UNCHANGED blobVars
  BY <1>2, SiteNext, BlobStutters DEF ImagesInv
<1>3. CASE UNCHANGED <<blobVars, siteVars>>
  BY <1>3, BlobStutters, SiteStutters DEF ImagesInv
<1> QED
  BY <1>1, <1>2, <1>3 DEF AccountNext, accountVars, otherVars

(* However uploads, removals, failures of the last write and the jobs that *)
(* delete what nobody refers to interleave, every avatar, cover and        *)
(* thumbnail that is pointed to has its file (users.rs, threads.rs,        *)
(* stored_file_repository.rs); a thumbnail's count never exceeds what it   *)
(* is for, so that it can come down to nothing; avatars that are only      *)
(* replaced leave no file behind; and the site's favicon and logo          *)
(* (handlers/admin/api/config.rs) are stored as long as they are shown.    *)
THEOREM ImagesAlwaysKept == AccountSpec => []ImagesKept
<1>1. AccountInit => ImagesInv
  BY ImagesInitially
<1>2. ImagesInv /\ [AccountNext]_accountVars => ImagesInv'
  BY ImagesNext
<1>3. ImagesInv => ImagesKept
  BY BlobGives, SiteGives DEF ImagesInv, ImagesKept
<1> QED
  BY <1>1, <1>2, <1>3, PTL DEF AccountSpec

-----------------------------------------------------------------------------
(* Registration.                                                           *)

Entering == {"idle", "email", "name", "hook", "create"}
Knowing == {"roles", "assign", "mail", "found", "verified", "basic"}
Spared(events) == registration_world.events \cap events = {}

JoinTyped ==
    /\ G!TypeOK
    /\ registration_pc \in [Worker -> Entering \cup Knowing]
    /\ DOMAIN registration_req = Worker
    /\ registration_req = [w \in Worker |-> registration_req[w]]

(* A request past the row's insertion is about an account there is, and so *)
(* are links and an administrator's decisions.                             *)
JoinKnown ==
    /\ \A w \in Worker : registration_pc[w] \in Knowing =>
                             account[registration_req[w].to] # NoAccount
    /\ \A a \in Address : a \in mail \cup link \/ granted[a] # {} => account[a] # NoAccount

(* The unique key of the name.                                             *)
OneEach ==
    \A a, b \in Address :
        account[a] # NoAccount /\ account[b] # NoAccount /\ account[a].name = account[b].name =>
            a = b

(* Who lacks a role is still being given it.                               *)
Giving(w, a) ==
    /\ registration_pc[w] \in Knowing /\ registration_req[w].to = a
    /\ \/ registration_pc[w] = "roles"
       \/ /\ registration_pc[w] = "assign"
          /\ DefaultRole \ account[a].roles \subseteq registration_req[w].left
Roled ==
    Spared({"db_error", "restart"}) =>
        \A a \in Address : account[a] # NoAccount =>
            account[a].roles = DefaultRole \/ \E w \in Worker : Giving(w, a)

(* Who is verified and still New is about to be Basic.                     *)
Raising(w, a) == registration_pc[w] = "basic" /\ registration_req[w].to = a
Raised ==
    Spared({"db_error", "restart"}) /\ "verify_user" \notin registration_world.requests =>
        \A a \in Address : account[a] # NoAccount /\ account[a].verified /\ granted[a] = {} =>
            account[a].level # G!New \/ \E w \in Worker : Raising(w, a)

(* One request at a time: while one is about to write a level, the         *)
(* administrator has given none, and gives none to who is not verified.    *)
Standing ==
    Spared({"overlap", "early"}) =>
        /\ \A v, w \in Worker :
             registration_pc[v] # "idle" /\ registration_pc[w] # "idle" => v = w
        /\ \A a \in Address : granted[a] # {} =>
             granted[a] = {account[a].level} /\ account[a].verified
        /\ \A w \in Worker :
             /\ registration_pc[w] \in {"roles", "assign", "verified", "basic"} =>
                  granted[registration_req[w].to] = {}
             /\ registration_pc[w] = "found" =>
                  registration_req[w].verified = account[registration_req[w].to].verified

JoinInv == JoinTyped /\ JoinKnown /\ OneEach /\ Roled /\ Raised /\ Standing

LEMMA JoinFacts ==
    /\ NoAccount \notin G!Account
    /\ G!Account = [name : Name, verified : BOOLEAN, level : G!Level, roles : SUBSET DefaultRole]
    /\ G!Request = [name : Name, to : Address, left : SUBSET DefaultRole, verified : BOOLEAN]
    /\ G!Level = {0, 1, 2} /\ G!New = 0 /\ G!Basic = 1
  BY MemberConstants DEF G!RegistrationConstants, G!Account, G!Request, G!Level, G!New, G!Basic,
     G!Regular

LEMMA JoinInitially ==
    ASSUME G!Init
    PROVE  JoinInv
<1> USE JoinFacts DEF G!Init
<1>1. JoinTyped
  BY DEF JoinTyped, G!TypeOK, Entering
<1>2. JoinKnown /\ OneEach
  BY DEF JoinKnown, OneEach, Knowing
<1>3. Roled /\ Raised /\ Standing
  BY DEF Roled, Raised, Standing
<1> QED
  BY <1>1, <1>2, <1>3 DEF JoinInv

(* A request goes on without writing the row.                              *)
LEMMA JoinMoves ==
    ASSUME JoinInv, NEW w \in Worker, NEW place \in Entering \cup Knowing, NEW r,
           G!Go(w, place, r), UNCHANGED <<registration_world, account, granted>>,
           mail' \subseteq Address, link' = link,
           \A a \in mail' : account[a] # NoAccount,
           place # "idle" => r \in G!Request,
           place \in Knowing => account[r.to] # NoAccount,
           Spared({"db_error", "restart"}) =>
             /\ registration_pc[w] = "roles" =>
                  place = "assign" /\ r.to = registration_req[w].to /\ r.left = DefaultRole
             /\ registration_pc[w] = "assign" => registration_req[w].left = {}
             /\ registration_pc[w] # "basic",
           Spared({"overlap", "early"}) =>
             /\ registration_pc[w] = "idle" => \A v \in Worker : registration_pc[v] = "idle"
             /\ place \in {"roles", "assign", "verified", "basic"} => granted[r.to] = {}
             /\ place = "found" => r.verified = account[r.to].verified
    PROVE  JoinInv'
<1> USE JoinFacts
<1>1. JoinTyped
  BY DEF JoinInv
<1>2. /\ registration_pc'[w] = place /\ registration_req'[w] = r
      /\ \A v \in Worker \ {w} : /\ registration_pc'[v] = registration_pc[v]
                                 /\ registration_req'[v] = registration_req[v]
      /\ registration_pc' \in [Worker -> Entering \cup Knowing]
      /\ DOMAIN registration_req' = Worker
      /\ registration_req' = [v \in Worker |-> registration_req'[v]]
  BY <1>1 DEF JoinTyped, G!Go
<1>3. JoinTyped'
  BY <1>1, <1>2 DEF JoinTyped, G!TypeOK
<1>4. JoinKnown'
  BY <1>1, <1>2 DEF JoinInv, JoinKnown
<1>5. OneEach'
  BY DEF JoinInv, OneEach
<1>6. Roled'
  <2> SUFFICES ASSUME Spared({"db_error", "restart"}), NEW a \in Address, account[a] # NoAccount,
                      account[a].roles # DefaultRole
               PROVE  \E v \in Worker : Giving(v, a)'
    BY DEF Roled, Spared
  <2>1. PICK v \in Worker : Giving(v, a)
    BY DEF JoinInv, Roled
  <2>2. account[a].roles \subseteq DefaultRole
    BY <1>1 DEF JoinTyped, G!TypeOK
  <2>3. CASE v = w
    <3>1. registration_pc[w] = "roles"
      BY <2>1, <2>2, <2>3 DEF Giving
    <3>2. Giving(w, a)'
      BY <1>2, <2>1, <2>3, <3>1 DEF Giving, Knowing
    <3> QED
      BY <3>2
  <2>4. CASE v # w
    <3>1. Giving(v, a)'
      BY <1>2, <2>1, <2>4 DEF Giving
    <3> QED
      BY <3>1
  <2> QED
    BY <2>3, <2>4
<1>7. Raised'
  <2> SUFFICES ASSUME Spared({"db_error", "restart"}), NEW a \in Address,
                      NEW v \in Worker, Raising(v, a)
               PROVE  Raising(v, a)'
    BY DEF JoinInv, Raised, Spared
  <2> QED
    BY <1>2 DEF Raising
<1>8. Standing'
  <2> SUFFICES ASSUME Spared({"overlap", "early"})
               PROVE  Standing'
    BY DEF Standing, Spared
  <2>1. \A v \in Worker \ {w} : registration_pc[w] # "idle" => registration_pc[v] = "idle"
    BY DEF JoinInv, Standing
  <2>2. \A v \in Worker \ {w} : registration_pc'[v] = "idle"
    BY <1>2, <2>1
  <2> QED
    BY <1>2, <2>2 DEF JoinInv, Standing
<1> QED
  BY <1>3, <1>4, <1>5, <1>6, <1>7, <1>8 DEF JoinInv

(* A request changes its account's row as it goes on.                      *)
LEMMA JoinWrites ==
    ASSUME JoinInv, NEW w \in Worker, NEW place \in {"idle", "assign", "basic"}, NEW r,
           NEW a \in Address, NEW new \in G!Account,
           registration_pc[w] \in Knowing, registration_req[w].to = a,
           account' = [account EXCEPT ![a] = new],
           G!Go(w, place, r), UNCHANGED <<registration_world, granted, mail, link>>,
           place # "idle" => r \in G!Request /\ r.to = a,
           new.name = account[a].name, account[a].roles \subseteq new.roles,
           Giving(w, a) => new.roles = DefaultRole \/ Giving(w, a)',
           new.verified => new.level # G!New \/ place = "basic"
                           \/ /\ account[a].verified /\ account[a].level = G!New
                              /\ registration_pc[w] # "basic",
           Spared({"overlap", "early"}) =>
             /\ place \in {"assign", "basic"} => granted[a] = {}
             /\ granted[a] # {} => new.level = account[a].level /\ new.verified
    PROVE  JoinInv'
<1> USE JoinFacts
<1>1. JoinTyped
  BY DEF JoinInv
<1>2. /\ registration_pc'[w] = place /\ registration_req'[w] = r
      /\ \A v \in Worker \ {w} : /\ registration_pc'[v] = registration_pc[v]
                                 /\ registration_req'[v] = registration_req[v]
      /\ registration_pc' \in [Worker -> Entering \cup Knowing]
      /\ DOMAIN registration_req' = Worker
      /\ registration_req' = [v \in Worker |-> registration_req'[v]]
  BY <1>1 DEF JoinTyped, G!Go, Entering, Knowing
<1>3. /\ account[a] \in G!Account
      /\ account'[a] = new /\ \A b \in Address \ {a} : account'[b] = account[b]
      /\ account' \in [Address -> G!Account \cup {NoAccount}]
  BY <1>1 DEF JoinInv, JoinKnown, JoinTyped, G!TypeOK
<1>4. JoinTyped'
  BY <1>1, <1>2, <1>3 DEF JoinTyped, G!TypeOK
<1>5. JoinKnown'
  BY <1>1, <1>2, <1>3 DEF JoinInv, JoinKnown, Knowing
<1>6. OneEach'
  BY <1>3 DEF JoinInv, OneEach
<1>7. Roled'
  <2> SUFFICES ASSUME Spared({"db_error", "restart"}), NEW b \in Address, account'[b] # NoAccount,
                      account'[b].roles # DefaultRole
               PROVE  \E v \in Worker : Giving(v, b)'
    BY DEF Roled, Spared
  <2>1. account[b] # NoAccount /\ account[b].roles \subseteq account'[b].roles
    BY <1>3
  <2>2. account'[b].roles \subseteq DefaultRole
    BY <1>3
  <2>3. PICK v \in Worker : Giving(v, b)
    BY <2>1, <2>2 DEF JoinInv, Roled
  <2>4. CASE v = w
    BY <1>3, <2>3, <2>4 DEF Giving
  <2>5. CASE v # w
    <3>1. Giving(v, b)'
      BY <1>2, <2>1, <2>3, <2>5 DEF Giving
    <3> QED
      BY <3>1
  <2> QED
    BY <2>4, <2>5
<1>8. Raised'
  <2> SUFFICES ASSUME Spared({"db_error", "restart"}),
                      "verify_user" \notin registration_world.requests,
                      NEW b \in Address, account'[b] # NoAccount, account'[b].verified,
                      granted[b] = {}, account'[b].level = G!New
               PROVE  \E v \in Worker : Raising(v, b)'
    BY DEF Raised, Spared
  <2>1. CASE b = a /\ place = "basic"
    <3>1. Raising(w, b)'
      BY <1>2, <2>1 DEF Raising
    <3> QED
      BY <3>1
  <2>2. CASE ~(b = a /\ place = "basic")
    <3>1. account[b] # NoAccount /\ account[b].verified /\ account[b].level = G!New
      BY <1>3, <2>2
    <3>2. PICK v \in Worker : Raising(v, b)
      BY <3>1 DEF JoinInv, Raised
    <3>3. v # w
      BY <1>3, <2>2, <3>2 DEF Raising
    <3>4. Raising(v, b)'
      BY <1>2, <3>2, <3>3 DEF Raising
    <3> QED
      BY <3>4
  <2> QED
    BY <2>1, <2>2
<1>9. Standing'
  <2> SUFFICES ASSUME Spared({"overlap", "early"})
               PROVE  Standing'
    BY DEF Standing, Spared
  <2>1. \A v \in Worker \ {w} : registration_pc[v] = "idle"
    BY DEF JoinInv, Standing, Knowing
  <2>2. \A v \in Worker \ {w} : registration_pc'[v] = "idle"
    BY <1>2, <2>1
  <2>3. \A b \in Address : granted[b] # {} =>
             granted[b] = {account'[b].level} /\ account'[b].verified
    BY <1>3 DEF JoinInv, Standing
  <2> QED
    BY <1>2, <2>2, <2>3 DEF Standing
<1> QED
  BY <1>4, <1>5, <1>6, <1>7, <1>8, <1>9 DEF JoinInv

(* Where an action leads when it may also fail or refuse.                  *)
LEMMA FinishJoins ==
    ASSUME JoinInv, NEW w \in Worker, G!Finish(w), G!Unchanged, registration_pc[w] # "idle",
           Spared({"db_error", "restart"}) =>
               registration_pc[w] \notin {"roles", "assign", "basic"}
    PROVE  JoinInv'
<1>1. /\ G!Go(w, "idle", NoAccount) /\ "idle" \in Entering /\ "idle" \notin Knowing
      /\ UNCHANGED <<registration_world, account, granted, mail, link>>
  BY DEF G!Finish, G!NoRequest, G!Unchanged, G!rowVars, G!mailVars, Entering, Knowing
<1>2. mail \subseteq Address /\ \A a \in mail : account[a] # NoAccount
  BY DEF JoinInv, JoinKnown, JoinTyped, G!TypeOK
<1> QED
  BY <1>1, <1>2, JoinMoves

LEMMA RegisterBegins ==
    ASSUME JoinInv, NEW w \in Worker, G!BeginRegister(w)
    PROVE  JoinInv'
<1>1. PICK n \in Name, a \in Address :
         G!Go(w, "email", [name |-> n, to |-> a, left |-> {}, verified |-> FALSE])
  BY DEF G!BeginRegister
<1> DEFINE r == [name |-> n, to |-> a, left |-> {}, verified |-> FALSE]
<1>2. r \in G!Request
  BY JoinFacts
<1>3. \A v \in Worker : registration_pc[v] = "idle" \/ "overlap" \in registration_world.events
  BY DEF G!BeginRegister, G!Idle, G!Disturbed
<1>4. registration_pc[w] = "idle"
  BY DEF G!BeginRegister, G!Idle
<1>5. G!Go(w, "email", r)
  BY <1>1
<1>6. G!Unchanged /\ JoinKnown /\ JoinTyped
  BY DEF G!BeginRegister, JoinInv
<1> HIDE DEF r
<1> QED
  BY <1>2, <1>3, <1>4, <1>5, <1>6, JoinMoves DEF JoinKnown, JoinTyped, G!TypeOK,
     G!Unchanged, G!rowVars, G!mailVars, Entering, Knowing, Spared

(* Looking up, a hook, and the token's or the roles' first step.           *)
LEMMA LooksUp ==
    ASSUME JoinInv, NEW w \in Worker,
           G!find_by_email(w) \/ G!find_by_username(w) \/ G!BeforeHook(w)
    PROVE  JoinInv'
<1>1. /\ registration_pc[w] \in {"email", "name", "hook"}
      /\ registration_req[w] \in G!Request /\ G!Unchanged /\ JoinKnown /\ JoinTyped
  BY DEF G!find_by_email, G!find_by_username, G!BeforeHook, JoinInv, JoinTyped, G!TypeOK
<1>2. CASE G!Finish(w)
  BY <1>1, <1>2, FinishJoins
<1>3. ASSUME NEW place \in {"name", "hook", "create"}, G!Go(w, place, registration_req[w])
      PROVE  JoinInv'
  BY <1>1, <1>3, JoinMoves DEF JoinKnown, JoinTyped, G!TypeOK,
     G!Unchanged, G!rowVars, G!mailVars, Entering, Knowing
<1> QED
  BY <1>2, <1>3 DEF G!find_by_email, G!find_by_username, G!BeforeHook, G!Goto, G!Fails

LEMMA RolesListed ==
    ASSUME JoinInv, NEW w \in Worker, G!list_default(w)
    PROVE  JoinInv'
<1> DEFINE r == [registration_req[w] EXCEPT !.left = DefaultRole]
<1>1. /\ registration_pc[w] = "roles"
      /\ registration_req[w] \in G!Request /\ G!Unchanged /\ JoinKnown /\ JoinTyped /\ Standing
  BY DEF G!list_default, JoinInv, JoinTyped, G!TypeOK
<1>2. CASE G!Fails(w)
  BY <1>1, <1>2, FinishJoins DEF G!Fails, G!Disturbed, Spared
<1>3. CASE G!Go(w, "assign", r)
  <2>1. r \in G!Request /\ r.to = registration_req[w].to /\ r.left = DefaultRole
    BY <1>1, JoinFacts
  <2>2. account[r.to] # NoAccount
    BY <1>1, <2>1 DEF JoinKnown, Knowing
  <2>3. Spared({"overlap", "early"}) => granted[r.to] = {}
    BY <1>1, <2>1 DEF Standing
  <2>4. \A a \in mail : account[a] # NoAccount
    BY <1>1 DEF JoinKnown, JoinTyped, G!TypeOK
  <2> HIDE DEF r
  <2> QED
    BY <1>1, <1>3, <2>1, <2>2, <2>3, <2>4, JoinMoves DEF JoinTyped, G!TypeOK,
       G!Unchanged, G!rowVars, G!mailVars, Entering, Knowing
<1> QED
  BY <1>2, <1>3 DEF G!list_default

LEMMA RolesAssigned ==
    ASSUME JoinInv, NEW w \in Worker, G!Assigned(w)
    PROVE  JoinInv'
<1>1. /\ registration_pc[w] = "assign" /\ registration_req[w].left = {}
      /\ registration_req[w] \in G!Request /\ G!Unchanged /\ JoinKnown /\ JoinTyped /\ Standing
  BY DEF G!Assigned, JoinInv, JoinTyped, G!TypeOK
<1>2. ASSUME NEW place \in {"verified", "mail"}, G!Go(w, place, registration_req[w])
      PROVE  JoinInv'
  <2>1. account[registration_req[w].to] # NoAccount
    BY <1>1 DEF JoinKnown, Knowing
  <2>2. Spared({"overlap", "early"}) => granted[registration_req[w].to] = {}
    BY <1>1 DEF Standing
  <2>3. \A a \in mail : account[a] # NoAccount
    BY <1>1 DEF JoinKnown, JoinTyped, G!TypeOK
  <2> QED
    BY <1>1, <1>2, <2>1, <2>2, <2>3, JoinMoves DEF JoinTyped, G!TypeOK,
       G!Unchanged, G!rowVars, G!mailVars, Entering, Knowing
<1> QED
  BY <1>2 DEF G!Assigned, G!Goto

LEMMA LinkAsked ==
    ASSUME JoinInv, NEW w \in Worker, G!SendEmailVerification(w)
    PROVE  JoinInv'
<1>1. /\ registration_pc[w] = "mail"
      /\ registration_req[w] \in G!Request /\ JoinKnown /\ JoinTyped
      /\ UNCHANGED <<registration_world, account, granted, link>>
      /\ mail' = mail \cup {registration_req[w].to}
      /\ G!Go(w, "idle", NoAccount)
  BY DEF G!SendEmailVerification, JoinInv, JoinTyped, G!TypeOK, G!rowVars, G!Finish, G!NoRequest
<1>2. account[registration_req[w].to] # NoAccount /\ registration_req[w].to \in Address
  BY <1>1, JoinFacts DEF JoinKnown, Knowing
<1>3. mail' \subseteq Address /\ \A a \in mail' : account[a] # NoAccount
  BY <1>1, <1>2 DEF JoinKnown, JoinTyped, G!TypeOK
<1> QED
  BY <1>1, <1>3, JoinMoves DEF Entering, Knowing

(* A link is followed, or asked for anew.                                  *)
LEMMA LinkBegins ==
    ASSUME JoinInv, NEW w \in Worker, G!BeginVerify(w) \/ G!BeginResend(w)
    PROVE  JoinInv'
<1>1. /\ registration_pc[w] = "idle" /\ G!Unchanged /\ JoinKnown /\ JoinTyped
      /\ Spared({"overlap", "early"}) => \A v \in Worker : registration_pc[v] = "idle"
  BY DEF G!BeginVerify, G!BeginResend, JoinInv, G!Idle, G!Disturbed, Spared
<1>2. ASSUME NEW a \in Address, account[a] # NoAccount, NEW place \in {"found", "mail"},
             G!About(w, a, place)
      PROVE  JoinInv'
  <2> DEFINE r == [name |-> account[a].name, to |-> a, left |-> {},
                   verified |-> account[a].verified]
  <2>1. account[a] \in G!Account
    BY <1>1, <1>2 DEF JoinTyped, G!TypeOK
  <2>2. r \in G!Request /\ r.to = a /\ r.verified = account[a].verified
    BY <2>1, JoinFacts
  <2>3. G!Go(w, place, r)
    BY <1>2 DEF G!About
  <2>4. \A b \in mail : account[b] # NoAccount
    BY <1>1 DEF JoinKnown, JoinTyped, G!TypeOK
  <2> HIDE DEF r
  <2> QED
    BY <1>1, <1>2, <2>2, <2>3, <2>4, JoinMoves DEF JoinTyped, G!TypeOK,
       G!Unchanged, G!rowVars, G!mailVars, Entering, Knowing
<1>3. \A a \in link : a \in Address /\ account[a] # NoAccount
  BY <1>1 DEF JoinKnown, JoinTyped, G!TypeOK
<1> QED
  BY <1>2, <1>3 DEF G!BeginVerify, G!BeginResend

LEMMA LinkChecked ==
    ASSUME JoinInv, NEW w \in Worker, G!Verify(w)
    PROVE  JoinInv'
<1>1. /\ registration_pc[w] = "found"
      /\ registration_req[w] \in G!Request /\ G!Unchanged /\ JoinKnown /\ JoinTyped /\ Standing
  BY DEF G!Verify, JoinInv, JoinTyped, G!TypeOK
<1>2. CASE G!Finish(w)
  BY <1>1, <1>2, FinishJoins
<1>3. CASE ~registration_req[w].verified /\ G!Go(w, "verified", registration_req[w])
  <2>1. account[registration_req[w].to] # NoAccount /\ registration_req[w].to \in Address
    BY <1>1, JoinFacts DEF JoinKnown, Knowing
  <2>2. Spared({"overlap", "early"}) => granted[registration_req[w].to] = {}
    BY <1>1, <1>3, <2>1 DEF Standing
  <2>3. \A a \in mail : account[a] # NoAccount
    BY <1>1 DEF JoinKnown, JoinTyped, G!TypeOK
  <2> QED
    BY <1>1, <1>3, <2>1, <2>2, <2>3, JoinMoves DEF JoinTyped, G!TypeOK,
       G!Unchanged, G!rowVars, G!mailVars, Entering, Knowing
<1> QED
  BY <1>2, <1>3 DEF G!Verify, G!Goto, G!Fails


(* The row begins.                                                         *)
LEMMA RowBegins ==
    ASSUME JoinInv, NEW w \in Worker, G!Create(w)
    PROVE  JoinInv'
<1> USE JoinFacts
<1> DEFINE r == registration_req[w]
           a == r.to
           new == [name |-> r.name, verified |-> FALSE, level |-> G!New, roles |-> {}]
<1>1. /\ registration_pc[w] = "create" /\ r \in G!Request /\ a \in Address
      /\ JoinKnown /\ JoinTyped /\ Standing
      /\ registration_world' = registration_world
  BY DEF G!Create, JoinInv, JoinTyped, G!TypeOK, G!Unchanged, G!Write
<1>2. CASE G!Finish(w) /\ G!Unchanged
  BY <1>1, <1>2, FinishJoins
<1>3. CASE /\ account[a] = NoAccount /\ G!Named(r.name) = {}
           /\ account' = [account EXCEPT ![a] = new]
           /\ UNCHANGED <<registration_world, granted, mail, link>>
           /\ \/ G!Go(w, "roles", r)
              \/ "db_error" \in registration_world.events /\ G!Go(w, "idle", NoAccount)
  <2>1. new \in G!Account /\ new.name = r.name /\ ~new.verified
    BY <1>1
  <2> HIDE DEF new
  <2>2. /\ account'[a] = new /\ \A b \in Address \ {a} : account'[b] = account[b]
        /\ account' \in [Address -> G!Account \cup {NoAccount}]
    BY <1>1, <1>3, <2>1 DEF JoinTyped, G!TypeOK
  <2>3. PICK place \in {"idle", "roles"}, k \in {r, NoAccount} :
          /\ G!Go(w, place, k)
          /\ IF place = "roles" THEN k = r ELSE "db_error" \in registration_world.events
    BY <1>3
  <2>4. /\ registration_pc'[w] = place /\ registration_req'[w] = k
        /\ \A v \in Worker \ {w} : /\ registration_pc'[v] = registration_pc[v]
                                   /\ registration_req'[v] = registration_req[v]
        /\ registration_pc' \in [Worker -> Entering \cup Knowing]
        /\ DOMAIN registration_req' = Worker
        /\ registration_req' = [v \in Worker |-> registration_req'[v]]
    BY <1>1, <2>3 DEF JoinTyped, G!Go, Entering, Knowing
  <2>5. JoinTyped'
    BY <1>1, <1>3, <2>2, <2>3, <2>4 DEF JoinTyped, G!TypeOK
  <2>6. JoinKnown'
    BY <1>1, <1>3, <2>1, <2>2, <2>3, <2>4 DEF JoinKnown, Knowing, JoinTyped, G!TypeOK
  <2>7. OneEach'
    BY <1>1, <1>3, <2>1, <2>2 DEF JoinInv, OneEach, G!Named
  <2>8. Roled'
    <3> SUFFICES ASSUME Spared({"db_error", "restart"}), NEW b \in Address,
                        account'[b] # NoAccount, account'[b].roles # DefaultRole
                 PROVE  \E v \in Worker : Giving(v, b)'
      BY <1>3 DEF Roled, Spared
    <3>1. place = "roles" /\ k = r
      BY <1>3, <2>3 DEF Spared
    <3>2. CASE b = a
      <4>1. Giving(w, b)'
        BY <2>4, <3>1, <3>2 DEF Giving, Knowing
      <4> QED
        BY <4>1
    <3>3. CASE b # a
      <4>1. PICK v \in Worker : Giving(v, b)
        BY <2>2, <3>3 DEF JoinInv, Roled
      <4>2. Giving(v, b)'
        BY <1>1, <2>2, <2>4, <3>3, <4>1 DEF Giving
      <4> QED
        BY <4>2
    <3> QED
      BY <3>2, <3>3
  <2>9. Raised'
    <3> SUFFICES ASSUME Spared({"db_error", "restart"}),
                        "verify_user" \notin registration_world.requests,
                        NEW b \in Address, account'[b] # NoAccount, account'[b].verified,
                        granted[b] = {}, account'[b].level = G!New
                 PROVE  \E v \in Worker : Raising(v, b)'
      BY <1>3 DEF Raised, Spared
    <3>1. b # a
      BY <2>1, <2>2
    <3>2. PICK v \in Worker : Raising(v, b)
      BY <2>2, <3>1 DEF JoinInv, Raised
    <3>3. Raising(v, b)'
      BY <1>1, <2>4, <3>2 DEF Raising
    <3> QED
      BY <3>3
  <2>10. Standing'
    <3> SUFFICES ASSUME Spared({"overlap", "early"})
                 PROVE  Standing'
      BY <1>3 DEF Standing, Spared
    <3>1. \A v \in Worker \ {w} : registration_pc'[v] = "idle"
      BY <1>1, <2>4 DEF Standing
    <3>2. granted[a] = {}
      BY <1>1, <1>3 DEF JoinKnown, JoinTyped, G!TypeOK
    <3>3. \A b \in Address : granted[b] # {} =>
               granted[b] = {account'[b].level} /\ account'[b].verified
      BY <1>1, <2>2, <3>2 DEF Standing
    <3> QED
      BY <1>3, <2>3, <2>4, <3>1, <3>2, <3>3 DEF Standing
  <2> QED
    BY <2>5, <2>6, <2>7, <2>8, <2>9, <2>10 DEF JoinInv
<1>4. CASE account[a] # NoAccount \/ G!Named(r.name) # {}
  BY <1>2, <1>4 DEF G!Create, G!Row
<1>5. CASE ~(account[a] # NoAccount \/ G!Named(r.name) # {})
  <2>1. G!Write(w, new, G!Goto(w, "roles") \/ G!Fails(w))
    BY <1>5 DEF G!Create, G!Row
  <2>2. UNCHANGED <<registration_world, granted, mail, link>>
    BY <2>1 DEF G!Write, G!mailVars
  <2>3. CASE account' = [account EXCEPT ![a] = new]
             /\ (G!Goto(w, "roles") \/ G!Fails(w))
    <3> HIDE DEF new
    <3> QED
      BY <1>3, <1>5, <2>2, <2>3 DEF G!Goto, G!Fails, G!Disturbed, G!Finish, G!NoRequest
  <2>4. CASE G!Fails(w) /\ UNCHANGED account
    BY <1>2, <2>2, <2>4 DEF G!Fails, G!Unchanged, G!rowVars, G!mailVars
  <2> QED
    BY <2>1, <2>3, <2>4 DEF G!Write
<1> QED
  BY <1>4, <1>5

LEMMA RoleGiven ==
    ASSUME JoinInv, NEW w \in Worker, G!Assign(w)
    PROVE  JoinInv'
<1> USE JoinFacts
<1> DEFINE r == registration_req[w]
<1> PICK a \in Address : a = r.to
  BY DEF G!Assign, JoinInv, JoinTyped, G!TypeOK
<1>1. /\ registration_pc[w] = "assign" /\ r \in G!Request /\ a = r.to
      /\ account[a] # NoAccount /\ account[a] \in G!Account
      /\ JoinKnown /\ JoinTyped /\ Standing
  BY DEF G!Assign, JoinInv, JoinTyped, JoinKnown, Knowing, G!TypeOK
<1>2. PICK role \in r.left :
        /\ G!Go(w, "assign", [r EXCEPT !.left = @ \ {role}])
        /\ \/ account' = [account EXCEPT ![a].roles = @ \cup {role}]
           \/ "db_error" \in registration_world.events /\ UNCHANGED account
  BY DEF G!Assign, G!Disturbed
<1> DEFINE k == [r EXCEPT !.left = @ \ {role}]
           new == [account[a] EXCEPT !.roles = @ \cup {role}]
<1>3. k \in G!Request /\ k.to = a /\ k.left = r.left \ {role} /\ role \in DefaultRole
  BY <1>1
<1>4. new \in G!Account /\ new.name = account[a].name /\ new.verified = account[a].verified
      /\ new.level = account[a].level /\ new.roles = account[a].roles \cup {role}
  BY <1>1, <1>3
<1>5. UNCHANGED <<registration_world, granted, mail, link>> /\ G!Go(w, "assign", k)
  BY <1>2 DEF G!Assign, G!mailVars
<1>6. Spared({"overlap", "early"}) => granted[a] = {} /\ granted[k.to] = {}
  BY <1>1, <1>3 DEF Standing
<1>7. \A b \in mail : account[b] # NoAccount
  BY <1>1 DEF JoinKnown, JoinTyped, G!TypeOK
<1>8. CASE account' = [account EXCEPT ![a] = new]
  <2>1. registration_pc'[w] = "assign" /\ registration_req'[w] = k /\ account'[a] = new
    BY <1>1, <1>5, <1>8 DEF JoinTyped, G!TypeOK, G!Go
  <2>2. Giving(w, a) => Giving(w, a)'
    <3> SUFFICES ASSUME DefaultRole \ account[a].roles \subseteq r.left
                 PROVE  DefaultRole \ account'[a].roles \subseteq k.left
      BY <1>1, <1>3, <2>1 DEF Giving, Knowing
    <3> QED
      BY <1>3, <1>4, <2>1
  <2>3. new.verified => \/ new.level # G!New
                        \/ account[a].verified /\ account[a].level = G!New
    BY <1>4
  <2> HIDE DEF k, new
  <2>4. account[a].roles \subseteq new.roles
    BY <1>4
  <2>5. registration_pc[w] # "basic" /\ registration_pc[w] \in Knowing
    BY <1>1 DEF Knowing
  <2>6. /\ new \in G!Account /\ new.name = account[a].name
        /\ k \in G!Request /\ k.to = a
    BY <1>1, <1>3, <1>4
  <2>7. Spared({"overlap", "early"}) =>
             granted[a] = {} /\ (granted[a] # {} => new.level = account[a].level /\ new.verified)
    BY <1>6
  <2> QED
    BY <1>5, <1>8, <2>2, <2>3, <2>4, <2>5, <2>6, <2>7, JoinWrites
<1>9. CASE "db_error" \in registration_world.events /\ UNCHANGED account
  <2> HIDE DEF k
  <2> QED
    BY <1>1, <1>3, <1>5, <1>6, <1>7, <1>9, JoinMoves
      DEF Spared, Entering, Knowing, JoinTyped, G!TypeOK
<1>10. \/ account' = [account EXCEPT ![a] = new]
       \/ "db_error" \in registration_world.events /\ UNCHANGED account
  BY <1>2
<1> QED
  BY <1>8, <1>9, <1>10

LEMMA MarkedVerified ==
    ASSUME JoinInv, NEW w \in Worker, G!set_email_verified(w)
    PROVE  JoinInv'
<1> USE JoinFacts
<1> DEFINE r == registration_req[w]
           a == r.to
           new == [account[a] EXCEPT !.verified = TRUE]
<1>1. /\ registration_pc[w] = "verified" /\ r \in G!Request /\ a \in Address
      /\ account[a] # NoAccount /\ account[a] \in G!Account
      /\ JoinKnown /\ JoinTyped /\ Standing
      /\ UNCHANGED <<registration_world, granted, mail, link>>
  BY DEF G!set_email_verified, JoinInv, JoinTyped, JoinKnown, Knowing, G!TypeOK, G!Write,
     G!mailVars
<1>2. new \in G!Account /\ new.name = account[a].name /\ new.verified
      /\ new.level = account[a].level /\ new.roles = account[a].roles
  BY <1>1
<1>3. CASE account' = [account EXCEPT ![a] = new] /\ G!Go(w, "basic", r)
  <2>1. Spared({"overlap", "early"}) => granted[a] = {}
    BY <1>1 DEF Standing
  <2>2. ~Giving(w, a)
    BY <1>1 DEF Giving
  <2> HIDE DEF new
  <2> QED
    BY <1>1, <1>2, <1>3, <2>1, <2>2, JoinWrites DEF Knowing
<1>4. CASE G!Finish(w) /\ UNCHANGED account
  BY <1>1, <1>4, FinishJoins DEF G!Unchanged, G!rowVars, G!mailVars
<1> QED
  BY <1>3, <1>4 DEF G!set_email_verified, G!Write, G!Row, G!Goto, G!Fails

LEMMA LevelRaised ==
    ASSUME JoinInv, NEW w \in Worker, G!set_trust_level(w)
    PROVE  JoinInv'
<1> USE JoinFacts
<1> DEFINE r == registration_req[w]
           a == r.to
           new == [account[a] EXCEPT !.level = G!Basic]
<1>1. /\ registration_pc[w] = "basic" /\ r \in G!Request /\ a \in Address
      /\ account[a] # NoAccount /\ account[a] \in G!Account
      /\ JoinKnown /\ JoinTyped /\ Standing
      /\ UNCHANGED <<registration_world, granted, mail, link>>
  BY DEF G!set_trust_level, JoinInv, JoinTyped, JoinKnown, Knowing, G!TypeOK, G!Write,
     G!mailVars
<1>2. new \in G!Account /\ new.name = account[a].name /\ new.level # G!New
      /\ new.roles = account[a].roles
  BY <1>1
<1>3. CASE account' = [account EXCEPT ![a] = new] /\ G!Go(w, "idle", NoAccount)
  <2>1. Spared({"overlap", "early"}) => granted[a] = {}
    BY <1>1 DEF Standing
  <2>2. ~Giving(w, a)
    BY <1>1 DEF Giving
  <2> HIDE DEF new
  <2> QED
    BY <1>1, <1>2, <1>3, <2>1, <2>2, JoinWrites DEF Knowing
<1>4. CASE "db_error" \in registration_world.events /\ G!Finish(w) /\ UNCHANGED account
  BY <1>1, <1>4, FinishJoins DEF G!Unchanged, G!rowVars, G!mailVars, Spared
<1> QED
  BY <1>3, <1>4 DEF G!set_trust_level, G!Write, G!Row, G!Finish, G!NoRequest, G!Fails,
     G!Disturbed

(* Administrators, mail, time and restarts.                                *)
LEMMA AdministratorJoins ==
    ASSUME JoinInv, G!VerifyUserEmail \/ G!SetTrustLevel
    PROVE  JoinInv'
<1> USE JoinFacts
<1>1. /\ JoinTyped /\ JoinKnown /\ OneEach /\ Roled /\ Raised /\ Standing
      /\ UNCHANGED <<registration_world, mail, link, registration_pc, registration_req>>
      /\ Spared({"overlap", "early"}) => \A w \in Worker : registration_pc[w] = "idle"
  BY DEF JoinInv, G!VerifyUserEmail, G!SetTrustLevel, G!mailVars, G!Disturbed, Spared
<1>2. PICK a \in Address, new \in G!Account :
        /\ account[a] # NoAccount
        /\ account' = [account EXCEPT ![a] = new]
        /\ new.name = account[a].name /\ new.roles = account[a].roles
        /\ \/ /\ granted' = granted /\ "verify_user" \in registration_world.requests
              /\ new.level = account[a].level /\ new.verified
           \/ /\ granted' = [granted EXCEPT ![a] = {new.level}]
              /\ new.verified = account[a].verified
              /\ account[a].verified \/ "early" \in registration_world.events
  <2>1. CASE G!VerifyUserEmail
    <3>1. PICK a \in Address : /\ account[a] # NoAccount
                               /\ account' = [account EXCEPT ![a].verified = TRUE]
      BY <2>1 DEF G!VerifyUserEmail
    <3> DEFINE new == [account[a] EXCEPT !.verified = TRUE]
    <3>2. account[a] \in G!Account
      BY <1>1, <3>1 DEF JoinTyped, G!TypeOK
    <3>3. new \in G!Account /\ new.name = account[a].name /\ new.roles = account[a].roles
          /\ new.level = account[a].level /\ new.verified
      BY <3>2
    <3>4. account' = [account EXCEPT ![a] = new]
      BY <3>1
    <3>5. granted' = granted /\ "verify_user" \in registration_world.requests
      BY <2>1 DEF G!VerifyUserEmail
    <3> HIDE DEF new
    <3> QED
      BY <3>1, <3>3, <3>4, <3>5
  <2>2. CASE G!SetTrustLevel
    <3>1. PICK a \in Address, l \in G!Level :
             /\ account[a] # NoAccount
             /\ account[a].verified \/ "early" \in registration_world.events
             /\ account' = [account EXCEPT ![a].level = l]
             /\ granted' = [granted EXCEPT ![a] = {l}]
      BY <2>2 DEF G!SetTrustLevel, G!Disturbed
    <3> DEFINE new == [account[a] EXCEPT !.level = l]
    <3>2. account[a] \in G!Account
      BY <1>1, <3>1 DEF JoinTyped, G!TypeOK
    <3>3. new \in G!Account /\ new.name = account[a].name /\ new.roles = account[a].roles
          /\ new.level = l /\ new.verified = account[a].verified
      BY <3>2
    <3>4. account' = [account EXCEPT ![a] = new]
      BY <3>1
    <3> HIDE DEF new
    <3> QED
      BY <3>1, <3>3, <3>4
  <2> QED
    BY <2>1, <2>2
<1>3. /\ account'[a] = new /\ \A b \in Address \ {a} : account'[b] = account[b]
      /\ account' \in [Address -> G!Account \cup {NoAccount}]
      /\ \A b \in Address \ {a} : granted'[b] = granted[b]
      /\ granted' = granted \/ granted'[a] = {new.level}
      /\ granted' \in [Address -> SUBSET G!Level]
  BY <1>1, <1>2 DEF JoinTyped, G!TypeOK
<1>4. JoinTyped'
  BY <1>1, <1>3 DEF JoinTyped, G!TypeOK
<1>5. JoinKnown' /\ OneEach'
  BY <1>1, <1>2, <1>3 DEF JoinKnown, OneEach, JoinTyped, G!TypeOK
<1>6. Roled'
  <2> SUFFICES ASSUME Spared({"db_error", "restart"}), NEW b \in Address, account'[b] # NoAccount,
                      account'[b].roles # DefaultRole
               PROVE  \E v \in Worker : Giving(v, b)'
    BY <1>1 DEF Roled, Spared
  <2>1. account[b] # NoAccount /\ account[b].roles = account'[b].roles
    BY <1>2, <1>3
  <2>2. PICK v \in Worker : Giving(v, b)
    BY <1>1, <2>1 DEF Roled
  <2>3. Giving(v, b)'
    BY <1>1, <2>1, <2>2 DEF Giving
  <2> QED
    BY <2>3
<1>7. Raised'
  <2> SUFFICES ASSUME Spared({"db_error", "restart"}),
                      "verify_user" \notin registration_world.requests,
                      NEW b \in Address, account'[b] # NoAccount, account'[b].verified,
                      granted'[b] = {}, account'[b].level = G!New
               PROVE  \E v \in Worker : Raising(v, b)'
    BY <1>1 DEF Raised, Spared
  <2>1. b # a
    BY <1>2, <1>3
  <2>2. PICK v \in Worker : Raising(v, b)
    BY <1>1, <1>3, <2>1 DEF Raised
  <2>3. Raising(v, b)'
    BY <1>1, <2>2 DEF Raising
  <2> QED
    BY <2>3
<1>8. Standing'
  <2> SUFFICES ASSUME Spared({"overlap", "early"})
               PROVE  Standing'
    BY <1>1 DEF Standing, Spared
  <2>1. \A w \in Worker : registration_pc'[w] = "idle"
    BY <1>1
  <2>2. granted'[a] # {} => granted'[a] = {new.level} /\ new.verified
    BY <1>1, <1>2, <1>3 DEF Standing, Spared
  <2>3. \A b \in Address : granted'[b] # {} =>
             granted'[b] = {account'[b].level} /\ account'[b].verified
    BY <1>1, <1>3, <2>2 DEF Standing
  <2> QED
    BY <2>1, <2>3 DEF Standing
<1> QED
  BY <1>4, <1>5, <1>6, <1>7, <1>8 DEF JoinInv

LEMMA MailJoins ==
    ASSUME JoinInv, NEW a \in Address, G!Send(a) \/ G!Expire(a)
    PROVE  JoinInv'
<1>1. /\ UNCHANGED <<registration_world, account, granted, registration_pc, registration_req>>
      /\ mail' \subseteq mail /\ link' \subseteq link \cup mail
  BY DEF G!Send, G!Expire, G!rowVars
<1>2. JoinTyped' /\ JoinKnown'
  BY <1>1 DEF JoinInv, JoinTyped, JoinKnown, G!TypeOK
<1>3. OneEach' /\ Roled' /\ Raised' /\ Standing'
  BY <1>1 DEF JoinInv, OneEach, Roled, Giving, Raised, Raising, Standing, Spared
<1> QED
  BY <1>2, <1>3 DEF JoinInv

LEMMA RestartJoins ==
    ASSUME JoinInv, G!Restart
    PROVE  JoinInv'
<1>1. /\ UNCHANGED <<registration_world, account, granted, link>> /\ mail' = {}
      /\ registration_pc' = [w \in Worker |-> "idle"]
      /\ registration_req' = [w \in Worker |-> NoAccount]
      /\ "restart" \in registration_world.events
  BY DEF G!Restart, G!rowVars, G!NoRequest, G!Disturbed
<1>2. JoinTyped' /\ JoinKnown'
  BY <1>1 DEF JoinInv, JoinTyped, JoinKnown, G!TypeOK, Entering, Knowing
<1>3. OneEach' /\ Roled' /\ Raised' /\ Standing'
  BY <1>1 DEF JoinInv, OneEach, Roled, Raised, Standing, Spared
<1> QED
  BY <1>2, <1>3 DEF JoinInv

LEMMA JoinNext ==
    JoinInv /\ G!Next => JoinInv'
<1> SUFFICES ASSUME JoinInv, G!Next
             PROVE  JoinInv'
  OBVIOUS
<1>1. ASSUME NEW w \in Worker, G!Register(w)
      PROVE  JoinInv'
  BY <1>1, RegisterBegins, LooksUp, RowBegins, RolesListed, RoleGiven, RolesAssigned, LinkAsked
    DEF G!Register
<1>2. ASSUME NEW w \in Worker, G!Verification(w)
      PROVE  JoinInv'
  BY <1>2, LinkBegins, LinkChecked, MarkedVerified, LevelRaised DEF G!Verification
<1>3. ASSUME NEW a \in Address, G!Send(a) \/ G!Expire(a)
      PROVE  JoinInv'
  BY <1>3, MailJoins
<1>4. CASE G!VerifyUserEmail \/ G!SetTrustLevel \/ G!Restart
  BY <1>4, AdministratorJoins, RestartJoins
<1> QED
  BY <1>1, <1>2, <1>3, <1>4 DEF G!Next

LEMMA JoinStutters ==
    JoinInv /\ UNCHANGED registrationVars => JoinInv'
<1> SUFFICES ASSUME JoinInv, UNCHANGED registrationVars
             PROVE  JoinInv'
  OBVIOUS
<1>1. JoinTyped' /\ JoinKnown'
  BY DEF JoinInv, JoinTyped, JoinKnown, G!TypeOK, registrationVars
<1>2. OneEach' /\ Roled' /\ Raised' /\ Standing'
  BY DEF JoinInv, OneEach, Roled, Giving, Raised, Raising, Standing, Spared, registrationVars
<1> QED
  BY <1>1, <1>2 DEF JoinInv

(* A set whose elements are all the same has at most one.                  *)
LEMMA AtMostOne ==
    ASSUME NEW S, \A x, y \in S : x = y
    PROVE  G!Cardinality(S) <= 1
<1>1. G!Cardinality(S) = Cardinality(S)
  BY DEF G!Cardinality, Cardinality, G!IsFiniteSet, IsFiniteSet
<1>2. CASE S = {}
  BY <1>1, <1>2, FS_EmptySet
<1>3. CASE S # {}
  <2>1. PICK x \in S : S = {x}
    BY <1>3
  <2> QED
    BY <1>1, <2>1, FS_Singleton
<1> QED
  BY <1>2, <1>3

LEMMA JoinHolds == JoinInv => G!RegistrationHolds
<1> SUFFICES ASSUME JoinInv
             PROVE  G!RegistrationHolds
  OBVIOUS
<1>1. G!TypeOK
  BY DEF JoinInv, JoinTyped
<1>2. G!OneAccountEach
  <2> SUFFICES ASSUME NEW n \in Name
               PROVE  G!Cardinality(G!Named(n)) <= 1
    BY DEF G!OneAccountEach
  <2>1. \A a, b \in G!Named(n) : a = b
    BY DEF JoinInv, OneEach, G!Named
  <2> QED
    BY <2>1, AtMostOne
<1>3. G!RolesGiven
  BY JoinFacts DEF JoinInv, Roled, Giving, G!RolesGiven, G!Settled, G!Without, Spared, Knowing
<1>4. G!VerifiedIsBasic
  BY JoinFacts DEF JoinInv, Raised, Raising, G!VerifiedIsBasic, G!Settled, G!Without, Spared
<1>5. G!LevelStands
  BY DEF JoinInv, Standing, G!LevelStands, G!Without, Spared
<1> QED
  BY <1>1, <1>2, <1>3, <1>4, <1>5 DEF G!RegistrationHolds

(* However registrations, verifications, administrators and restarts       *)
(* overlap, a name is one account's, with the roles and the level of trust *)
(* that belong to it (auth.rs, register and verify_email): what MembersHold *)
(* says of registrations.                                                  *)
THEOREM RegistrationsAlwaysHold == AccountSpec => []G!RegistrationHolds
<1>1. AccountInit => JoinInv
  BY JoinInitially DEF AccountInit
<1>2. JoinInv /\ [AccountNext]_accountVars => JoinInv'
  <2>1. JoinInv /\ AccountNext => JoinInv'
    BY JoinNext, JoinStutters DEF AccountNext, otherVars
  <2>2. JoinInv /\ UNCHANGED accountVars => JoinInv'
    BY JoinStutters DEF accountVars, otherVars
  <2> QED
    BY <2>1, <2>2
<1> QED
  BY <1>1, <1>2, JoinHolds, PTL DEF AccountSpec

-----------------------------------------------------------------------------
(* Follows.                                                                *)

Owed(m) == {w \in Worker : mark_pc[w] = "publish" /\ mark_req[w] = m}

FollowTyped ==
    /\ added \in [F!Mark -> Nat] /\ told \in [F!Follow -> Nat]
    /\ mark_pc \in [Worker -> {"idle", "find", "add", "publish"}]
    /\ DOMAIN mark_req = Worker
    /\ mark_req = [w \in Worker |-> mark_req[w]]
    /\ \A w \in Worker : /\ mark_pc[w] # "idle" => mark_req[w] \in F!Mark
                         /\ mark_pc[w] = "publish" => mark_req[w] \in F!Follow

(* One notice told or owed for each time a follow began.                   *)
FollowBalance(m, owed, times) ==
    /\ told[m] + Cardinality(owed) <= times
    /\ mark_world.events \cap {"db_error", "restart"} = {} =>
           told[m] + Cardinality(owed) = times

FollowInv == FollowTyped /\ \A m \in F!Follow : FollowBalance(m, Owed(m), added[m])

LEMMA OwedFinite == \A m : IsFiniteSet(Owed(m)) /\ Cardinality(Owed(m)) \in Nat
<1> TAKE m
<1>1. Owed(m) \subseteq Worker
  BY DEF Owed
<1> QED
  BY <1>1, BlobFacts, FS_Subset, FS_CardinalityType

(* A request that neither inserts a follow nor tells of one goes on.       *)
LEMMA FollowMoves ==
    ASSUME FollowInv, NEW w \in Worker, mark_pc[w] # "publish",
           NEW place \in {"idle", "find", "add"}, NEW r, F!Go(w, place, r),
           place # "idle" => r \in F!Mark,
           UNCHANGED <<told, mark_world>>, added' \in [F!Mark -> Nat],
           \A m \in F!Follow : added'[m] = added[m]
    PROVE  FollowInv'
<1>1. FollowTyped
  BY DEF FollowInv
<1>2. /\ mark_pc'[w] = place /\ mark_req'[w] = r
      /\ \A v \in Worker \ {w} : mark_pc'[v] = mark_pc[v] /\ mark_req'[v] = mark_req[v]
      /\ mark_pc' \in [Worker -> {"idle", "find", "add", "publish"}]
      /\ DOMAIN mark_req' = Worker /\ mark_req' = [v \in Worker |-> mark_req'[v]]
  BY <1>1 DEF FollowTyped, F!Go
<1>3. FollowTyped'
  BY <1>1, <1>2 DEF FollowTyped
<1>4. \A m \in F!Follow : Owed(m)' = Owed(m)
  BY <1>2 DEF Owed
<1>5. \A m \in F!Follow : FollowBalance(m, Owed(m), added[m])'
  BY <1>4 DEF FollowInv, FollowBalance
<1> QED
  BY <1>3, <1>5 DEF FollowInv

LEMMA FollowAdded ==
    ASSUME FollowInv, NEW w \in Worker, NEW k \in F!Follow, mark_pc[w] = "add",
           F!Go(w, "publish", k), F!Insert(k), UNCHANGED <<told, mark_world>>
    PROVE  FollowInv'
<1>1. FollowTyped /\ k \in F!Mark
  BY DEF FollowInv, F!Mark
<1>2. /\ mark_pc'[w] = "publish" /\ mark_req'[w] = k
      /\ \A v \in Worker \ {w} : mark_pc'[v] = mark_pc[v] /\ mark_req'[v] = mark_req[v]
      /\ mark_pc' \in [Worker -> {"idle", "find", "add", "publish"}]
      /\ DOMAIN mark_req' = Worker /\ mark_req' = [v \in Worker |-> mark_req'[v]]
  BY <1>1 DEF FollowTyped, F!Go
<1>3. /\ added' \in [F!Mark -> Nat] /\ added'[k] = added[k] + 1
      /\ \A m \in F!Mark \ {k} : added'[m] = added[m]
  BY <1>1 DEF FollowTyped, F!Insert
<1>4. FollowTyped'
  BY <1>1, <1>2, <1>3 DEF FollowTyped
<1>5. w \notin Owed(k) /\ Owed(k)' = Owed(k) \cup {w}
  BY <1>2 DEF Owed
<1>6. \A m \in F!Follow \ {k} : Owed(m)' = Owed(m)
  BY <1>2 DEF Owed
<1>7. Cardinality(Owed(k)') = Cardinality(Owed(k)) + 1
  BY <1>5, OwedFinite, FS_AddElement
<1>8. told[k] \in Nat /\ added[k] \in Nat /\ Cardinality(Owed(k)) \in Nat
  BY <1>1, OwedFinite DEF FollowTyped
<1>9. FollowBalance(k, Owed(k), added[k])'
  BY <1>3, <1>7, <1>8 DEF FollowInv, FollowBalance
<1>10. \A m \in F!Follow \ {k} : FollowBalance(m, Owed(m), added[m])'
  BY <1>3, <1>6 DEF FollowInv, FollowBalance, F!Mark
<1> QED
  BY <1>4, <1>9, <1>10 DEF FollowInv

LEMMA FollowTold ==
    ASSUME FollowInv, NEW w \in Worker, F!Publish(w)
    PROVE  FollowInv'
<1> PICK k \in F!Follow : k = mark_req[w]
  BY DEF FollowInv, FollowTyped, F!Publish
<1>1. /\ FollowTyped /\ k \in F!Mark /\ mark_pc[w] = "publish"
      /\ F!Go(w, "idle", NoMark) /\ UNCHANGED <<added, mark_world>>
  BY DEF FollowInv, F!Mark, F!Publish, F!Finish, F!Rest
<1>2. /\ mark_pc'[w] = "idle"
      /\ \A v \in Worker \ {w} : mark_pc'[v] = mark_pc[v] /\ mark_req'[v] = mark_req[v]
      /\ mark_pc' \in [Worker -> {"idle", "find", "add", "publish"}]
      /\ DOMAIN mark_req' = Worker /\ mark_req' = [v \in Worker |-> mark_req'[v]]
  BY <1>1 DEF FollowTyped, F!Go
<1>3. /\ told' \in [F!Follow -> Nat]
      /\ \/ told'[k] = told[k] + 1
         \/ told'[k] = told[k] /\ "db_error" \in mark_world.events
      /\ \A m \in F!Follow \ {k} : told'[m] = told[m]
  BY <1>1 DEF FollowTyped, F!Publish, F!Disturbed
<1>4. FollowTyped'
  BY <1>1, <1>2, <1>3 DEF FollowTyped
<1>5. w \in Owed(k) /\ Owed(k)' = Owed(k) \ {w}
  BY <1>1, <1>2 DEF Owed
<1>6. \A m \in F!Follow \ {k} : Owed(m)' = Owed(m)
  BY <1>1, <1>2 DEF Owed
<1>7. Cardinality(Owed(k)') = Cardinality(Owed(k)) - 1
  BY <1>5, OwedFinite, FS_RemoveElement
<1>8. told[k] \in Nat /\ added[k] \in Nat /\ Cardinality(Owed(k)) \in Nat
  BY <1>1, OwedFinite DEF FollowTyped
<1>9. FollowBalance(k, Owed(k), added[k])'
  BY <1>1, <1>3, <1>7, <1>8 DEF FollowInv, FollowBalance
<1>10. \A m \in F!Follow \ {k} : FollowBalance(m, Owed(m), added[m])'
  BY <1>1, <1>3, <1>6 DEF FollowInv, FollowBalance
<1> QED
  BY <1>4, <1>9, <1>10 DEF FollowInv

LEMMA FollowMarks ==
    ASSUME FollowInv, NEW w \in Worker, F!Marking(w)
    PROVE  FollowInv'
<1>1. FollowTyped /\ F!Follow \subseteq F!Mark /\ F!Bookmark \subseteq F!Mark
      /\ (F!Follow \cap F!Bookmark = {})
  BY MemberConstants DEF FollowInv, F!Mark, F!MarkConstants, F!Follow, F!Bookmark
<1>2. CASE F!BeginFollow(w) \/ F!BeginBookmark(w)
  BY <1>1, <1>2, FollowMoves DEF F!BeginFollow, F!BeginBookmark, F!Idle, F!Rest, FollowTyped
<1>3. CASE F!Find(w)
  BY <1>1, <1>3, FollowMoves DEF F!Find, F!Finish, F!Rest, FollowTyped
<1>4. CASE F!Refused(w) /\ mark_pc[w] = "add" /\ UNCHANGED <<told, mark_world>>
  BY <1>1, <1>4, FollowMoves DEF F!Refused, F!Finish, FollowTyped
<1>5. CASE F!AddFollow(w)
  BY <1>4, <1>5, FollowAdded DEF F!AddFollow, F!Rest
<1>6. CASE F!AddBookmark(w) /\ F!Insert(mark_req[w]) /\ F!Finish(w)
  <2>1. mark_req[w] \in F!Bookmark /\ UNCHANGED <<told, mark_world>> /\ mark_pc[w] = "add"
    BY <1>6 DEF F!AddBookmark, F!Rest
  <2>2. added' \in [F!Mark -> Nat] /\ \A m \in F!Follow : added'[m] = added[m]
    BY <1>1, <1>6, <2>1 DEF FollowTyped, F!Insert
  <2> QED
    BY <1>6, <2>1, <2>2, FollowMoves DEF F!Finish
<1>7. CASE F!AddBookmark(w)
  BY <1>4, <1>6, <1>7 DEF F!AddBookmark, F!Rest
<1> QED
  BY <1>2, <1>3, <1>5, <1>7, FollowTold DEF F!Marking

LEMMA FollowKept ==
    ASSUME FollowInv, UNCHANGED <<told, added, mark_world, mark_pc, mark_req>>
    PROVE  FollowInv'
<1>1. \A m : Owed(m)' = Owed(m)
  BY DEF Owed
<1> QED
  BY <1>1 DEF FollowInv, FollowTyped, FollowBalance

LEMMA FollowRestarts ==
    ASSUME FollowInv, F!Restart
    PROVE  FollowInv'
<1>1. /\ UNCHANGED <<told, added, mark_world>> /\ FollowTyped
      /\ mark_pc' = [w \in Worker |-> "idle"] /\ mark_req' = [w \in Worker |-> NoMark]
      /\ "restart" \in mark_world.events
  BY DEF F!Restart, F!Rest, F!Disturbed, FollowInv
<1>2. FollowTyped'
  BY <1>1 DEF FollowTyped
<1>3. \A m \in F!Follow : FollowBalance(m, Owed(m), added[m])'
  <2> TAKE m \in F!Follow
  <2>1. Owed(m)' = {}
    BY <1>1 DEF Owed
  <2>2. Cardinality(Owed(m)') = 0
    BY <2>1, FS_EmptySet
  <2>3. /\ told[m] \in Nat /\ added[m] \in Nat /\ Cardinality(Owed(m)) \in Nat
        /\ told[m] + Cardinality(Owed(m)) <= added[m]
    BY <1>1, OwedFinite DEF FollowInv, FollowTyped, FollowBalance, F!Mark
  <2> QED
    BY <1>1, <2>2, <2>3 DEF FollowBalance
<1> QED
  BY <1>2, <1>3 DEF FollowInv

LEMMA FollowNext ==
    FollowInv /\ F!Next => FollowInv'
<1>1. FollowInv /\ (F!Unfollow \/ F!RemoveBookmark \/ F!DeleteThread \/ F!Reading) => FollowInv'
  BY FollowKept DEF F!Unfollow, F!RemoveBookmark, F!Unmark, F!Rest, F!DeleteThread, F!Reading,
     F!BeginRead, F!ReadTotal, F!ReadRows,
     F!Query, F!EndRead
<1> QED
  BY <1>1, FollowMarks, FollowRestarts DEF F!Next

-----------------------------------------------------------------------------
(* Rows of a list.                                                         *)

(* What holds at first and stays holds for every number.                   *)
LEMMA CountingUp ==
    ASSUME NEW A, 0 \in A, \A n \in Nat : n \in A => n + 1 \in A
    PROVE  Nat \subseteq A
<1> DEFINE Others == Nat \ A
           less == {p \in Nat \X Nat : p[1] < p[2]}
<1>1. SUFFICES ASSUME Others # {} PROVE FALSE
  OBVIOUS
<1>2. IsWellFoundedOn(less, Nat)
  <2>1. OpToRel(<, Nat) = less
    BY DEF OpToRel
  <2> HIDE DEF less
  <2> QED
    BY <2>1, NatLessThanWellFounded
<1>3. PICK n \in Others : \A m \in Others : ~ (<<m, n>> \in less)
  <2>1. Others \subseteq Nat
    OBVIOUS
  <2> HIDE DEF less, Others
  <2> QED
    BY <1>1, <1>2, <2>1, WFMin, Zenon
<1>4. n # 0 /\ n - 1 \in Nat /\ (n - 1) + 1 = n
  OBVIOUS
<1>5. <<n - 1, n>> \in less
  BY <1>4
<1>6. n - 1 \in A
  <2> HIDE DEF less
  <2> QED
    BY <1>3, <1>4, <1>5
<1> QED
  BY <1>4, <1>6

(* What the recursion of Among computes, row by row.                       *)
Step(g, s, some, n) ==
    IF n = 0 THEN <<>> ELSE IF s[n] \in some THEN Append(g[n - 1], s[n]) ELSE g[n - 1]
Builds(g, s, some, N) == g = [n \in 0 .. N |-> Step(g, s, some, n)]

LEMMA BuiltUp ==
    ASSUME NEW s, NEW some, NEW N \in Nat
    PROVE  \E g : Builds(g, s, some, N)
<1> DEFINE A == {n \in Nat : \E g : Builds(g, s, some, n)}
<1>1. 0 \in A
  <2> DEFINE g == [n \in 0 .. 0 |-> <<>>]
  <2>1. Builds(g, s, some, 0)
    BY DEF Builds, Step
  <2> QED
    BY <2>1
<1>2. ASSUME NEW n \in Nat, n \in A PROVE n + 1 \in A
  <2>1. PICK g : Builds(g, s, some, n)
    BY <1>2
  <2> DEFINE h == [k \in 0 .. n + 1 |-> IF k = n + 1 THEN Step(g, s, some, k) ELSE g[k]]
             r == [k \in 0 .. n + 1 |-> Step(h, s, some, k)]
  <2>2. ASSUME NEW k \in 0 .. n + 1 PROVE h[k] = r[k]
    <3>1. k # 0 => k - 1 \in 0 .. n + 1 /\ k - 1 # n + 1
      OBVIOUS
    <3>2. k # 0 => h[k - 1] = g[k - 1]
      BY <3>1
    <3>3. Step(h, s, some, k) = Step(g, s, some, k)
      BY <3>2 DEF Step
    <3>4. k # n + 1 => g[k] = Step(g, s, some, k)
      BY <2>1 DEF Builds
    <3> QED
      BY <3>3, <3>4
  <2>3. h = r
    BY <2>2
  <2>4. Builds(h, s, some, n + 1)
    BY <2>3 DEF Builds
  <2> QED
    BY <2>4
<1> HIDE DEF A
<1>3. Nat \subseteq A
  BY <1>1, <1>2, CountingUp
<1> QED
  BY <1>3 DEF A

LEMMA BuiltSteps ==
    ASSUME NEW g, NEW s, NEW some, NEW N \in Nat, Builds(g, s, some, N)
    PROVE  /\ g[0] = <<>>
           /\ \A n \in Nat : n + 1 <= N =>
                g[n + 1] = IF s[n + 1] \in some THEN Append(g[n], s[n + 1]) ELSE g[n]
<1>1. \A n \in 0 .. N : g[n] = Step(g, s, some, n)
  BY DEF Builds
<1>2. g[0] = <<>>
  BY <1>1 DEF Step
<1>3. ASSUME NEW n \in Nat, n + 1 <= N
      PROVE  g[n + 1] = IF s[n + 1] \in some THEN Append(g[n], s[n + 1]) ELSE g[n]
  <2> DEFINE k == n + 1
  <2>1. k \in 0 .. N /\ k # 0 /\ k - 1 = n
    BY <1>3
  <2> HIDE DEF k
  <2>2. g[k] = IF s[k] \in some THEN Append(g[n], s[k]) ELSE g[n]
    BY <1>1, <2>1 DEF Step
  <2> QED
    BY <2>2 DEF k
<1> QED
  BY <1>2, <1>3

LEMMA AmongBuilt ==
    ASSUME NEW S, NEW s \in Seq(S), NEW some
    PROVE  \E g : Builds(g, s, some, Len(s)) /\ F!Among(s, some) = g[Len(s)]
<1> DEFINE g == CHOOSE f : Builds(f, s, some, Len(s))
<1>1. Builds(g, s, some, Len(s))
  BY BuiltUp
<1>2. F!Among(s, some) = g[Len(s)]
  BY DEF F!Among, Builds, Step
<1> QED
  BY <1>1, <1>2

Distinct(s) == \A i, j \in 1 .. Len(s) : s[i] = s[j] => i = j
Those(s, n) == {s[i] : i \in 1 .. n}

(* The rows, their order and that they differ are those of the list.       *)
LEMMA AmongFacts ==
    ASSUME NEW S, NEW s \in Seq(S), NEW some
    PROVE  LET k == F!Among(s, some)
           IN  /\ k \in Seq(S) /\ Len(k) <= Len(s)
               /\ Those(k, Len(k)) = Those(s, Len(s)) \cap some
               /\ Distinct(s) => Distinct(k)
<1>1. PICK g : Builds(g, s, some, Len(s)) /\ F!Among(s, some) = g[Len(s)]
  BY AmongBuilt
<1> DEFINE Good(n) == /\ g[n] \in Seq(S) /\ Len(g[n]) <= n
                      /\ Those(g[n], Len(g[n])) = Those(s, n) \cap some
                      /\ Distinct(s) => Distinct(g[n])
           A == {n \in Nat : n <= Len(s) => Good(n)}
<1>2. 0 \in A
  <2>1. g[0] = <<>>
    BY <1>1, BuiltSteps
  <2>2. <<>> \in Seq(S) /\ Len(<<>>) = 0
    OBVIOUS
  <2>3. Those(<<>>, 0) = {} /\ Those(s, 0) = {} /\ Distinct(<<>>)
    BY DEF Those, Distinct
  <2>4. Good(0)
    BY <2>1, <2>2, <2>3
  <2> HIDE DEF Good
  <2> QED
    BY <2>4
<1>3. ASSUME NEW n \in Nat, n \in A PROVE n + 1 \in A
  <2> SUFFICES ASSUME n + 1 <= Len(s) PROVE Good(n + 1)
    OBVIOUS
  <2>1. Good(n) /\ n + 1 \in 1 .. Len(s) /\ s[n + 1] \in S
    BY <1>3
  <2>2. g[n + 1] = IF s[n + 1] \in some THEN Append(g[n], s[n + 1]) ELSE g[n]
    BY <1>1, <2>1, BuiltSteps
  <2>3. Those(s, n + 1) = Those(s, n) \cup {s[n + 1]}
    <3>1. 1 .. n + 1 = 1 .. n \cup {n + 1}
      OBVIOUS
    <3> QED
      BY <3>1 DEF Those
  <2>4. CASE s[n + 1] \notin some
    BY <2>1, <2>2, <2>3, <2>4
  <2>5. CASE s[n + 1] \in some
    <3> DEFINE k == g[n]
               a == s[n + 1]
    <3>1. /\ k \in Seq(S) /\ a \in S /\ g[n + 1] = Append(k, a) /\ Len(k) \in Nat
          /\ Len(k) <= n
      BY <2>1, <2>2, <2>5
    <3>2. Distinct(s) => \A i \in 1 .. Len(k) : k[i] # a
      <4> SUFFICES ASSUME Distinct(s), NEW i \in 1 .. Len(k), k[i] = a PROVE FALSE
        OBVIOUS
      <4>1. a \in Those(k, Len(k))
        BY DEF Those
      <4>2. PICK j \in 1 .. n : s[j] = a
        BY <2>1, <4>1 DEF Those
      <4> QED
        BY <2>1, <4>2 DEF Distinct
    <3> HIDE DEF k, a
    <3>3. /\ Append(k, a) \in Seq(S) /\ Len(Append(k, a)) = Len(k) + 1
          /\ \A i \in 1 .. Len(k) : Append(k, a)[i] = k[i]
          /\ Append(k, a)[Len(k) + 1] = a
      BY <3>1
    <3>4. Those(Append(k, a), Len(k) + 1) = Those(k, Len(k)) \cup {a}
      <4>1. 1 .. Len(k) + 1 = 1 .. Len(k) \cup {Len(k) + 1}
        BY <3>1
      <4> QED
        BY <3>3, <4>1 DEF Those
    <3>5. Distinct(s) => Distinct(Append(k, a))
      <4>1. Distinct(s) => Distinct(k)
        BY <2>1 DEF k
      <4> QED
        BY <3>1, <3>2, <3>3, <4>1 DEF Distinct
    <3> QED
      BY <2>1, <2>3, <2>5, <3>1, <3>3, <3>4, <3>5 DEF k, a
  <2> QED
    BY <2>4, <2>5
<1> HIDE DEF A
<1>4. Nat \subseteq A
  BY <1>2, <1>3, CountingUp
<1>5. Good(Len(s))
  BY <1>4 DEF A
<1> QED
  BY <1>1, <1>5

(* A row joins at the end.                                                 *)
LEMMA AmongAppend ==
    ASSUME NEW S, NEW s \in Seq(S), NEW m \in S, NEW some
    PROVE  F!Among(Append(s, m), some) =
             IF m \in some THEN Append(F!Among(s, some), m) ELSE F!Among(s, some)
<1> DEFINE t == Append(s, m)
<1>0. t \in Seq(S) /\ Len(t) = Len(s) + 1 /\ t[Len(t)] = m
      /\ \A i \in 1 .. Len(s) : t[i] = s[i]
  OBVIOUS
<1> HIDE DEF t
<1>1. PICK g : Builds(g, s, some, Len(s)) /\ F!Among(s, some) = g[Len(s)]
  BY AmongBuilt
<1>2. PICK h : Builds(h, t, some, Len(t)) /\ F!Among(t, some) = h[Len(t)]
  BY <1>0, AmongBuilt
<1> DEFINE A == {n \in Nat : n <= Len(s) => h[n] = g[n]}
<1>3. 0 \in A
  BY <1>0, <1>1, <1>2, BuiltSteps
<1>4. ASSUME NEW n \in Nat, n \in A PROVE n + 1 \in A
  <2> SUFFICES ASSUME n + 1 <= Len(s) PROVE h[n + 1] = g[n + 1]
    OBVIOUS
  <2>1. h[n] = g[n] /\ t[n + 1] = s[n + 1] /\ n + 1 \in 0 .. Len(s) /\ n + 1 \in 0 .. Len(t)
        /\ n + 1 # 0 /\ n + 1 - 1 = n
    BY <1>0, <1>4
  <2>2. /\ g[n + 1] = IF s[n + 1] \in some THEN Append(g[n], s[n + 1]) ELSE g[n]
        /\ h[n + 1] = IF t[n + 1] \in some THEN Append(h[n], t[n + 1]) ELSE h[n]
    BY <1>0, <1>1, <1>2, <2>1, BuiltSteps
  <2> QED
    BY <2>1, <2>2
<1> HIDE DEF A
<1>5. Nat \subseteq A
  BY <1>3, <1>4, CountingUp
<1>6. h[Len(s)] = g[Len(s)]
  BY <1>5 DEF A
<1>7. h[Len(t)] = IF m \in some THEN Append(h[Len(s)], m) ELSE h[Len(s)]
  <2>1. Len(s) \in Nat /\ Len(s) + 1 <= Len(t) /\ Len(t) \in Nat
    BY <1>0
  <2> QED
    BY <1>0, <1>2, <2>1, BuiltSteps
<1> QED
  BY <1>1, <1>2, <1>6, <1>7 DEF t

(* Of more there are no fewer.                                             *)
LEMMA AmongMore ==
    ASSUME NEW S, NEW s \in Seq(S), NEW some, NEW more, some \subseteq more
    PROVE  Len(F!Among(s, some)) <= Len(F!Among(s, more))
<1>1. PICK g : Builds(g, s, some, Len(s)) /\ F!Among(s, some) = g[Len(s)]
  BY AmongBuilt
<1>2. PICK h : Builds(h, s, more, Len(s)) /\ F!Among(s, more) = h[Len(s)]
  BY AmongBuilt
<1> DEFINE Good(n) == g[n] \in Seq(S) /\ h[n] \in Seq(S) /\ Len(g[n]) <= Len(h[n])
           A == {n \in Nat : n <= Len(s) => Good(n)}
<1>3. 0 \in A
  <2>1. g[0] = <<>> /\ h[0] = <<>>
    BY <1>1, <1>2, BuiltSteps
  <2>2. <<>> \in Seq(S) /\ Len(<<>>) = 0
    OBVIOUS
  <2>3. Good(0)
    BY <2>1, <2>2
  <2> HIDE DEF Good
  <2> QED
    BY <2>3
<1>4. ASSUME NEW n \in Nat, n \in A PROVE n + 1 \in A
  <2> SUFFICES ASSUME n + 1 <= Len(s) PROVE Good(n + 1)
    OBVIOUS
  <2>1. Good(n) /\ n + 1 \in 1 .. Len(s) /\ s[n + 1] \in S
    BY <1>4
  <2>2. /\ g[n + 1] = IF s[n + 1] \in some THEN Append(g[n], s[n + 1]) ELSE g[n]
        /\ h[n + 1] = IF s[n + 1] \in more THEN Append(h[n], s[n + 1]) ELSE h[n]
    BY <1>1, <1>2, <2>1, BuiltSteps
  <2> DEFINE k == g[n]
             l == h[n]
             a == s[n + 1]
  <2>3. k \in Seq(S) /\ l \in Seq(S) /\ a \in S /\ Len(k) <= Len(l)
    BY <2>1
  <2>4. /\ Append(k, a) \in Seq(S) /\ Len(Append(k, a)) = Len(k) + 1
        /\ Append(l, a) \in Seq(S) /\ Len(Append(l, a)) = Len(l) + 1
        /\ Len(k) \in Nat /\ Len(l) \in Nat
    <3> HIDE DEF k, l, a
    <3> QED
      BY <2>3
  <2>5. /\ g[n + 1] = IF a \in some THEN Append(k, a) ELSE k
        /\ h[n + 1] = IF a \in more THEN Append(l, a) ELSE l
    BY <2>2
  <2> HIDE DEF k, l, a
  <2> QED
    BY <2>3, <2>4, <2>5
<1> HIDE DEF A
<1>5. Nat \subseteq A
  BY <1>3, <1>4, CountingUp
<1>6. Good(Len(s))
  BY <1>5 DEF A
<1> QED
  BY <1>1, <1>2, <1>6

(* A list without repetitions has as many members as rows.                 *)
LEMMA DistinctCount ==
    ASSUME NEW S, NEW s \in Seq(S), Distinct(s)
    PROVE  Cardinality(Those(s, Len(s))) = Len(s)
<1> DEFINE b == [i \in 1 .. Len(s) |-> s[i]]
<1>1. b \in Bijection(1 .. Len(s), Those(s, Len(s)))
  <2>1. b \in [1 .. Len(s) -> Those(s, Len(s))]
    BY DEF Those
  <2>2. \A i, j \in 1 .. Len(s) : b[i] = b[j] => i = j
    BY DEF Distinct
  <2>3. \A x \in Those(s, Len(s)) : \E i \in 1 .. Len(s) : b[i] = x
    BY DEF Those
  <2> QED
    BY <2>1, <2>2, <2>3 DEF Bijection, Injection, Surjection, IsInjective
<1>2. IsFiniteSet(1 .. Len(s)) /\ Cardinality(1 .. Len(s)) = Len(s)
  <2>1. Len(s) \in Nat
    OBVIOUS
  <2> QED
    BY <2>1, FS_Interval
<1> QED
  BY <1>1, <1>2, FS_Bijection DEF ExistsBijection

-----------------------------------------------------------------------------
(* Reading a list, newest row first.                                       *)

LEMMA Reversed ==
    ASSUME NEW S, NEW k \in Seq(S)
    PROVE  /\ F!Reverse(k) \in Seq(S) /\ Len(F!Reverse(k)) = Len(k)
           /\ \A i \in 1 .. Len(k) : F!Reverse(k)[i] = k[(Len(k) - i) + 1]
           /\ F!ToSet(F!Reverse(k)) = Those(k, Len(k))
<1> DEFINE r == F!Reverse(k)
<1>1. r = [i \in 1 .. Len(k) |-> k[(Len(k) - i) + 1]]
  BY DEF F!Reverse
<1>2. \A i \in 1 .. Len(k) : (Len(k) - i) + 1 \in 1 .. Len(k)
                            /\ (Len(k) - ((Len(k) - i) + 1)) + 1 = i
  OBVIOUS
<1>3. r \in Seq(S) /\ Len(r) = Len(k) /\ DOMAIN r = 1 .. Len(k)
      /\ \A i \in 1 .. Len(k) : r[i] = k[(Len(k) - i) + 1]
  BY <1>1, <1>2
<1> HIDE DEF r
<1>4. F!ToSet(r) = Those(k, Len(k))
  <2>1. F!ToSet(r) = {r[i] : i \in 1 .. Len(k)}
    BY <1>3 DEF F!ToSet
  <2>2. \A i \in 1 .. Len(k) : \E j \in 1 .. Len(k) : r[i] = k[j]
    BY <1>2, <1>3
  <2>3. \A j \in 1 .. Len(k) : r[(Len(k) - j) + 1] = k[j] /\ (Len(k) - j) + 1 \in 1 .. Len(k)
    BY <1>2, <1>3
  <2>4. \A j \in 1 .. Len(k) : \E i \in 1 .. Len(k) : r[i] = k[j]
    BY <2>3
  <2> DEFINE down == {r[i] : i \in 1 .. Len(k)}
             up == {k[j] : j \in 1 .. Len(k)}
  <2>5. ASSUME NEW x \in down PROVE x \in up
    <3>1. PICK i \in 1 .. Len(k) : x = r[i]
      OBVIOUS
    <3> QED
      BY <2>2, <3>1
  <2>6. ASSUME NEW x \in up PROVE x \in down
    <3>1. PICK j \in 1 .. Len(k) : x = k[j]
      OBVIOUS
    <3> QED
      BY <2>4, <3>1
  <2>7. down = up
    <3> HIDE DEF down, up
    <3> QED
      BY <2>5, <2>6
  <2> QED
    BY <2>1, <2>7 DEF Those
<1> QED
  BY <1>3, <1>4 DEF r

(* What has been seen of the rows k, of which the first n were there at    *)
(* first, when the first b of the list have been asked for.                *)
Upto(k, b) == IF b < Len(k) THEN b ELSE Len(k)
ReadTo(k, n, b, seen) ==
    /\ n \in 0 .. Len(k)
    /\ \A q \in 1 .. n : (Len(k) - q) + 1 <= b => k[q] \in Those(seen, Len(seen))
    /\ n = Len(k) => seen = SubSeq(F!Reverse(k), 1, Upto(k, b))

(* A row that joins moves the others down.                                 *)
LEMMA ReadGrows ==
    ASSUME NEW S, NEW k \in Seq(S), NEW m \in S, NEW n, NEW b \in Nat, NEW seen,
           ReadTo(k, n, b, seen)
    PROVE  /\ ReadTo(Append(k, m), n, b, seen)
           /\ n # Len(Append(k, m)) /\ Those(Append(k, m), n) = Those(k, n)
<1>1. /\ Len(Append(k, m)) = Len(k) + 1 /\ Len(k) \in Nat /\ n \in 0 .. Len(k)
      /\ \A q \in 1 .. Len(k) : Append(k, m)[q] = k[q]
  BY DEF ReadTo
<1>2. Those(Append(k, m), n) = Those(k, n)
  BY <1>1 DEF Those
<1>3. \A q \in 1 .. n : ((Len(k) + 1) - q) + 1 <= b => (Len(k) - q) + 1 <= b
  BY <1>1
<1> QED
  BY <1>1, <1>2, <1>3 DEF ReadTo

LEMMA PageRead ==
    ASSUME NEW S, NEW k \in Seq(S), NEW seen \in Seq(S), NEW P \in Nat, NEW b \in Nat,
           NEW n, ReadTo(k, n, b, seen)
    PROVE  LET page == SubSeq(F!Reverse(k), b + 1, Upto(k, b + P))
           IN  seen \o page \in Seq(S) /\ ReadTo(k, n, b + P, seen \o page)
<1> DEFINE r == F!Reverse(k)
           c == Upto(k, b + P)
           page == SubSeq(r, b + 1, c)
           all == seen \o page
<1>1. /\ r \in Seq(S) /\ Len(r) = Len(k) /\ Len(k) \in Nat
      /\ \A i \in 1 .. Len(k) : r[i] = k[(Len(k) - i) + 1]
  BY Reversed
<1>2. c \in Nat /\ c <= Len(k) /\ c <= b + P /\ (c = b + P \/ c = Len(k))
  BY DEF Upto
<1> HIDE DEF r, c
<1>3. \A i \in b + 1 .. c : r[i] \in S
  BY <1>1, <1>2
<1>4. /\ page \in Seq(S) /\ Len(page) = IF b + 1 <= c THEN c - b ELSE 0
      /\ \A i \in 1 .. c - b : page[i] = r[b + i]
  <2>1. b + 1 \in Int /\ c \in Int
    BY <1>2
  <2>2. /\ page \in Seq(S) /\ Len(page) = IF b + 1 <= c THEN c - (b + 1) + 1 ELSE 0
        /\ \A i \in 1 .. c - (b + 1) + 1 : page[i] = r[(b + 1) + i - 1]
    BY <1>3, <2>1, SubSeqProperties
  <2>3. c - (b + 1) + 1 = c - b /\ \A i \in Int : (b + 1) + i - 1 = b + i
    BY <2>1
  <2> HIDE DEF page
  <2> QED
    BY <2>2, <2>3
<1> HIDE DEF page
<1>5. /\ all \in Seq(S) /\ Len(all) = Len(seen) + Len(page)
      /\ \A i \in 1 .. Len(seen) : all[i] = seen[i]
      /\ \A i \in 1 .. Len(page) : all[Len(seen) + i] = page[i]
  BY <1>4
<1> HIDE DEF all
<1>6. Those(seen, Len(seen)) \cup Those(page, Len(page)) \subseteq Those(all, Len(all))
  <2>1. \A i \in 1 .. Len(seen) : i \in 1 .. Len(all)
    BY <1>4, <1>5
  <2>2. \A i \in 1 .. Len(page) : Len(seen) + i \in 1 .. Len(all)
    BY <1>4, <1>5
  <2> QED
    BY <1>5, <2>1, <2>2 DEF Those
<1>7. ASSUME NEW q \in 1 .. n, (Len(k) - q) + 1 <= b + P
      PROVE  k[q] \in Those(all, Len(all))
  <2> DEFINE i == (Len(k) - q) + 1
  <2>1. n \in 0 .. Len(k) /\ q \in 1 .. Len(k) /\ i \in 1 .. Len(k) /\ (Len(k) - i) + 1 = q
    BY <1>1 DEF ReadTo
  <2>2. CASE i <= b
    BY <1>6, <2>2 DEF ReadTo
  <2>3. CASE i > b
    <3>1. i - b \in 1 .. c - b /\ i - b \in 1 .. Len(page) /\ b + (i - b) = i
      BY <1>2, <1>4, <1>7, <2>1, <2>3
    <3> HIDE DEF i
    <3>2. page[i - b] = k[q]
      BY <1>1, <1>4, <2>1, <3>1
    <3>3. k[q] \in Those(page, Len(page))
      BY <3>1, <3>2 DEF Those
    <3> QED
      BY <1>6, <3>3
  <2> QED
    BY <2>1, <2>2, <2>3
<1>8. ASSUME n = Len(k) PROVE all = SubSeq(r, 1, c)
  <2>1. seen = SubSeq(r, 1, Upto(k, b))
    BY <1>8 DEF ReadTo, r
  <2>2. CASE b < Len(k)
    <3>1. Upto(k, b) = b /\ b <= c
      BY <1>2, <2>2 DEF Upto
    <3>2. all = SubSeq(r, 1, b) \o SubSeq(r, b + 1, c)
      BY <2>1, <3>1 DEF all, page
    <3>3. 1 \in 1 .. Len(r) + 1 /\ b \in 1 - 1 .. Len(r) /\ c \in b .. Len(r)
      BY <1>1, <1>2, <2>2, <3>1
    <3> QED
      BY <1>1, <3>2, <3>3, ConcatAdjacentSubSeq
  <2>3. CASE ~(b < Len(k))
    <3>1. Upto(k, b) = Len(k) /\ c = Len(k) /\ ~(b + 1 <= c)
      BY <1>1, <1>2, <2>3 DEF Upto
    <3>2. Len(page) = 0
      BY <1>4, <3>1
    <3>3. page = <<>>
      BY <1>4, <3>2
    <3> QED
      BY <1>4, <2>1, <3>1, <3>3 DEF all
  <2> QED
    BY <2>2, <2>3
<1>9. n \in 0 .. Len(k)
  BY DEF ReadTo
<1> QED
  BY <1>5, <1>7, <1>8, <1>9 DEF ReadTo, all, page, r, c

(* What is left when fewer have been asked for than there are.             *)
LEMMA ReadBut ==
    ASSUME NEW S, NEW k \in Seq(S), NEW seen \in Seq(S), NEW b \in Nat, NEW n,
           ReadTo(k, n, b, seen), NEW few \in Nat, b + few >= Len(k)
    PROVE  /\ IsFiniteSet(Those(k, n) \ Those(seen, Len(seen)))
           /\ Cardinality(Those(k, n) \ Those(seen, Len(seen))) <= few
<1> DEFINE missed == Those(k, n) \ Those(seen, Len(seen))
<1>1. Len(k) \in Nat /\ n \in 0 .. Len(k)
  BY DEF ReadTo
<1>2. \A q \in 1 .. n : q > few => (Len(k) - q) + 1 <= b
  BY <1>1
<1>3. missed \subseteq {k[q] : q \in 1 .. few}
  <2> SUFFICES ASSUME NEW m \in missed PROVE \E q \in 1 .. few : m = k[q]
    OBVIOUS
  <2>1. PICK q \in 1 .. n : m = k[q]
    BY DEF Those
  <2>2. m \notin Those(seen, Len(seen))
    OBVIOUS
  <2>3. ~ (Len(k) - q) + 1 <= b
    BY <2>1, <2>2 DEF ReadTo
  <2>4. q <= few
    BY <1>1, <1>2, <2>3
  <2> QED
    BY <1>1, <2>1, <2>4
<1>4. IsFiniteSet(1 .. few) /\ Cardinality(1 .. few) = few
  BY FS_Interval
<1> DEFINE f == [q \in 1 .. few |-> k[q]]
<1>5. /\ IsFiniteSet({k[q] : q \in 1 .. few})
      /\ Cardinality({k[q] : q \in 1 .. few}) <= few
  <2> DEFINE some == {k[q] : q \in 1 .. few}
  <2>1. f \in Surjection(1 .. few, some)
    BY DEF Surjection
  <2> HIDE DEF f, some
  <2>2. IsFiniteSet(some) /\ Cardinality(some) <= Cardinality(1 .. few)
    BY <1>4, <2>1, FS_Surjection
  <2> QED
    BY <1>4, <2>2 DEF some
<1>6. /\ IsFiniteSet(missed)
      /\ Cardinality(missed) <= Cardinality({k[q] : q \in 1 .. few})
  BY <1>3, <1>5, FS_Subset
<1>7. Cardinality(missed) \in Nat /\ Cardinality({k[q] : q \in 1 .. few}) \in Nat
  BY <1>5, <1>6, FS_CardinalityType
<1> QED
  BY <1>5, <1>6, <1>7

(* Nothing is left when as many have been asked for as there are.          *)
LEMMA ReadAll ==
    ASSUME NEW S, NEW k \in Seq(S), NEW seen, NEW b \in Nat, NEW n,
           ReadTo(k, n, b, seen), b >= Len(k), n = Len(k)
    PROVE  seen = F!Reverse(k)
<1>1. Upto(k, b) = Len(k)
  BY DEF Upto
<1>2. SubSeq(F!Reverse(k), 1, Len(k)) = F!Reverse(k)
  BY Reversed, SubSeqFull
<1> QED
  BY <1>1, <1>2 DEF ReadTo

-----------------------------------------------------------------------------
(* The rows and who reads them.                                            *)

ListTyped ==
    /\ mark_world \in MarkWorlds
    /\ marks \in Seq(F!Mark) /\ Distinct(marks)
    /\ deleted \subseteq Thread
    /\ added \in [F!Mark -> 0 .. MaxAdded]
    /\ mark_req \in [Worker -> F!Mark \cup {NoMark}]

(* The rows of a list.                                                     *)
Members(list, u) ==
    CASE list = "following" -> {m \in F!Follow : m[1] = u}
      [] list = "followers" -> {m \in F!Follow : m[2] = u}
      [] list = "bookmarks" -> {m \in F!Bookmark : m[1] = u /\ m[2] \notin deleted}
Rows(list, u) == F!Among(marks, Members(list, u))

(* What the total of a list counts.                                        *)
Counted(list, u) ==
    IF list = "bookmarks" THEN {m \in F!Bookmark : m[1] = u} ELSE Members(list, u)
Count(list, u) == Len(F!Among(marks, Counted(list, u)))

Reader == {"list", "user", "page", "left", "total", "seen", "late", "there", "done"}
ReaderTyped(r) ==
    /\ DOMAIN r = Reader /\ r = [x \in Reader |-> r[x]]
    /\ r.list \in F!Lists /\ r.page \in Nat \ {0}
    /\ r.left \subseteq F!Queries /\ r.total \in Nat /\ r.late \in Int
    /\ r.seen \in Seq(F!Mark)

(* How many of the list have been asked for.                               *)
Asked(r) == IF "rows" \in r.left THEN (r.page - 1) * mark_world.per_page
            ELSE r.page * mark_world.per_page

(* What is missed when the reading is done, of the rows k.                 *)
Missed(r, k, n) ==
    /\ IsFiniteSet(r.there \ Those(r.seen, Len(r.seen)))
    /\ Cardinality(r.there \ Those(r.seen, Len(r.seen))) <= r.late
    /\ n = Len(k) => r.seen = F!Reverse(k)

(* How far the list has been read: of the rows k, of which the first n     *)
(* were there at first.  A total counts all these.                         *)
ReadOf(r, k, n) ==
    /\ r.there = Those(k, n) /\ ReadTo(k, n, Asked(r), r.seen)
    /\ "total" \notin r.left => n <= r.total /\ r.total <= Count(r.list, r.user)
    /\ r.late \in Nat

ReadInv ==
    reader # F!NoReader =>
      /\ ReaderTyped(reader)
      /\ F!Without({"remove"}) =>
           LET k == Rows(reader.list, reader.user)
           IN  \E n \in 0 .. Len(k) :
                 /\ ReadOf(reader, k, n) /\ reader.left # {}
                 /\ reader.done => Missed(reader, k, n)

LEMMA ListFacts ==
    /\ MaxAdded \in Nat \ {0}
    /\ F!Follow \subseteq F!Mark /\ F!Bookmark \subseteq F!Mark
    /\ \A x \in MarkWorlds : x.per_page \in Nat \ {0} /\ x.lists \subseteq F!Lists
  BY MemberConstants DEF F!MarkConstants, F!Mark

LEMMA ListsRows ==
    ASSUME NEW list \in F!Lists, NEW u
    PROVE  F!Listed(list, u) = F!Reverse(Rows(list, u))
  BY DEF F!Lists, F!Listed, Rows, Members, F!Newest, F!list_following, F!list_followers,
     F!list_for_user

LEMMA RowsFacts ==
    ASSUME ListTyped, NEW list, NEW u
    PROVE  /\ Rows(list, u) \in Seq(F!Mark) /\ Distinct(Rows(list, u))
           /\ Len(Rows(list, u)) \in Nat
  BY AmongFacts DEF ListTyped, Rows

(* Nothing that is read changes.                                           *)
LEMMA ReadStays ==
    ASSUME ReadInv, UNCHANGED <<mark_world, marks, deleted, reader>>
    PROVE  ReadInv'
<1>1. /\ Rows(reader.list, reader.user)' = Rows(reader.list, reader.user)
      /\ Count(reader.list, reader.user)' = Count(reader.list, reader.user)
      /\ Asked(reader)' = Asked(reader) /\ F!Without({"remove"})' = F!Without({"remove"})
  BY DEF Rows, Members, Count, Counted, F!Among, Asked, F!Without
<1>2. ReaderTyped(reader) => ReaderTyped(reader)'
  BY DEF ReaderTyped
<1> DEFINE k == Rows(reader.list, reader.user)
<1>3. k' = k
  BY <1>1
<1> HIDE DEF k
<1>4. ASSUME NEW n \in 0 .. Len(k), ReadOf(reader, k, n), reader.done => Missed(reader, k, n)
      PROVE  ReadOf(reader, k, n)' /\ (reader'.done => Missed(reader, k, n)')
  BY <1>1, <1>3, <1>4 DEF ReadOf, Missed
<1> QED
  BY <1>1, <1>2, <1>3, <1>4 DEF ReadInv, k

LEMMA ReadOthers ==
    ASSUME ReadInv, UNCHANGED <<mark_world, reader>>, ~F!Without({"remove"})
    PROVE  ReadInv'
  BY DEF ReadInv, ReaderTyped, F!Without

LEMMA AskedNat ==
    ASSUME ListTyped, NEW r, ReaderTyped(r)
    PROVE  /\ Asked(r) \in Nat /\ mark_world.per_page \in Nat \ {0}
           /\ (r.page - 1) * mark_world.per_page \in Nat
           /\ r.page * mark_world.per_page =
                (r.page - 1) * mark_world.per_page + mark_world.per_page
<1> DEFINE P == mark_world.per_page
<1>1. P \in Nat \ {0} /\ r.page \in Nat \ {0}
  BY ListFacts DEF ListTyped, ReaderTyped
<1> HIDE DEF P
<1>2. PICK j \in Nat : r.page = j + 1 /\ r.page - 1 = j
  <2>1. r.page - 1 \in Nat /\ r.page = (r.page - 1) + 1
    BY <1>1
  <2> QED
    BY <2>1
<1>3. j * P \in Nat /\ (j + 1) * P = j * P + P
  BY <1>1
<1> QED
  BY <1>1, <1>2, <1>3 DEF Asked, P

LEMMA CountCovers ==
    ASSUME ListTyped, NEW list \in F!Lists, NEW u
    PROVE  F!CountForUser(list, u) \in Nat /\ F!CountForUser(list, u) >= Len(Rows(list, u))
<1>1. CASE list # "bookmarks"
  BY <1>1, ListsRows, RowsFacts, Reversed DEF F!CountForUser
<1>2. CASE list = "bookmarks"
  <2> DEFINE some == Members(list, u)
             more == {m \in F!Bookmark : m[1] = u}
  <2>1. some \subseteq more
    BY <1>2 DEF Members
  <2>2. F!CountForUser(list, u) = Len(F!Reverse(F!Among(marks, more)))
    BY <1>2 DEF F!CountForUser, F!Newest
  <2>3. marks \in Seq(F!Mark) /\ Rows(list, u) = F!Among(marks, some)
    BY DEF ListTyped, Rows
  <2> HIDE DEF some, more
  <2>4. F!Among(marks, more) \in Seq(F!Mark)
    BY <2>3, AmongFacts
  <2>5. Len(F!Among(marks, some)) <= Len(F!Among(marks, more))
    BY <2>1, <2>3, AmongMore
  <2>6. Len(F!Among(marks, some)) \in Nat /\ Len(F!Among(marks, more)) \in Nat
    BY <2>3, <2>4, RowsFacts
  <2> QED
    BY <2>2, <2>3, <2>4, <2>5, <2>6, Reversed
<1> QED
  BY <1>1, <1>2

LEMMA CountOf ==
    ASSUME ListTyped, NEW list \in F!Lists, NEW u
    PROVE  F!CountForUser(list, u) = Count(list, u) /\ Count(list, u) \in Nat
<1>1. \A some : F!Among(marks, some) \in Seq(F!Mark)
  BY AmongFacts DEF ListTyped
<1>2. CASE list # "bookmarks"
  BY <1>1, <1>2, ListsRows, Reversed DEF F!CountForUser, Count, Counted, Rows
<1>3. CASE list = "bookmarks"
  BY <1>1, <1>3, Reversed DEF F!CountForUser, Count, Counted, F!Newest
<1> QED
  BY <1>2, <1>3

LEMMA CountGrows ==
    ASSUME ListTyped, UNCHANGED deleted, NEW m \in F!Mark, marks' = Append(marks, m),
           NEW list, NEW u
    PROVE  Count(list, u)' \in Nat /\ Count(list, u)' >= Count(list, u) /\ Count(list, u) \in Nat
<1> DEFINE some == Counted(list, u)
<1>1. Counted(list, u)' = some
  BY DEF Counted, Members
<1>2. marks \in Seq(F!Mark) /\ F!Among(marks, some) \in Seq(F!Mark)
  BY AmongFacts DEF ListTyped
<1>3. Count(list, u) = Len(F!Among(marks, some))
  BY DEF Count
<1>4. Count(list, u)' = Len(F!Among(marks', some))
  BY <1>1 DEF Count, F!Among
<1> HIDE DEF some
<1>5. F!Among(Append(marks, m), some) =
        IF m \in some THEN Append(F!Among(marks, some), m) ELSE F!Among(marks, some)
  BY <1>2, AmongAppend
<1> QED
  BY <1>2, <1>3, <1>4, <1>5

(* A row is inserted.                                                      *)
LEMMA ReadInserted ==
    ASSUME ReadInv, ListTyped, UNCHANGED <<mark_world, deleted, reader>>,
           NEW m \in F!Mark, m \notin F!ToSet(marks), marks' = Append(marks, m)
    PROVE  ReadInv'
<1> SUFFICES ASSUME reader # F!NoReader, F!Without({"remove"})
             PROVE  ReadInv'
  BY DEF ReadInv, ReaderTyped, F!Without
<1> DEFINE k == Rows(reader.list, reader.user)
           b == Asked(reader)
<1>1. /\ ReaderTyped(reader)
      /\ \E n \in 0 .. Len(k) : /\ ReadOf(reader, k, n) /\ reader.left # {}
                                /\ reader.done => Missed(reader, k, n)
  BY DEF ReadInv
<1>2. Members(reader.list, reader.user)' = Members(reader.list, reader.user)
  BY DEF Members
<1>3. k' = IF m \in Members(reader.list, reader.user) THEN Append(k, m) ELSE k
  <2> DEFINE some == Members(reader.list, reader.user)
  <2>1. k' = F!Among(marks', some)
    BY <1>2 DEF Rows, F!Among
  <2>2. marks \in Seq(F!Mark) /\ k = F!Among(marks, some)
    BY DEF ListTyped, Rows
  <2> HIDE DEF some, k
  <2>3. F!Among(Append(marks, m), some) =
          IF m \in some THEN Append(F!Among(marks, some), m) ELSE F!Among(marks, some)
    BY <2>2, AmongAppend
  <2> QED
    BY <2>1, <2>2, <2>3 DEF some
<1>4. b' = b /\ b \in Nat
  BY <1>1, AskedNat DEF Asked
<1>5. k \in Seq(F!Mark) /\ Len(k) \in Nat
  BY RowsFacts
<1>6. PICK n \in 0 .. Len(k) : /\ ReadOf(reader, k, n) /\ reader.left # {}
                               /\ reader.done => Missed(reader, k, n)
  BY <1>1
<1>7. reader.there = Those(k, n) /\ ReadTo(k, n, b, reader.seen)
  BY <1>6 DEF ReadOf
<1>8. ReaderTyped(reader)' /\ ("total" \notin reader.left =>
            reader.total <= Count(reader.list, reader.user)')
  <2>1. reader.total \in Nat
    BY <1>1 DEF ReaderTyped
  <2> DEFINE u == reader.user
             list == reader.list
  <2>2. ASSUME NEW l, NEW v, l = list, v = u
        PROVE  /\ Count(l, v)' = Count(reader.list, reader.user)'
               /\ Count(l, v) = Count(reader.list, reader.user)
    BY <2>2 DEF Count, Counted, Members
  <2>3. ASSUME NEW l, NEW v, l = list, v = u
        PROVE  Count(l, v)' \in Nat /\ Count(l, v)' >= Count(l, v) /\ Count(l, v) \in Nat
    BY CountGrows
  <2>4. /\ Count(reader.list, reader.user)' \in Nat
        /\ Count(reader.list, reader.user)' >= Count(reader.list, reader.user)
        /\ Count(reader.list, reader.user) \in Nat
    <3>1. ASSUME NEW l, NEW v, l = list, v = u
          PROVE  /\ Count(reader.list, reader.user)' \in Nat
                 /\ Count(reader.list, reader.user)' >= Count(reader.list, reader.user)
                 /\ Count(reader.list, reader.user) \in Nat
      BY <2>2, <2>3, <3>1
    <3> QED
      BY <3>1
  <2>5. ReaderTyped(reader)'
    BY <1>1 DEF ReaderTyped
  <2> DEFINE more == Count(reader.list, reader.user)'
             before == Count(reader.list, reader.user)
  <2>6. "total" \notin reader.left => reader.total <= before
    BY <1>6 DEF ReadOf
  <2>7. more \in Nat /\ more >= before /\ before \in Nat
    BY <2>4
  <2> HIDE DEF more, before
  <2>8. "total" \notin reader.left => reader.total <= more
    BY <2>1, <2>6, <2>7
  <2> QED
    BY <2>5, <2>8 DEF more
<1>9. "total" \notin reader.left => n <= reader.total
  BY <1>6 DEF ReadOf
<1>10. /\ ReadTo(k', n, b, reader.seen) /\ Those(k', n) = Those(k, n) /\ n \in 0 .. Len(k')
       /\ n = Len(k') => k' = k
  <2>1. CASE k' = k
    BY <1>6, <1>7, <2>1
  <2>2. CASE k' = Append(k, m)
    <3>1. /\ ReadTo(k', n, b, reader.seen) /\ n # Len(k') /\ Those(k', n) = Those(k, n)
      BY <1>4, <1>5, <1>7, <2>2, ReadGrows
    <3>2. n \in 0 .. Len(k')
      BY <3>1 DEF ReadTo
    <3> QED
      BY <3>1, <3>2
  <2> QED
    BY <1>3, <2>1, <2>2
<1>11. ReadOf(reader, k, n)'
  <2>1. Asked(reader)' = b
    BY <1>4 DEF b
  <2> QED
    BY <1>6, <1>7, <1>8, <1>9, <1>10, <2>1 DEF ReadOf
<1>12. reader.done => Missed(reader, k, n)'
  BY <1>6, <1>10 DEF Missed
<1> QED
  BY <1>6, <1>8, <1>10, <1>11, <1>12 DEF ReadInv, k

LEMMA ReadBegins ==
    ASSUME ListTyped, F!BeginRead
    PROVE  ReadInv'
<1>1. PICK list \in mark_world.lists, u \in Member :
        reader' = [list |-> list, user |-> u, page |-> 1, left |-> F!Queries,
                   total |-> 0, seen |-> <<>>, late |-> 0,
                   there |-> F!ToSet(F!Listed(list, u)), done |-> FALSE]
  BY DEF F!BeginRead
<1>2. UNCHANGED <<mark_world, marks, deleted>>
  BY DEF F!BeginRead
<1>3. list \in F!Lists
  BY ListFacts DEF ListTyped
<1> DEFINE k == Rows(list, u)
           there == F!ToSet(F!Listed(list, u))
<1>4. k \in Seq(F!Mark) /\ Len(k) \in Nat /\ there = Those(k, Len(k))
  BY <1>3, ListsRows, RowsFacts, Reversed
<1> HIDE DEF there
<1>5. /\ reader'.list = list /\ reader'.user = u /\ reader'.page = 1 /\ reader'.seen = <<>>
      /\ reader'.there = there /\ reader'.done = FALSE /\ reader'.left = F!Queries
      /\ reader'.total = 0 /\ reader'.late = 0
      /\ DOMAIN reader' = Reader /\ reader' = [x \in Reader |-> reader'[x]]
  BY <1>1 DEF there, Reader
<1>6. ReaderTyped(reader)'
  BY <1>3, <1>5 DEF ReaderTyped, F!Queries
<1>7. Rows(reader.list, reader.user)' = k
  BY <1>2, <1>5 DEF Rows, Members, F!Among
<1>8. ReadTo(k, Len(k), 0, <<>>)
  <2>1. Upto(k, 0) = 0
    BY <1>4 DEF Upto
  <2>2. SubSeq(F!Reverse(k), 1, 0) = <<>>
    BY SubSeqEmpty
  <2>3. \A q \in 1 .. Len(k) : ~((Len(k) - q) + 1 <= 0)
    BY <1>4
  <2> QED
    BY <1>4, <2>1, <2>2, <2>3 DEF ReadTo
<1>9. Asked(reader)' = 0
  <2>1. mark_world'.per_page \in Nat
    BY <1>2, ListFacts DEF ListTyped
  <2>2. "rows" \in F!Queries
    BY DEF F!Queries
  <2> QED
    BY <1>5, <2>1, <2>2 DEF Asked
<1>10. "total" \in F!Queries
  BY DEF F!Queries
<1> HIDE DEF k
<1>11. ReadOf(reader, k, Len(k))'
  <2>1. k' = k
    BY <1>2 DEF k, Rows, Members, F!Among
  <2> QED
    BY <1>4, <1>5, <1>8, <1>9, <1>10, <2>1 DEF ReadOf
<1> QED
  BY <1>4, <1>5, <1>6, <1>7, <1>10, <1>11 DEF ReadInv, k

(* A query of a page has been answered, r; the page may be, too.           *)
LEMMA PageAnswered ==
    ASSUME ListTyped, UNCHANGED <<mark_world, marks, deleted>>, NEW r, ReaderTyped(r),
           ~r.done, reader' = F!Answered(r),
           F!Without({"remove"}) =>
             LET k == Rows(r.list, r.user)
             IN  /\ \E n \in 0 .. Len(k) : ReadOf(r, k, n)
                 /\ r.left = {} => r.total + r.late >= Len(k)
    PROVE  ReadInv'
<1> DEFINE k == Rows(r.list, r.user)
           P == mark_world.per_page
<1>1. CASE r.left # {}
  <2>1. reader' = r
    BY <1>1 DEF F!Answered
  <2> QED
    <3>1. /\ Rows(reader.list, reader.user)' = k
          /\ Count(reader.list, reader.user)' = Count(r.list, r.user)
          /\ Asked(reader)' = Asked(r) /\ F!Without({"remove"})' = F!Without({"remove"})
      BY <2>1 DEF Rows, Members, Count, Counted, F!Among, Asked, F!Without
    <3>2. ReaderTyped(reader)' /\ reader'.left # {} /\ ~reader'.done
      BY <1>1, <2>1 DEF ReaderTyped
    <3>3. k' = k
      BY DEF Rows, Members, F!Among
    <3> HIDE DEF k
    <3>4. ASSUME NEW n \in 0 .. Len(k), ReadOf(r, k, n)
          PROVE  ReadOf(reader, k, n)'
      BY <2>1, <3>1, <3>3, <3>4 DEF ReadOf
    <3>5. F!Without({"remove"}) => \E n \in 0 .. Len(k) : ReadOf(r, k, n)
      BY DEF k
    <3> QED
      BY <3>1, <3>2, <3>3, <3>4, <3>5 DEF ReadInv
<1>2. CASE r.left = {}
  <2>1. reader' = [r EXCEPT !.page = r.page + 1, !.left = F!Queries,
                            !.done = r.page * P >= r.total]
    BY <1>2 DEF F!Answered
  <2>2. /\ DOMAIN reader' = Reader /\ reader' = [x \in Reader |-> reader'[x]]
        /\ reader'.list = r.list /\ reader'.user = r.user /\ reader'.there = r.there
        /\ reader'.seen = r.seen /\ reader'.total = r.total /\ reader'.late = r.late
        /\ reader'.page = r.page + 1 /\ reader'.left = F!Queries
        /\ reader'.done = (r.page * P >= r.total)
    BY <2>1 DEF ReaderTyped, Reader
  <2>3. ReaderTyped(reader')
    BY <2>2 DEF ReaderTyped
  <2>4. "rows" \in F!Queries /\ "total" \in F!Queries
    BY DEF F!Queries
  <2>5. Asked(r) = r.page * P /\ Asked(reader)' = r.page * P /\ Asked(r) \in Nat
    <3>1. (r.page + 1) - 1 = r.page
      BY DEF ReaderTyped
    <3> QED
      BY <1>2, <2>2, <2>4, <3>1, AskedNat DEF Asked
  <2>6. k \in Seq(F!Mark) /\ Len(k) \in Nat /\ Rows(reader.list, reader.user)' = k
        /\ Count(reader.list, reader.user)' = Count(r.list, r.user)
    <3>1. Rows(reader.list, reader.user)' = k
      BY <2>2 DEF Rows, Members, F!Among
    <3>2. Count(reader.list, reader.user)' = Count(r.list, r.user)
      BY <2>2 DEF Count, Counted, Members, F!Among
    <3> QED
      BY <3>1, <3>2, RowsFacts
  <2>7. ASSUME F!Without({"remove"}), NEW n \in 0 .. Len(k), ReadOf(r, k, n),
               r.total + r.late >= Len(k)
        PROVE  ReadOf(reader, k, n)' /\ (reader'.done => Missed(reader', k, n))
    <3> HIDE DEF k
    <3>0. k' = k
      BY DEF k, Rows, Members, F!Among
    <3>1. /\ r.there = Those(k, n) /\ ReadTo(k, n, Asked(r), r.seen) /\ r.late \in Nat
          /\ n <= r.total /\ r.total \in Nat /\ r.seen \in Seq(F!Mark)
      BY <1>2, <2>7 DEF ReadOf, ReaderTyped
    <3>2. ReadOf(reader, k, n)'
      BY <2>2, <2>4, <2>5, <2>6, <3>0, <3>1 DEF ReadOf
    <3>3. ASSUME reader'.done PROVE Missed(reader', k, n)
      <4>1. Asked(r) >= r.total
        BY <2>2, <2>5, <3>3
      <4>2. Asked(r) + r.late >= Len(k)
        BY <2>5, <2>6, <2>7, <3>1, <4>1
      <4>3. /\ IsFiniteSet(Those(k, n) \ Those(r.seen, Len(r.seen)))
            /\ Cardinality(Those(k, n) \ Those(r.seen, Len(r.seen))) <= r.late
        BY <2>5, <2>6, <3>1, <4>2, ReadBut
      <4>4. n = Len(k) => r.seen = F!Reverse(k)
        <5>1. n = Len(k) => Asked(r) >= Len(k)
          BY <2>5, <2>6, <3>1, <4>1
        <5> QED
          BY <2>5, <2>6, <3>1, <5>1, ReadAll
      <4> QED
        BY <2>2, <3>1, <4>3, <4>4 DEF Missed
    <3> QED
      BY <3>2, <3>3
  <2>8. F!Without({"remove"})' = F!Without({"remove"})
    BY DEF F!Without
  <2> HIDE DEF k
  <2>9. F!Without({"remove"}) =>
          \E n \in 0 .. Len(k) : ReadOf(reader, k, n)' /\ (reader'.done => Missed(reader', k, n))
    BY <1>2, <2>7 DEF k
  <2>10. k' = k
    BY DEF k, Rows, Members, F!Among
  <2> QED
    BY <2>2, <2>3, <2>4, <2>6, <2>8, <2>9, <2>10 DEF ReadInv, ReadOf, Missed
<1> QED
  BY <1>1, <1>2

LEMMA TotalRead ==
    ASSUME ReadInv, ListTyped, F!ReadTotal
    PROVE  ReadInv'
<1> DEFINE count == Count(reader.list, reader.user)
           r == [reader EXCEPT !.left = reader.left \ {"total"}, !.total = count]
           k == Rows(reader.list, reader.user)
<1>1. /\ ReaderTyped(reader) /\ reader # F!NoReader /\ ~reader.done
      /\ UNCHANGED <<mark_world, marks, deleted>> /\ reader' = F!Answered(r)
  BY CountOf DEF ReadInv, ReaderTyped, F!ReadTotal, F!Query
<1>2. /\ count \in Nat /\ count >= Len(k) /\ k \in Seq(F!Mark) /\ Len(k) \in Nat
  BY <1>1, CountCovers, CountOf, RowsFacts DEF ReaderTyped
<1> HIDE DEF count
<1>3. /\ DOMAIN r = Reader /\ r = [x \in Reader |-> r[x]]
      /\ r.list = reader.list /\ r.user = reader.user /\ r.there = reader.there
      /\ r.seen = reader.seen /\ r.late = reader.late /\ r.page = reader.page
      /\ r.left = reader.left \ {"total"} /\ r.total = count /\ r.done = reader.done
  BY <1>1 DEF ReaderTyped, Reader
<1> HIDE DEF r
<1>4. ReaderTyped(r)
  BY <1>1, <1>2, <1>3 DEF ReaderTyped
<1>5. Asked(r) = Asked(reader)
  BY <1>3 DEF Asked
<1> HIDE DEF k
<1>6. ASSUME F!Without({"remove"}), NEW n \in 0 .. Len(k), ReadOf(reader, k, n)
      PROVE  ReadOf(r, k, n) /\ r.total + r.late >= Len(k)
  <2>1. n <= count /\ count = Count(r.list, r.user) /\ reader.late \in Nat
    BY <1>2, <1>3, <1>6 DEF count, ReadOf
  <2> QED
    BY <1>2, <1>3, <1>5, <1>6, <2>1 DEF ReadOf
<1>7. k = Rows(r.list, r.user)
  BY <1>3 DEF k
<1>8. F!Without({"remove"}) => \E n \in 0 .. Len(k) : ReadOf(reader, k, n)
  BY <1>1 DEF ReadInv, k
<1> QED
  BY <1>1, <1>3, <1>4, <1>6, <1>7, <1>8, PageAnswered

LEMMA RowsRead ==
    ASSUME ReadInv, ListTyped, F!ReadRows
    PROVE  ReadInv'
<1> DEFINE k == Rows(reader.list, reader.user)
           P == mark_world.per_page
           b == (reader.page - 1) * P
           page == SubSeq(F!Reverse(k), b + 1, Upto(k, b + P))
           count == Count(reader.list, reader.user)
           seen == reader.seen \o page
           joined == IF "total" \in reader.left THEN 0 ELSE count - reader.total
           r == [reader EXCEPT !.left = reader.left \ {"rows"}, !.seen = seen, !.late = joined]
<1>1. /\ ReaderTyped(reader) /\ reader # F!NoReader /\ ~reader.done
      /\ UNCHANGED <<mark_world, marks, deleted>> /\ "rows" \in reader.left
  BY DEF ReadInv, F!ReadRows, F!Query
<1>2. /\ count \in Nat /\ count >= Len(k) /\ k \in Seq(F!Mark) /\ Len(k) \in Nat
  BY <1>1, CountCovers, CountOf, RowsFacts DEF ReaderTyped
<1>3. /\ b \in Nat /\ P \in Nat \ {0} /\ reader.page * P = b + P /\ Asked(reader) = b
      /\ reader.seen \in Seq(F!Mark) /\ reader.list \in F!Lists /\ reader.total \in Nat
  BY <1>1, AskedNat DEF Asked, ReaderTyped
<1>4. F!Listed(reader.list, reader.user) = F!Reverse(k) /\ Len(F!Reverse(k)) = Len(k)
  BY <1>2, <1>3, ListsRows, Reversed
<1>5. F!PageOf(F!Listed(reader.list, reader.user), reader.page) = page
  BY <1>3, <1>4 DEF F!PageOf, Upto
<1>6. reader' = F!Answered(r)
  BY <1>3, <1>5, CountOf DEF F!ReadRows
<1> HIDE DEF count, page, seen, joined
<1>7. /\ DOMAIN r = Reader /\ r = [x \in Reader |-> r[x]]
      /\ r.list = reader.list /\ r.user = reader.user /\ r.there = reader.there
      /\ r.seen = seen /\ r.late = joined /\ r.page = reader.page
      /\ r.left = reader.left \ {"rows"} /\ r.total = reader.total /\ r.done = reader.done
  BY <1>1 DEF ReaderTyped, Reader
<1> HIDE DEF r
<1>8. joined \in Int
  BY <1>2, <1>3 DEF joined
<1> HIDE DEF k, b
<1>9. seen \in Seq(F!Mark)
  <2>1. /\ F!Reverse(k) \in Seq(F!Mark) /\ Upto(k, b + P) \in Nat /\ Upto(k, b + P) <= Len(k)
    BY <1>2, <1>3, Reversed DEF Upto
  <2>2. \A i \in b + 1 .. Upto(k, b + P) : F!Reverse(k)[i] \in F!Mark
    BY <1>3, <1>4, <2>1
  <2>3. page \in Seq(F!Mark)
    BY <1>3, <2>1, <2>2, SubSeqProperties DEF page
  <2> QED
    BY <1>3, <2>3 DEF seen
<1>10. ReaderTyped(r)
  BY <1>1, <1>7, <1>8, <1>9 DEF ReaderTyped
<1>11. Asked(r) = b + P
  BY <1>3, <1>7 DEF Asked
<1>12. ASSUME F!Without({"remove"}), NEW n \in 0 .. Len(k), ReadOf(reader, k, n)
       PROVE  ReadOf(r, k, n) /\ (r.left = {} => r.total + r.late >= Len(k))
  <2>1. ReadTo(k, n, b, reader.seen)
    BY <1>3, <1>12 DEF ReadOf
  <2>2. ReadTo(k, n, b + P, seen)
    BY <1>2, <1>3, <2>1, PageRead DEF seen, page
  <2>3. "total" \notin reader.left => n <= reader.total /\ reader.total <= count
    BY <1>12 DEF ReadOf, count
  <2>4. joined \in Nat
    BY <1>2, <1>3, <2>3 DEF joined
  <2>5. ReadOf(r, k, n)
    BY <1>7, <1>11, <1>12, <2>2, <2>3, <2>4 DEF ReadOf, count
  <2>6. ASSUME r.left = {} PROVE r.total + r.late >= Len(k)
    <3>1. "total" \notin reader.left
      <4>1. "total" # "rows"
        OBVIOUS
      <4> QED
        BY <1>7, <2>6, <4>1
    <3> QED
      BY <1>2, <1>3, <1>7, <3>1 DEF joined
  <2> QED
    BY <2>5, <2>6
<1>13. k = Rows(r.list, r.user)
  BY <1>7 DEF k
<1>14. F!Without({"remove"}) => \E n \in 0 .. Len(k) : ReadOf(reader, k, n)
  BY <1>1 DEF ReadInv, k
<1> QED
  BY <1>1, <1>6, <1>7, <1>10, <1>12, <1>13, <1>14, PageAnswered

LEMMA SetOfRows ==
    ASSUME NEW S, NEW s \in Seq(S)
    PROVE  F!ToSet(s) = Those(s, Len(s))
<1>1. DOMAIN s = 1 .. Len(s)
  OBVIOUS
<1> QED
  BY <1>1 DEF F!ToSet, Those

(* A request moves; the rows stay.                                         *)
LEMMA ListGoes ==
    ASSUME ListTyped, UNCHANGED <<mark_world, marks, deleted, added>>,
           \/ UNCHANGED mark_req
           \/ mark_req' = [w \in Worker |-> NoMark]
           \/ \E w \in Worker, m \in F!Mark \cup {NoMark} : \E place : F!Go(w, place, m)
    PROVE  ListTyped'
<1>1. mark_req' \in [Worker -> F!Mark \cup {NoMark}]
  BY DEF ListTyped, F!Go
<1> QED
  BY <1>1 DEF ListTyped

LEMMA ListInserted ==
    ASSUME ListTyped, UNCHANGED <<mark_world, deleted>>, NEW m \in F!Mark,
           m \notin F!ToSet(marks), F!Insert(m), NEW w \in Worker, NEW place,
           NEW k \in F!Mark \cup {NoMark}, F!Go(w, place, k)
    PROVE  ListTyped'
<1>1. /\ marks \in Seq(F!Mark) /\ Distinct(marks) /\ m \notin Those(marks, Len(marks))
      /\ marks' = Append(marks, m) /\ Len(marks) \in Nat
  BY SetOfRows DEF ListTyped, F!Insert
<1>2. /\ marks' \in Seq(F!Mark) /\ Len(marks') = Len(marks) + 1 /\ marks'[Len(marks) + 1] = m
      /\ \A i \in 1 .. Len(marks) : marks'[i] = marks[i]
  BY <1>1
<1>3. \A i \in 1 .. Len(marks) : marks[i] # m
  BY <1>1 DEF Those
<1>4. Distinct(marks')
  BY <1>1, <1>2, <1>3 DEF Distinct
<1>5. added' \in [F!Mark -> 0 .. MaxAdded]
  <2>1. added[m] \in 0 .. MaxAdded /\ added[m] < MaxAdded /\ added[m] + 1 \in 0 .. MaxAdded
    BY ListFacts DEF ListTyped, F!Insert
  <2> QED
    BY <2>1 DEF ListTyped, F!Insert
<1>6. mark_req' \in [Worker -> F!Mark \cup {NoMark}]
  BY DEF ListTyped, F!Go
<1> QED
  BY <1>2, <1>4, <1>5, <1>6 DEF ListTyped

LEMMA ListMarks ==
    ASSUME FollowInv, ListTyped, ReadInv, NEW w \in Worker, F!Marking(w)
    PROVE  ListTyped' /\ ReadInv'
<1>0. UNCHANGED <<mark_world, deleted, reader>>
  BY DEF F!Marking, F!BeginFollow, F!BeginBookmark, F!Find, F!AddFollow, F!AddBookmark,
     F!Publish, F!Rest
<1>1. mark_req[w] \in F!Mark \cup {NoMark} /\ (mark_pc[w] = "add" => mark_req[w] \in F!Mark)
  BY DEF FollowInv, FollowTyped, ListTyped
<1>2. ASSUME UNCHANGED <<marks, added>>, NEW place, NEW m \in F!Mark \cup {NoMark},
             F!Go(w, place, m)
      PROVE  ListTyped' /\ ReadInv'
  BY <1>0, <1>2, ListGoes, ReadStays
<1>3. ASSUME mark_pc[w] = "add", F!Insert(mark_req[w]), mark_req[w] \notin F!ToSet(marks),
             NEW place, NEW m \in F!Mark \cup {NoMark}, F!Go(w, place, m)
      PROVE  ListTyped' /\ ReadInv'
  <2>1. ListTyped'
    BY <1>0, <1>1, <1>3, ListInserted DEF F!Insert
  <2> QED
    BY <1>0, <1>1, <1>3, <2>1, ReadInserted DEF F!Insert
<1>4. CASE F!BeginFollow(w) \/ F!BeginBookmark(w)
  BY <1>2, <1>4, ListFacts DEF F!BeginFollow, F!BeginBookmark
<1>5. CASE F!Find(w)
  BY <1>1, <1>2, <1>5 DEF F!Find, F!Finish
<1>6. CASE F!Refused(w)
  BY <1>2, <1>6 DEF F!Refused, F!Finish
<1>7. CASE F!AddFollow(w)
  BY <1>1, <1>3, <1>6, <1>7 DEF F!AddFollow
<1>8. CASE F!AddBookmark(w)
  BY <1>3, <1>6, <1>8 DEF F!AddBookmark, F!Finish
<1>9. CASE F!Publish(w)
  BY <1>2, <1>9 DEF F!Publish, F!Finish
<1> QED
  BY <1>4, <1>5, <1>7, <1>8, <1>9 DEF F!Marking

LEMMA ListLoses ==
    ASSUME ListTyped, ReadInv, NEW m, F!Unmark(m)
    PROVE  ListTyped' /\ ReadInv'
<1>1. /\ UNCHANGED <<added, mark_req, mark_world, deleted, reader>>
      /\ marks' = F!Among(marks, F!ToSet(marks) \ {m}) /\ "remove" \in mark_world.events
  BY DEF F!Unmark, F!Rest, F!Disturbed
<1>2. marks' \in Seq(F!Mark) /\ Distinct(marks')
  BY <1>1, AmongFacts DEF ListTyped
<1> QED
  BY <1>1, <1>2, ReadOthers DEF ListTyped, F!Without

LEMMA ListNext ==
    ASSUME FollowInv, ListTyped, ReadInv, F!Next
    PROVE  ListTyped' /\ ReadInv'
<1>1. CASE F!Unfollow \/ F!RemoveBookmark
  BY <1>1, ListLoses DEF F!Unfollow, F!RemoveBookmark
<1>2. CASE F!DeleteThread
  <2>1. /\ UNCHANGED <<mark_world, marks, added, reader, mark_req>>
        /\ deleted' \subseteq Thread
        /\ reader = F!NoReader \/ "remove" \in mark_world.events
    BY <1>2 DEF F!DeleteThread, F!Disturbed, ListTyped
  <2> QED
    BY <2>1, ReadOthers DEF ListTyped, ReadInv, F!Without
<1>3. CASE F!Restart
  BY <1>3, ListGoes, ReadStays DEF F!Restart, F!Rest
<1>4. CASE F!Reading
  <2>1. ListTyped'
    BY <1>4, ListGoes DEF F!Reading, F!BeginRead, F!ReadTotal, F!ReadRows,
     F!Query, F!EndRead
  <2>2. F!EndRead => ReadInv'
    BY DEF F!EndRead, ReadInv
  <2> QED
    BY <1>4, <2>1, <2>2, ReadBegins, TotalRead, RowsRead DEF F!Reading
<1> QED
  BY <1>1, <1>2, <1>3, <1>4, ListMarks DEF F!Next

LEMMA ListInitially ==
    ASSUME F!Init
    PROVE  ListTyped /\ ReadInv
<1>1. marks = <<>> /\ marks \in Seq(F!Mark) /\ Len(marks) = 0
  BY DEF F!Init
<1>2. Distinct(marks)
  BY <1>1 DEF Distinct
<1> QED
  BY <1>1, <1>2, ListFacts DEF F!Init, ListTyped, ReadInv

MarkInv == FollowInv /\ ListTyped /\ ReadInv

LEMMA ReadsToTheEnd ==
    ASSUME ListTyped, ReadInv
    PROVE  F!ReadsAll
<1> SUFFICES ASSUME F!Without({"remove"}), reader # F!NoReader, reader.done
             PROVE  /\ Cardinality(reader.there \ F!ToSet(reader.seen)) <= reader.late
                    /\ reader.there = F!ToSet(F!Listed(reader.list, reader.user)) =>
                         reader.seen = F!Listed(reader.list, reader.user)
  <2>1. F!Cardinality(reader.there \ F!ToSet(reader.seen)) =
          Cardinality(reader.there \ F!ToSet(reader.seen))
    BY DEF F!Cardinality, Cardinality, F!IsFiniteSet, IsFiniteSet
  <2> QED
    BY <2>1 DEF F!ReadsAll
<1> DEFINE k == Rows(reader.list, reader.user)
<1>1. reader.list \in F!Lists /\ reader.seen \in Seq(F!Mark)
  BY DEF ReadInv, ReaderTyped
<1>2. k \in Seq(F!Mark) /\ Distinct(k) /\ Len(k) \in Nat
  BY RowsFacts
<1>3. F!Listed(reader.list, reader.user) = F!Reverse(k)
  BY <1>1, ListsRows
<1>4. PICK n \in 0 .. Len(k) :
           /\ reader.there = Those(k, n)
           /\ Cardinality(reader.there \ Those(reader.seen, Len(reader.seen))) <= reader.late
           /\ n = Len(k) => reader.seen = F!Reverse(k)
  BY DEF ReadInv, ReadOf, Missed
<1> HIDE DEF k
<1>5. F!ToSet(F!Reverse(k)) = Those(k, Len(k))
  BY <1>2, Reversed
<1>6. ASSUME Those(k, n) = Those(k, Len(k)) PROVE n = Len(k)
  <2> SUFFICES ASSUME n < Len(k) PROVE FALSE
    BY <1>2
  <2>1. Len(k) \in 1 .. Len(k)
    BY <1>2
  <2>2. k[Len(k)] \in Those(k, Len(k))
    BY <2>1 DEF Those
  <2>3. PICK i \in 1 .. n : k[i] = k[Len(k)]
    BY <1>6, <2>2 DEF Those
  <2> QED
    BY <1>2, <2>1, <2>3 DEF Distinct
<1> QED
  BY <1>1, <1>3, <1>4, <1>5, <1>6, SetOfRows

LEMMA MarksHolding ==
    ASSUME MarkInv
    PROVE  F!MarksHold
<1>1. F!ToldOnce
  <2>1. \A S : F!Cardinality(S) = Cardinality(S)
    BY DEF F!Cardinality, Cardinality, F!IsFiniteSet, IsFiniteSet
  <2> QED
    BY <2>1 DEF MarkInv, FollowInv, FollowBalance, Owed, F!ToldOnce, F!Without
<1>2. F!Cardinality(F!ToSet(marks)) = Len(marks)
  <2>1. F!Cardinality(F!ToSet(marks)) = Cardinality(F!ToSet(marks))
    BY DEF F!Cardinality, Cardinality, F!IsFiniteSet, IsFiniteSet
  <2> QED
    BY <2>1, SetOfRows, DistinctCount DEF MarkInv, ListTyped
<1>3. told \in [F!Follow -> 0 .. MaxAdded]
  <2>1. ASSUME NEW m \in F!Follow PROVE told[m] \in 0 .. MaxAdded
    <3>1. told[m] \in Nat /\ Cardinality(Owed(m)) \in Nat /\ added[m] \in 0 .. MaxAdded
      BY OwedFinite, ListFacts DEF MarkInv, FollowInv, FollowTyped, ListTyped
    <3>2. told[m] + Cardinality(Owed(m)) <= added[m]
      BY DEF MarkInv, FollowInv, FollowBalance
    <3> QED
      BY <3>1, <3>2, ListFacts
  <2> QED
    BY <2>1 DEF MarkInv, FollowInv, FollowTyped
<1>4. F!TypeOK
  BY <1>2, <1>3 DEF MarkInv, ListTyped, F!TypeOK
<1> QED
  BY <1>1, <1>4, ReadsToTheEnd DEF MarkInv, F!MarksHold

(* A name is one account's, a member is told once of each follow, and      *)
(* whoever reads a list page by page to its end, while others mark, misses *)
(* of what was on it when he began at most as many as joined between the   *)
(* last total and its rows (auth.rs, follows.rs, bookmarks.rs).            *)
THEOREM MembersAlwaysHold == AccountSpec => []MembersHold
<1>1. AccountInit => MarkInv
  <2> SUFFICES ASSUME AccountInit
               PROVE  MarkInv
    OBVIOUS
  <2>1. F!Init
    BY DEF AccountInit
  <2>2. FollowTyped
    BY <2>1 DEF F!Init, FollowTyped
  <2>3. \A m : Owed(m) = {}
    BY <2>1 DEF F!Init, Owed
  <2>4. \A m \in F!Follow : told[m] = 0 /\ added[m] = 0
    BY <2>1 DEF F!Init, F!Mark
  <2>5. \A m : Cardinality(Owed(m)) = 0
    BY <2>3, FS_EmptySet
  <2> QED
    BY <2>1, <2>2, <2>4, <2>5, ListInitially DEF FollowInv, FollowBalance, MarkInv
<1>2. MarkInv /\ [AccountNext]_accountVars => MarkInv'
  <2>1. MarkInv /\ UNCHANGED markVars => MarkInv'
    BY FollowKept, ListGoes, ReadStays DEF MarkInv, markVars
  <2>2. MarkInv /\ F!Next => MarkInv'
    BY FollowNext, ListNext DEF MarkInv
  <2> QED
    BY <2>1, <2>2 DEF AccountNext, accountVars, otherVars
<1>3. MarkInv => F!MarksHold
  BY MarksHolding
<1> QED
  BY <1>1, <1>2, <1>3, RegistrationsAlwaysHold, PTL DEF AccountSpec, MembersHold

=============================================================================
