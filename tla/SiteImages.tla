------------------------------- MODULE SiteImages -------------------------------
(***************************************************************************)
(* The site's favicon and logo.  The row of site_config holds the address  *)
(* of the stored file, a copy of it in memory is what pages show.  Unlike  *)
(* the pointers of BlobPointers no foreign key guards the file, and the    *)
(* request that gives the last reference back deletes the file itself.     *)
(*                                                                         *)
(* Sources: handlers/admin/api/config.rs, stored_file_repository.rs and    *)
(* startup.rs, which fills the copy.  The two kinds differ in the formats  *)
(* and sizes they accept and share no key.  Not modelled: update_config,   *)
(* which writes any text over the address.                                 *)
(***************************************************************************)
EXTENDS Naturals, FiniteSets

CONSTANTS Worker, Image, MaxRef, SiteWorlds, NoImage

(* An image is contents with the format they claim and have, and a size.   *)
Format == {"ico", "png", "jpeg", "gif", "webp", "svg"}
SiteConstants ==
    /\ \A i \in Image : i.format \in Format /\ i.size \in {"small", "medium", "large"}
    /\ \A x \in SiteWorlds : x.kind \in {"favicon", "logo"}
    /\ MaxRef \in Nat /\ NoImage \notin Image

VARIABLES site_world, site_image, site_config_cache, files, refs, site_pc, site_req

siteVars == <<site_world, site_image, site_config_cache, files, refs, site_pc, site_req>>

Nothing == [new |-> NoImage, old |-> NoImage]

TypeOK ==
    /\ site_world \in SiteWorlds
    /\ {site_image, site_config_cache} \subseteq Image \cup {NoImage}
    /\ files \subseteq Image /\ refs \in [Image -> 0 .. MaxRef + Cardinality(Worker)]
    /\ site_pc \in [Worker -> {"idle", "get", "set", "insert", "release", "delete"}]
    /\ site_req \in [Worker -> [new: Image \cup {NoImage}, old: Image \cup {NoImage}]]

Init ==
    /\ site_world \in SiteWorlds
    /\ site_image = NoImage /\ site_config_cache = NoImage
    /\ files = {} /\ refs = [i \in Image |-> 0]
    /\ site_pc = [w \in Worker |-> "idle"]
    /\ site_req = [w \in Worker |-> Nothing]

-----------------------------------------------------------------------------

Asked(kind) == kind \in site_world.requests
May(event) == event \in site_world.events

Goto(w, label, r) == /\ site_pc' = [site_pc EXCEPT ![w] = label]
                     /\ site_req' = [site_req EXCEPT ![w] = r]
Finish(w) == Goto(w, "idle", Nothing)
Step(w, from, to) == site_pc[w] = from /\ Goto(w, to, site_req[w])

Idle(w) == /\ site_pc[w] = "idle"
           /\ May("overlap") \/ \A v \in Worker : site_pc[v] = "idle"

(* A database error ends the request where it is.                          *)
Fail(w) ==
    /\ May("db_error") /\ site_pc[w] \notin {"idle", "insert"}
    /\ Finish(w)
    /\ UNCHANGED <<site_world, site_image, site_config_cache, files, refs>>

-----------------------------------------------------------------------------
(* upload_favicon and upload_logo.                                         *)

UpsertAndRef(i) ==
    /\ files' = files \cup {i}
    /\ refs' = [refs EXCEPT ![i] = @ + 1]

(* Bound: no upload of a file that has MaxRef references.                  *)
Upload(w, i) ==
    /\ Asked("upload") /\ Idle(w)
    /\ refs[i] < MaxRef
    /\ i # site_image \/ May("again")
    /\ UpsertAndRef(i)
    /\ Goto(w, "get", [new |-> i, old |-> NoImage])
    /\ UNCHANGED <<site_world, site_image, site_config_cache>>

UploadFavicon(w, i) ==
    /\ site_world.kind = "favicon"
    /\ i.format \in {"ico", "png", "gif", "jpeg"} /\ i.size = "small"
    /\ Upload(w, i)

UploadLogo(w, i) ==
    /\ site_world.kind = "logo"
    /\ i.format \in {"jpeg", "png", "webp", "gif"} /\ i.size # "large"
    /\ Upload(w, i)

Get(w) ==
    /\ site_pc[w] = "get"
    /\ Goto(w, "set", [site_req[w] EXCEPT !.old = site_image])
    /\ UNCHANGED <<site_world, site_image, site_config_cache, files, refs>>

Set(w) ==
    /\ Step(w, "set", "insert")
    /\ site_image' = site_req[w].new
    /\ UNCHANGED <<site_world, site_config_cache, files, refs>>

(* An upload that replaces another image gives that one back now; to clear *)
(* the image was given back first.                                         *)
Insert(w) ==
    /\ site_pc[w] = "insert"
    /\ site_config_cache' = site_req[w].new
    /\ IF site_req[w].new = NoImage \/ site_req[w].old \in {NoImage, site_req[w].new}
       THEN Finish(w) ELSE Goto(w, "release", site_req[w])
    /\ UNCHANGED <<site_world, site_image, files, refs>>

(* decrement_ref; what the request does with the last reference is next.   *)
Release(w) ==
    /\ site_pc[w] = "release"
    /\ LET r == site_req[w] IN
        /\ refs' = [refs EXCEPT ![r.old] = IF @ > 0 THEN @ - 1 ELSE 0]
        /\ IF refs'[r.old] = 0 THEN Goto(w, "delete", r)
           ELSE IF r.new = NoImage THEN Goto(w, "set", r) ELSE Finish(w)
    /\ UNCHANGED <<site_world, site_image, site_config_cache, files>>

(* delete_by_key, whose error is passed over.                              *)
DeleteByKey(w) ==
    /\ site_pc[w] = "delete"
    /\ LET r == site_req[w] IN
        /\ \/ files' = files \ {r.old} /\ refs' = [refs EXCEPT ![r.old] = 0]
           \/ May("db_error") /\ UNCHANGED <<files, refs>>
        /\ IF r.new = NoImage THEN Goto(w, "set", r) ELSE Finish(w)
    /\ UNCHANGED <<site_world, site_image, site_config_cache>>

-----------------------------------------------------------------------------
(* delete_favicon and delete_logo.                                         *)

Clear(w) ==
    /\ Asked("clear") /\ Idle(w)
    /\ Goto(w, IF site_image = NoImage THEN "set" ELSE "release",
            [new |-> NoImage, old |-> site_image])
    /\ UNCHANGED <<site_world, site_image, site_config_cache, files, refs>>

(* The server starts with what the rows say, or with nothing when they     *)
(* cannot be read.                                                         *)
Restart ==
    /\ May("restart")
    /\ \/ site_config_cache' = site_image
       \/ May("db_error") /\ site_config_cache' = NoImage
    /\ site_pc' = [w \in Worker |-> "idle"] /\ site_req' = [w \in Worker |-> Nothing]
    /\ UNCHANGED <<site_world, site_image, files, refs>>

Next ==
    \/ \E w \in Worker :
        \/ \E i \in Image : UploadFavicon(w, i) \/ UploadLogo(w, i)
        \/ Get(w) \/ Set(w) \/ Insert(w) \/ Release(w) \/ DeleteByKey(w)
        \/ Clear(w) \/ Fail(w)
    \/ Restart

-----------------------------------------------------------------------------

SiteQuiet == \A w \in Worker : site_pc[w] = "idle"

(* While administrators only upload, one after the other, the image pages  *)
(* show is always stored, whichever statement fails and wherever the       *)
(* server stops: the old file is deleted when nothing shows it any more.   *)
ShownIsStored ==
    ~Asked("clear") /\ ~May("overlap") /\ site_config_cache # NoImage
        => site_config_cache \in files

(* When nothing fails, requests that come one after the other leave the    *)
(* copy and the row at the same image, its file there, and no other file   *)
(* unless the same image was uploaded over itself.                         *)
NothingLeft ==
    SiteQuiet /\ site_world.events \subseteq {"again"} =>
        /\ site_config_cache = site_image
        /\ site_image # NoImage => site_image \in files
        /\ ~May("again") => files \subseteq {site_image}

(* Between requests pages show what the row says, in every world.          *)
CopyFollowsRow == SiteQuiet => site_config_cache = site_image

SiteImageHolds == TypeOK /\ ShownIsStored /\ NothingLeft

=============================================================================
