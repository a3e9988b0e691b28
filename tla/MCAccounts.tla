------------------------------- MODULE MCAccounts -------------------------------
(***************************************************************************)
(* Roles, Sessions, BlobPointers, SiteImages, Registration and Marks for   *)
(* TLC: what an account may do, how long it is let in, its images and the  *)
(* site's, how it began and what it marks.  A ban and a role share no      *)
(* state but the entry user:roles:<id>, which a ban clears and which only  *)
(* says again what the rows say; the others share nothing with either.  So *)
(* a behaviour is about one of them and the others stay as they began.     *)
(***************************************************************************)
EXTENDS Roles, Sessions, TLC

CONSTANTS Slot, File, MaxRef, MaxJobs, BlobWorlds, NoFile,
          Name, Address, DefaultRole, RegistrationWorlds, NoAccount,
          Member, Thread, MaxAdded, MarkWorlds, NoMark,
          Image, SiteWorlds, NoImage, b1, b2, b3, t1, t2, t3 \* model values

VARIABLES blob_world, pointer, stored, ref_count, gc, blob_pc, blob_req,
          registration_world, account, mail, link, granted,
          registration_pc, registration_req,
          mark_world, marks, deleted, added, told, reader, mark_pc, mark_req,
          site_world, site_image, site_config_cache, files, refs, site_pc, site_req,
          side

B == INSTANCE BlobPointers WITH Worlds <- BlobWorlds, world <- blob_world,
                                pc <- blob_pc, req <- blob_req
G == INSTANCE Registration WITH Role <- DefaultRole
F == INSTANCE Marks
I == INSTANCE SiteImages

ASSUME SessionConstants
ASSUME ImageConstants == B!BlobConstants
ASSUME SiteImageConstants == I!SiteConstants
ASSUME MemberConstants == G!RegistrationConstants /\ F!MarkConstants

blobVars == <<blob_world, pointer, stored, ref_count, gc, blob_pc, blob_req>>
registrationVars == <<registration_world, account, mail, link, granted,
                      registration_pc, registration_req>>
markVars == <<mark_world, marks, deleted, added, told, reader, mark_pc, mark_req>>
siteVars == <<site_world, site_image, site_config_cache, files, refs, site_pc, site_req>>
otherVars == <<registrationVars, markVars, siteVars>>
accountVars == <<vars, sessionVars, blobVars, otherVars, side>>

(* The worlds of the sides a behaviour is not about do not matter.         *)
AnyOf(worlds) == CHOOSE x \in worlds : TRUE

AccountInit ==
    /\ Init /\ SessionInit /\ B!Init /\ G!Init /\ F!Init /\ I!Init
    /\ side \in {"roles", "sessions", "images", "registration", "marks", "site"}
    /\ side # "roles" => world = AnyOf(Worlds)
    /\ side # "sessions" => session_world = AnyOf(SessionWorlds)
    /\ side # "images" => blob_world = AnyOf(BlobWorlds)
    /\ side # "registration" => registration_world = AnyOf(RegistrationWorlds)
    /\ side # "marks" => mark_world = AnyOf(MarkWorlds)
    /\ side # "site" => site_world = AnyOf(SiteWorlds)

AccountNext ==
    /\ side' = side
    /\ \/ side = "roles" /\ Next /\ UNCHANGED <<sessionVars, blobVars, otherVars>>
       \/ side = "sessions" /\ SessionNext /\ UNCHANGED <<vars, blobVars, otherVars>>
       \/ side = "images" /\ B!Next /\ UNCHANGED <<vars, sessionVars, otherVars>>
       \/ /\ side = "registration" /\ G!Next
          /\ UNCHANGED <<vars, sessionVars, blobVars, markVars, siteVars>>
       \/ /\ side = "marks" /\ F!Next
          /\ UNCHANGED <<vars, sessionVars, blobVars, registrationVars, siteVars>>
       \/ /\ side = "site" /\ I!Next
          /\ UNCHANGED <<vars, sessionVars, blobVars, registrationVars, markVars>>

AccountSpec == AccountInit /\ [][AccountNext]_accountVars

(* Every pointer leads to a stored file, a thumbnail that could not be set *)
(* leaves no count behind, and images that were replaced have been deleted; *)
(* the site's own images are stored as long as they are shown (see         *)
(* BlobPointers and SiteImages).                                           *)
ImagesKept == B!TypeOK /\ B!PointersServed /\ B!NoOrphan /\ B!Reclaimed
              /\ I!SiteImageHolds

(* However registrations, verifications and administrators overlap, a name *)
(* is one account's, with the roles and the level that belong to it; a     *)
(* member is told once of each follow, and a list that is read to its end  *)
(* shows what was on it at first, but for what is pushed beyond the end    *)
(* between a total and its rows (see Registration and Marks).              *)
MembersHold == G!RegistrationHolds /\ F!MarksHold

(* The copy of the site's image is the row's (see SiteImages).             *)
CopyFollowsRow == I!CopyFollowsRow

-----------------------------------------------------------------------------

Managers == {"admin.users", "admin.roles"}
Moderating == [roles |-> {"admin", "moderator"}, grants |-> {}, disturbance |-> {}]
Customizing == [roles |-> {"admin", "custom"}, grants |-> {{}, Managers}, disturbance |-> {}]
Empowering == [Customizing EXCEPT !.grants = {Managers, Key}]
Together == [roles |-> {"custom"}, grants |-> {{"admin.users"}},
             disturbance |-> {"overlap"}]
Crowded == [roles |-> {"admin"}, grants |-> {},
            disturbance |-> {"overlap", "cache_error", "db_error"}]
Expiring == [Crowded EXCEPT !.disturbance = @ \cup {"revocations", "expiry"}]
RoleWorlds == {Moderating, Customizing, Empowering, Together, Crowded, Expiring}
Revocations == {[Crowded EXCEPT !.disturbance = {"overlap", "revocations"}]}
Expiry == {[Customizing EXCEPT !.disturbance = {"expiry"}]}

Guessing == [requests |-> {"wrong", "right"}, disturbance |-> {}]
Moderated == [requests |-> {"right", "refresh", "ban", "unban"}, disturbance |-> {}]
Disturbed == [Moderated EXCEPT
                !.disturbance = {"overlap", "cache_error", "restart", "past"}]
Resetting == [requests |-> {"reset"}, disturbance |-> {}]
AllSessionWorlds == {Guessing, Moderated, Disturbed, Resetting}
TwoModerators == {[Moderated EXCEPT !.disturbance = {"overlap"}]}

Both == {"set", "remove"}
Anything == [thumbnails |-> FALSE, requests |-> Both,
             disturbance |-> {"overlap", "reupload", "pointer_error"}]
Thumbnails == [thumbnails |-> TRUE, requests |-> Both, disturbance |-> {"pointer_error"}]
Replacing == [thumbnails |-> FALSE, requests |-> {"set"}, disturbance |-> {}]
ImageWorlds == {Anything, Thumbnails, Replacing}

Joining == [requests |-> {"register", "verify", "set_level"}, auto |-> FALSE,
            events |-> {"expiry"}]
JoiningTogether == [requests |-> {"register", "verify", "verify_user"}, auto |-> FALSE,
                    events |-> {"overlap"}]
JoiningByMail == [requests |-> {"register", "verify", "resend"}, auto |-> FALSE,
                  events |-> {"mail_error", "restart"}]
JoiningAtOnce == [requests |-> {"register", "set_level", "verify_user"}, auto |-> TRUE,
                  events |-> {"db_error", "early"}]
Joined == {Joining, JoiningTogether, JoiningByMail, JoiningAtOnce}

Marking == [who |-> {b1}, what |-> {b2, t1}, per_page |-> 1, lists |-> {},
            events |-> {"overlap", "remove"}]
MarkingFails == [Marking EXCEPT !.events = @ \cup {"restart", "db_error"}]
Following == [who |-> {b1}, what |-> {b2, b3}, per_page |-> 1, lists |-> {"following"},
              events |-> {"overlap"}]
Followed == [Following EXCEPT !.who = {b2, b3}, !.what = {b1}, !.lists = {"followers"}]
Bookmarking == [who |-> {b1}, what |-> {t1, t2, t3}, per_page |-> 2,
                lists |-> {"bookmarks"}, events |-> {}]
Marked == {Marking, MarkingFails, Following, Followed, Bookmarking}

Icons == {[name |-> t1, format |-> "ico", size |-> "small"],
          [name |-> t2, format |-> "png", size |-> "small"],
          [name |-> t3, format |-> "svg", size |-> "small"],
          [name |-> t1, format |-> "webp", size |-> "medium"]}
Uploading == [kind |-> "favicon", requests |-> {"upload"},
              events |-> {"again", "db_error", "restart"}]
Clearing == [kind |-> "logo", requests |-> {"upload", "clear"}, events |-> {}]
ClearingAgain == [Clearing EXCEPT !.events = {"again"}]
SiteImageWorlds == {Uploading, Clearing, ClearingAgain}
SiteOverlaps == {[Clearing EXCEPT !.events = {"overlap"}]}

(* Requests of every side share their names, and so do images and    *)
(* addresses: a side only sees its own, and fewer permutations have to be  *)
(* tried.                                                                  *)
Symmetry == Permutations(Worker) \cup Permutations(File)

=============================================================================
