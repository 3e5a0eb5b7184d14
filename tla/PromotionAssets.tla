---------------------------- MODULE PromotionAssets ----------------------------
(***************************************************************************)
(* Promotion slides: PromotionService, PostgresPromotionRepository and the *)
(* images at the external provider (Cloudinary).                           *)
(*                                                                         *)
(* The public ID of an image is its slot and the hash of its bytes, so the *)
(* same picture uploaded again is the same image.  Requests read, upload,  *)
(* write and destroy in separate steps and share no transaction.  Texts    *)
(* and links are left out; so are rows with bytes in the database, which   *)
(* only versions before Cloudinary wrote.                                  *)
(***************************************************************************)
EXTENDS Naturals

CONSTANTS
  Publishers,   \* administrators' requests that may overlap
  Places,       \* the slots of the carousel
  Pictures,     \* contents, by hash
  NoPicture,
  MaxErrors     \* bound on database errors and lost answers

ASSUME PromotionAssumption == NoPicture \notin Pictures /\ MaxErrors \in Nat

VARIABLES
  slide,      \* promotion_slides: the picture of an active slot, NoPicture without a row
  stored,     \* images at the provider
  upload,     \* the locals of a request
  contended,  \* history: slots two requests worked on at once
  failed,     \* history: slots whose upsert returned an error
  errors      \* errors so far (bound)

promoVars == <<slide, stored, upload, contended, failed, errors>>

Asset == Places \X Pictures
NoUpload == [pc |-> "idle", slot |-> NoPicture, new |-> NoPicture, previous |-> NoPicture]

PromoTypeOK ==
  /\ slide \in [Places -> Pictures \union {NoPicture}]
  /\ stored \subseteq Asset
  /\ upload \in [Publishers ->
       [pc : {"idle", "read", "upload", "upsert", "undo", "clean"},
        slot : Places \union {NoPicture}, new : Pictures \union {NoPicture},
        previous : Pictures \union {NoPicture}]]
  /\ contended \subseteq Places /\ failed \subseteq Places
  /\ errors \in 0..MaxErrors

PromoInit ==
  /\ slide = [s \in Places |-> NoPicture]
  /\ stored = {}
  /\ upload = [h \in Publishers |-> NoUpload]
  /\ contended = {} /\ failed = {} /\ errors = 0

PromoError == errors < MaxErrors /\ errors' = errors + 1

Step(h, pc) == upload' = [upload EXCEPT ![h].pc = pc]
Finish(h) == upload' = [upload EXCEPT ![h] = NoUpload]

-----------------------------------------------------------------------------

\* readPromotionImage and the other validations leave a slot and a picture,
\* known by the hash of its bytes.
PromotionForm == [slot : Places, picture : Pictures]

\* PUT of a slot.
UpsertSlide(h) ==
  /\ upload[h].pc = "idle"
  /\ \E f \in PromotionForm :
       /\ upload' = [upload EXCEPT ![h] = [NoUpload EXCEPT !.pc = "read", !.slot = f.slot,
                                                          !.new = f.picture]]
       /\ contended' = IF \E g \in Publishers : upload[g].slot = f.slot
                       THEN contended \union {f.slot} ELSE contended
  /\ UNCHANGED <<slide, stored, failed, errors>>

\* GetActiveImage; the service takes it for the picture to clean up afterwards.
ActiveImage(s) == slide[s]

GetActiveImage(h) ==
  /\ upload[h].pc = "read"
  /\ upload' = [upload EXCEPT ![h].pc = "upload", ![h].previous = ActiveImage(upload[h].slot)]
  /\ UNCHANGED <<slide, stored, contended, failed, errors>>

\* Store.Upload derives the public ID from slot and hash, ...
PublicId(h) == <<upload[h].slot, upload[h].new>>

\* ... uploadImage does not overwrite: an image that exists stays as it is.
UploadImage(a) == stored' = stored \union {a}

\* Store.Destroy, whose error the service ignores.
DestroyAtBest(a) == stored' \in {stored, stored \ {a}}

UploadPicture(h) ==
  /\ upload[h].pc = "upload"
  /\ UploadImage(PublicId(h))
  /\ Step(h, "upsert")
  /\ UNCHANGED <<slide, contended, failed, errors>>

\* Reading or uploading fails and the request with it; an upload may have
\* reached the provider all the same.
PreparationFails(h) ==
  /\ upload[h].pc \in {"read", "upload"}
  /\ \/ UNCHANGED stored
     \/ upload[h].pc = "upload" /\ UploadImage(PublicId(h))
  /\ Finish(h)
  /\ UNCHANGED <<slide, contended, failed, errors>>

\* PostgresPromotionRepository.Upsert: one statement.
UpsertRow(h) ==
  /\ upload[h].pc = "upsert"
  /\ slide' = [slide EXCEPT ![upload[h].slot] = upload[h].new]
  /\ Step(h, "clean")
  /\ UNCHANGED <<stored, contended, failed, errors>>

\* The statement returns an error; when only its answer was lost the row is
\* written nevertheless.
UpsertRowFails(h) ==
  /\ upload[h].pc = "upsert" /\ PromoError
  /\ slide' \in {slide, [slide EXCEPT ![upload[h].slot] = upload[h].new]}
  /\ failed' = failed \union {upload[h].slot}
  /\ Step(h, "undo")
  /\ UNCHANGED <<stored, contended>>

\* After an error the picture that was uploaded is destroyed.
DestroyUploaded(h) ==
  /\ upload[h].pc = "undo"
  /\ DestroyAtBest(PublicId(h))
  /\ Finish(h)
  /\ UNCHANGED <<slide, contended, failed, errors>>

\* Mutant: the previous picture is destroyed even if it is the new one.
DestroyPreviousAlways(h) ==
  /\ upload[h].pc = "clean"
  /\ IF upload[h].previous = NoPicture THEN UNCHANGED stored
     ELSE DestroyAtBest(<<upload[h].slot, upload[h].previous>>)
  /\ Finish(h)
  /\ UNCHANGED <<slide, contended, failed, errors>>

\* After a success the previous picture is destroyed, unless it is the new one.
DestroyPrevious(h) ==
  /\ upload[h].pc = "clean"
  /\ IF upload[h].previous \in {NoPicture, upload[h].new} THEN UNCHANGED stored
     ELSE DestroyAtBest(<<upload[h].slot, upload[h].previous>>)
  /\ Finish(h)
  /\ UNCHANGED <<slide, contended, failed, errors>>

\* DELETE of a slot removes the row and leaves the image.
DeleteSlide(s) ==
  /\ slide' = [slide EXCEPT ![s] = NoPicture]
  /\ UNCHANGED <<stored, upload, contended, failed, errors>>

-----------------------------------------------------------------------------

PublisherStep(h) ==
  \/ UpsertSlide(h) \/ GetActiveImage(h) \/ UploadPicture(h) \/ PreparationFails(h)
  \/ UpsertRow(h) \/ UpsertRowFails(h) \/ DestroyUploaded(h) \/ DestroyPrevious(h)

PromoNext ==
  \/ \E h \in Publishers : PublisherStep(h)
  \/ \E s \in Places : DeleteSlide(s)

PromoSpec == PromoInit /\ [][PromoNext]_promoVars

-----------------------------------------------------------------------------
(* Properties *)

Served(s) == slide[s] # NoPicture => <<s, slide[s]>> \in stored

\* Destroy removes "a superseded image after the database has committed the
\* new slot" (uploader.go:107-108), so that a shown slide has its image: it loses
\* it only when two requests worked on its slot at once or one of them got an
\* error from the database.
BrokenSlidesHaveCause == \A s \in Places : Served(s) \/ s \in contended \union failed

\* Why: a request that is under way has a slot and a picture, ...
RequestsAreFilled ==
  \A h \in Publishers :
    upload[h].pc # "idle" => upload[h].slot \in Places /\ upload[h].new \in Pictures

\* ... two of one slot are on record as such, ...
OverlapsAreKnown ==
  \A g, h \in Publishers :
    /\ g # h /\ upload[g].pc # "idle" /\ upload[h].pc # "idle"
    /\ upload[g].slot = upload[h].slot
    => upload[h].slot \in contended

\* ... and one that is alone on its slot has its image stored before its row is
\* written; until the old image is destroyed the row shows the new one or none.
LoneRequestsServe ==
  \A h \in Publishers :
    LET s == upload[h].slot IN
    /\ upload[h].pc = "undo" => s \in failed
    /\ s \notin contended \union failed =>
         /\ upload[h].pc \in {"upsert", "clean"} => PublicId(h) \in stored
         /\ upload[h].pc = "clean" => slide[s] \in {upload[h].new, NoPicture}

\* The inductive invariant.
PromoInv ==
  /\ PromoTypeOK /\ BrokenSlidesHaveCause
  /\ RequestsAreFilled /\ OverlapsAreKnown /\ LoneRequestsServe
=============================================================================
