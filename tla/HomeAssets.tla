------------------------------ MODULE HomeAssets ------------------------------
(***************************************************************************)
(* Images of the Home page: HomeSectionService, the SQL of                 *)
(* PostgresHomeSectionRepository, and the clean-up worker that destroys    *)
(* images nothing refers to at the external provider (Cloudinary).         *)
(*                                                                         *)
(* A cell is one row that may hold an image: a text section (slots 1..3)   *)
(* or a place of the media strip (slot 4, one row per sort order).  A      *)
(* transaction locks its row, applies its statements on what is committed, *)
(* and commits: three steps, because the races are between them.  Texts,   *)
(* links and layouts are left out.                                         *)
(***************************************************************************)
EXTENDS Naturals, FiniteSets

CONSTANTS
  Editors,      \* administrators' requests that may overlap
  Slots,        \* the text sections
  Orders,       \* sort orders of the media strip
  Assets,       \* provider images: one public ID per upload
  Legacy,       \* an image that two media rows share, from before IDs were unique
  Cleaners,     \* clean-up workers (one per API process)
  BatchSize,    \* homeCleanupBatchSize
  NoImage,
  MaxSlips      \* bound on crashes and lost answers

ASSUME HomeAssumption ==
  /\ Slots \cap Orders = {}
  /\ NoImage \notin Assets \union Slots \union Orders
  /\ Legacy \in Assets
  /\ BatchSize \in Nat /\ MaxSlips \in Nat

VARIABLES
  image,    \* cloudinary_public_id of a cell, NoImage without one
  rows,     \* text sections whose row exists
  active,   \* text sections with is_active
  strip,    \* does the row of slot 4 exist?
  cloud,    \* the provider: unused, stored or destroyed
  queue,    \* home_asset_cleanup_queue: the entry of a public ID
  edit,     \* the locals and the transaction of a request
  cleaner,  \* the batch of a worker, and the entry it has to complete
  leaked,   \* history: images whose owner was lost by a crash or a lost call
  doubted,  \* history: images whose commit was in doubt when they were enqueued
  raced,    \* history: images replaced by a request that never saw them
  slips     \* crashes and lost answers so far (bound)

tables == <<image, rows, active, strip, queue>>
history == <<leaked, doubted, raced, slips>>
homeVars == <<tables, cloud, edit, cleaner, history>>

Cells == Slots \union Orders
NoEdit == [pc |-> "idle", cell |-> NoImage, act |-> FALSE, asset |-> NoImage,
           prev |-> NoImage, to |-> NoImage, enq |-> FALSE, holds |-> FALSE]

Entry == [state : {"absent", "due", "leased"}, id : Nat]
Claim == [asset : Assets, id : Nat]

HomeTypeOK ==
  /\ image \in [Cells -> Assets \union {NoImage}]
  /\ rows \subseteq Slots /\ active \subseteq rows /\ strip \in BOOLEAN
  /\ cloud \in [Assets -> {"unused", "stored", "destroyed"}]
  /\ queue \in [Assets -> Entry]
  /\ edit \in [Editors ->
       [pc : {"idle", "upload", "ensure", "lock", "apply", "commit", "enqueue"},
        cell : Cells \union {NoImage}, act : BOOLEAN, asset : Assets \union {NoImage},
        prev : Assets \union {NoImage}, to : Assets \union {NoImage},
        enq : BOOLEAN, holds : BOOLEAN]]
  /\ cleaner \in [Cleaners -> [batch : SUBSET Claim, done : SUBSET Claim]]
  /\ leaked \subseteq Assets /\ doubted \subseteq Assets /\ raced \subseteq Assets
  /\ slips \in 0..MaxSlips

\* A new installation, or one whose media strip was filled by an older version.
HomeInit ==
  /\ \/ /\ image = [c \in Cells |-> NoImage]
        /\ cloud = [a \in Assets |-> "unused"]
        /\ strip = FALSE
     \/ /\ image = [c \in Cells |-> IF c \in Orders THEN Legacy ELSE NoImage]
        /\ cloud = [a \in Assets |-> IF a = Legacy THEN "stored" ELSE "unused"]
        /\ strip = TRUE
  /\ rows = {} /\ active = {}
  /\ queue = [a \in Assets |-> [state |-> "absent", id |-> 0]]
  /\ edit = [h \in Editors |-> NoEdit]
  /\ cleaner = [w \in Cleaners |-> [batch |-> {}, done |-> {}]]
  /\ leaked = {} /\ doubted = {} /\ raced = {} /\ slips = 0

-----------------------------------------------------------------------------
(* The rows as statements see them. *)

Referenced(a) == \E c \in Cells : image[c] = a

\* enqueueHomeAssetCleanupQuery: nothing for an ID that is still referenced,
\* nothing for one that is queued already.
Enqueue(a, refs) ==
  IF a \in refs \/ queue[a].state # "absent" THEN queue
  ELSE [queue EXCEPT ![a] = [state |-> "due", id |-> @.id + 1]]

References == {image[c] : c \in Cells}

\* The row lock of a cell, or of the media strip while a row is inserted.
Locked(c) == \E h \in Editors : edit[h].holds /\ edit[h].cell = c
StripLocked ==
  \E h \in Editors : edit[h].holds /\ edit[h].cell \in Orders /\ edit[h].asset # NoImage

\* listHomeSectionsQuery for the public: active text sections.
PublicSections == {s \in Slots : s \in rows /\ s \in active}

\* GetHomeSection: the image of a section as a request reads it beforehand.
GetHomeSection(s) == image[s]

\* loadMedia: the rows of the media strip.
LoadMedia == {o \in Orders : image[o] # NoImage}

Slip == slips < MaxSlips /\ slips' = slips + 1

-----------------------------------------------------------------------------
(* Requests.  One that is refused changes nothing. *)

\* PUT of a text section: is_active and an optional file, which is an image
\* (readHomeSectionImage) or the request is refused.
SectionForm == [slot : Slots, act : BOOLEAN, file : BOOLEAN]

\* HomeSectionService.Upsert: an active section needs an image, uploaded now or
\* found in the current row.
SectionAccepted(f) == f.act => f.file \/ GetHomeSection(f.slot) # NoImage

UpsertRequest(h) ==
  /\ edit[h].pc = "idle" /\ ~edit[h].holds
  /\ \E f \in SectionForm :
       /\ SectionAccepted(f)
       /\ edit' = [edit EXCEPT ![h] = [NoEdit EXCEPT !.pc = IF f.file THEN "upload" ELSE "lock",
                                                    !.cell = f.slot, !.act = f.act]]
  /\ UNCHANGED <<tables, cloud, cleaner, history>>

\* POST of a media image.  HomeSectionService.CreateMedia wants room for it at
\* the moment of the reading, and remembers whether the strip exists.
MediaAccepted == LoadMedia # Orders

CreateMediaRequest(h) ==
  /\ edit[h].pc = "idle" /\ ~edit[h].holds
  /\ MediaAccepted
  /\ \E o \in Orders :
       edit' = [edit EXCEPT ![h] = [NoEdit EXCEPT !.pc = "upload", !.cell = o, !.act = strip]]
  /\ UNCHANGED <<tables, cloud, cleaner, history>>

\* Mutant: public IDs by content, as promotions have them.
UploadHomeSectionByContent(h) ==
  /\ edit[h].pc = "upload"
  /\ \E a \in Assets :
       /\ cloud[a] # "destroyed"
       /\ cloud' = [cloud EXCEPT ![a] = "stored"]
       /\ edit' = [edit EXCEPT ![h].asset = a,
            ![h].pc = IF edit[h].cell \in Orders /\ ~edit[h].act THEN "ensure" ELSE "lock"]
  /\ UNCHANGED <<tables, cleaner, history>>

\* Store.UploadHomeSection: a public ID of its own for every upload.  A media
\* request goes on to create the strip when it found none (act is what it saw).
UploadHomeSection(h) ==
  /\ edit[h].pc = "upload"
  /\ \E a \in Assets :
       /\ cloud[a] = "unused"
       /\ cloud' = [cloud EXCEPT ![a] = "stored"]
       /\ edit' = [edit EXCEPT ![h].asset = a,
            ![h].pc = IF edit[h].cell \in Orders /\ ~edit[h].act THEN "ensure" ELSE "lock"]
  /\ UNCHANGED <<tables, cleaner, history>>

\* The upload fails.  When only its answer is lost the provider has the image
\* and nobody knows.
UploadFails(h) ==
  /\ edit[h].pc = "upload"
  /\ edit' = [edit EXCEPT ![h] = NoEdit]
  /\ \/ UNCHANGED <<cloud, history>>
     \/ \E a \in Assets :
          /\ Slip /\ cloud[a] = "unused"
          /\ cloud' = [cloud EXCEPT ![a] = "stored"]
          /\ leaked' = leaked \union {a}
          /\ UNCHANGED <<doubted, raced>>
  /\ UNCHANGED <<tables, cleaner>>

\* CreateMedia creates the row of slot 4 in a transaction of its own.
EnsureStrip(h) ==
  /\ edit[h].pc = "ensure"
  /\ strip' = TRUE
  /\ edit' = [edit EXCEPT ![h].pc = "lock"]
  /\ UNCHANGED <<image, rows, active, queue, cloud, cleaner, history>>

\* SELECT ... FOR UPDATE.  A section that has no row yet locks nothing, and its
\* previous image is taken to be none.
LockRow(h) ==
  LET c == edit[h].cell IN
  /\ edit[h].pc = "lock"
  /\ \/ /\ c \in rows /\ ~Locked(c)
        /\ edit' = [edit EXCEPT ![h].pc = "apply", ![h].holds = TRUE, ![h].prev = image[c]]
     \/ /\ c \in Slots \ rows
        /\ edit' = [edit EXCEPT ![h].pc = "apply"]
     \/ /\ c \in Orders /\ strip /\ ~StripLocked
        /\ edit' = [edit EXCEPT ![h].pc = "apply", ![h].holds = TRUE]
  /\ UNCHANGED <<tables, cloud, cleaner, history>>

\* Mutant: the upsert writes the image column whether there is an image or not.
UpsertedBlindly(e) == e.asset

\* upsertHomeSectionQuery keeps the image when there is no new one.
Upserted(e) == IF e.asset = NoImage THEN image[e.cell] ELSE e.asset

\* UpsertHomeSection: the upsert, which waits for another one of the slot, and
\* the decision whether the previous image is to be enqueued (nothing else
\* refers to it).
ApplyUpsert(h) ==
  LET e == edit[h]
      c == e.cell
      to == Upserted(e)
  IN
  /\ e.pc = "apply" /\ c \in Slots
  /\ e.holds \/ ~Locked(c)
  /\ edit' = [edit EXCEPT ![h].pc = "commit", ![h].holds = TRUE, ![h].to = to,
       ![h].enq = e.prev \notin {NoImage, to}
                  /\ e.prev \notin {image[d] : d \in Cells \ {c}}]
  /\ UNCHANGED <<tables, cloud, cleaner, history>>

\* CreateHomeSectionMedia: fewer than ten rows, and no other one of this order,
\* whose deletion the unique index waits for.
ApplyInsert(h) ==
  LET e == edit[h] IN
  /\ e.pc = "apply" /\ e.cell \in Orders
  /\ image[e.cell] = NoImage
  /\ edit' = [edit EXCEPT ![h].pc = "commit", ![h].to = e.asset]
  /\ UNCHANGED <<tables, cloud, cleaner, history>>

\* DeleteHomeSectionMedia up to its commit: the row that is gone then, and its
\* image for the queue unless another row has it.
DeleteHomeSectionMedia(o) ==
  [NoEdit EXCEPT !.pc = "commit", !.cell = o, !.prev = image[o], !.holds = TRUE,
     !.enq = image[o] \notin {image[d] : d \in Cells \ {o}}]

DeleteMediaRequest(h) ==
  /\ edit[h].pc = "idle" /\ ~edit[h].holds
  /\ \E o \in LoadMedia :
       /\ ~Locked(o)
       /\ edit' = [edit EXCEPT ![h] = DeleteHomeSectionMedia(o)]
  /\ UNCHANGED <<tables, cloud, cleaner, history>>

\* What a commit makes visible.
Committed(e) ==
  /\ image' = [image EXCEPT ![e.cell] = e.to]
  /\ rows' = rows \union ({e.cell} \cap Slots)
  /\ active' = IF e.cell \in Slots /\ e.act THEN active \union {e.cell}
               ELSE active \ {e.cell}
  /\ queue' = IF e.enq THEN Enqueue(e.prev, {}) ELSE queue
  /\ raced' = raced \union (IF image[e.cell] = e.prev THEN {}
                            ELSE {image[e.cell]} \ {NoImage, e.to})
  /\ UNCHANGED strip

CommitWrite(h) ==
  /\ edit[h].pc = "commit"
  /\ Committed(edit[h])
  /\ edit' = [edit EXCEPT ![h] = NoEdit]
  /\ UNCHANGED <<cloud, cleaner, leaked, doubted, slips>>

\* Mutant: an uploaded image is forgotten when its row cannot be written.
AfterErrorForgotten(e) == "idle"

\* The next place after a write that returned an error: an uploaded image is
\* handed to the clean-up queue.
AfterError(e) == IF e.asset = NoImage THEN "idle" ELSE "enqueue"

\* An error before the commit, or a conflict of sort orders: a roll-back.
WriteFails(h) ==
  /\ edit[h].pc \in {"ensure", "lock", "apply", "commit"}
  /\ edit' = [edit EXCEPT ![h] = [NoEdit EXCEPT !.pc = AfterError(edit[h]),
                                                !.asset = edit[h].asset]]
  /\ UNCHANGED <<tables, cloud, cleaner, history>>

\* The answer of the commit is lost; the server may decide it later.
CommitUnanswered(h) ==
  /\ edit[h].pc = "commit" /\ Slip
  /\ edit' = [edit EXCEPT ![h].pc = AfterError(edit[h])]
  /\ UNCHANGED <<tables, cloud, cleaner, leaked, doubted, raced>>

InDoubt(h) == edit[h].holds /\ edit[h].pc \in {"idle", "enqueue"}

Resolved(e) ==
  IF e.pc = "idle" THEN NoEdit ELSE [NoEdit EXCEPT !.pc = e.pc, !.asset = e.asset]

LateCommit(h) ==
  /\ InDoubt(h)
  /\ Committed(edit[h])
  /\ edit' = [edit EXCEPT ![h] = Resolved(@)]
  /\ UNCHANGED <<cloud, cleaner, leaked, doubted, slips>>

LateRollback(h) ==
  /\ InDoubt(h)
  /\ edit' = [edit EXCEPT ![h] = Resolved(@)]
  /\ UNCHANGED <<tables, cloud, cleaner, history>>

\* enqueueCleanup, in a context of its own; its error is dropped.
EnqueueCleanup(h) ==
  LET a == edit[h].asset IN
  /\ edit[h].pc = "enqueue"
  /\ queue' = Enqueue(a, References)
  /\ doubted' = doubted \union (IF InDoubt(h) THEN {a} ELSE {})
  /\ edit' = [edit EXCEPT ![h] = IF InDoubt(h) THEN [@ EXCEPT !.pc = "idle"] ELSE NoEdit]
  /\ UNCHANGED <<image, rows, active, strip, cloud, cleaner, leaked, raced, slips>>

EnqueueCleanupFails(h) ==
  /\ edit[h].pc = "enqueue" /\ Slip
  /\ leaked' = leaked \union {edit[h].asset}
  /\ edit' = [edit EXCEPT ![h] = IF InDoubt(h) THEN [@ EXCEPT !.pc = "idle"] ELSE NoEdit]
  /\ UNCHANGED <<tables, cloud, cleaner, doubted, raced>>

\* UpdateHomeSectionMedia: one statement on the row, wherever it is by then.
UpdateHomeSectionMedia(o, p) == image' = [image EXCEPT ![o] = NoImage, ![p] = image[o]]

\* PATCH of a media row moves it to a free sort order.
UpdateMedia(o, p) ==
  /\ o \in LoadMedia /\ ~Locked(o) /\ p \notin LoadMedia /\ ~Locked(p)
  /\ UpdateHomeSectionMedia(o, p)
  /\ UNCHANGED <<rows, active, strip, queue, cloud, edit, cleaner, history>>

-----------------------------------------------------------------------------
(* The clean-up worker *)

\* claimHomeAssetCleanupQuery: due entries nothing refers to; rows another
\* worker has locked are skipped, so any part of them may come back.
ClaimBatch(S) ==
  /\ S # {} /\ Cardinality(S) <= BatchSize
  /\ \A a \in S : queue[a].state = "due" /\ ~Referenced(a)
  /\ queue' = [a \in Assets |-> IF a \in S THEN [queue[a] EXCEPT !.state = "leased"] ELSE queue[a]]

ClaimCleanup(w, S) ==
  /\ cleaner[w] = [batch |-> {}, done |-> {}]
  /\ ClaimBatch(S)
  /\ cleaner' = [cleaner EXCEPT ![w].batch = {[asset |-> a, id |-> queue[a].id] : a \in S}]
  /\ UNCHANGED <<image, rows, active, strip, cloud, edit, history>>

\* The claim commits and its answer is lost: the lease stays.
ClaimUnanswered(w, S) ==
  /\ cleaner[w] = [batch |-> {}, done |-> {}]
  /\ Slip
  /\ ClaimBatch(S)
  /\ UNCHANGED <<image, rows, active, strip, cloud, edit, cleaner, leaked, doubted, raced>>

\* Store.Destroy accepts "not found", so a second worker succeeds as well.
Destroy(w, j) ==
  /\ j \in cleaner[w].batch /\ cleaner[w].done = {}
  /\ cloud' = [cloud EXCEPT ![j.asset] = "destroyed"]
  /\ cleaner' = [cleaner EXCEPT ![w] = [batch |-> @.batch \ {j}, done |-> {j}]]
  /\ UNCHANGED <<tables, edit, history>>

\* Mutant: a failed destroy is completed like one that succeeded.
DestroyFailsDone(w, j) ==
  /\ j \in cleaner[w].batch /\ cleaner[w].done = {}
  /\ cloud' \in {cloud, [cloud EXCEPT ![j.asset] = "destroyed"]}
  /\ cleaner' = [cleaner EXCEPT ![w] = [batch |-> @.batch \ {j}, done |-> {j}]]
  /\ UNCHANGED <<tables, edit, history>>

\* An outage, or an answer that is lost: the entry stays and becomes due again.
DestroyFails(w, j) ==
  /\ j \in cleaner[w].batch /\ cleaner[w].done = {}
  /\ cloud' \in {cloud, [cloud EXCEPT ![j.asset] = "destroyed"]}
  /\ cleaner' = [cleaner EXCEPT ![w].batch = @ \ {j}]
  /\ UNCHANGED <<tables, edit, history>>

\* CompleteHomeAssetCleanup deletes the claimed entry, not one enqueued since;
\* after an error it stays.
CompleteCleanup(w, j) ==
  /\ j \in cleaner[w].done
  /\ \/ queue' = [queue EXCEPT ![j.asset].state = IF @ = "absent" \/ queue[j.asset].id # j.id
                                                  THEN @ ELSE "absent"]
     \/ UNCHANGED queue
  /\ cleaner' = [cleaner EXCEPT ![w].done = {}]
  /\ UNCHANGED <<image, rows, active, strip, cloud, edit, history>>

\* homeCleanupRetryAfter passes, even under a worker that is still busy: ten
\* destroys and completions may take longer than the minute of the lease.
LeaseExpires(a) ==
  /\ queue[a].state = "leased"
  /\ queue' = [queue EXCEPT ![a].state = "due"]
  /\ UNCHANGED <<image, rows, active, strip, cloud, edit, cleaner, history>>

\* The API process dies with its handlers and workers and starts again.
Crash ==
  /\ Slip
  /\ leaked' = leaked \union ({edit[h].asset : h \in {g \in Editors : edit[g].pc # "idle"}}
                              \ {NoImage})
  /\ edit' = [h \in Editors |-> IF edit[h].pc = "commit" \/ InDoubt(h)
                                THEN [edit[h] EXCEPT !.pc = "idle"] ELSE NoEdit]
  /\ cleaner' = [w \in Cleaners |-> [batch |-> {}, done |-> {}]]
  /\ UNCHANGED <<tables, cloud, doubted, raced>>

-----------------------------------------------------------------------------

EditorStep(h) ==
  \/ UpsertRequest(h) \/ CreateMediaRequest(h) \/ DeleteMediaRequest(h)
  \/ UploadHomeSection(h) \/ UploadFails(h) \/ EnsureStrip(h)
  \/ LockRow(h) \/ ApplyUpsert(h) \/ ApplyInsert(h) \/ CommitWrite(h)
  \/ WriteFails(h) \/ CommitUnanswered(h) \/ LateCommit(h) \/ LateRollback(h)
  \/ EnqueueCleanup(h) \/ EnqueueCleanupFails(h)

CleanerStep(w) ==
  \/ \E S \in SUBSET Assets : ClaimCleanup(w, S) \/ ClaimUnanswered(w, S)
  \/ \E j \in cleaner[w].batch : Destroy(w, j) \/ DestroyFails(w, j)
  \/ \E j \in cleaner[w].done : CompleteCleanup(w, j)

HomeNext ==
  \/ \E h \in Editors : EditorStep(h)
  \/ \E o, p \in Orders : UpdateMedia(o, p)
  \/ \E w \in Cleaners : CleanerStep(w)
  \/ \E a \in Assets : LeaseExpires(a)
  \/ Crash

HomeSpec == HomeInit /\ [][HomeNext]_homeVars

-----------------------------------------------------------------------------
(* Properties *)

\* The worker "rechecks that no Home row references this public ID before
\* deleting" (home_section_service.go:183-185), and no row ever takes an old
\* image up: a row shows a destroyed image only when its own commit was in
\* doubt while the image was handed to the queue.
ReferencesAreAlive ==
  \A c \in Cells : image[c] # NoImage /\ cloud[image[c]] # "stored" => image[c] \in doubted

\* Somebody still has to do with an image: a row, the queue, a request.
Owned(a) ==
  \/ Referenced(a)
  \/ queue[a].state # "absent"
  \/ \E h \in Editors : edit[h].asset = a \/ edit[h].to = a

\* No image is left at the provider for ever without an owner, unless a call
\* that would have recorded it was lost, its slot was created by two requests
\* at once, or two media rows shared it.
OrphansHaveCause ==
  \A a \in Assets :
    cloud[a] = "stored" /\ ~Owned(a) => a \in leaked \union raced \union {Legacy}

\* A public text section has an image, although the check for it (:146) reads
\* the row long before the transaction that sets is_active.
PublicSectionsHaveImages == \A s \in PublicSections : image[s] # NoImage

\* The inductive invariant, and why it holds.  A transaction that may still
\* commit, and an image that a request uploaded and may still put into a row.
Committing(h) == edit[h].pc = "commit" \/ InDoubt(h)
Pending(h) == edit[h].asset # NoImage /\ (edit[h].pc = "enqueue" => edit[h].holds)

\* A request has a cell; its image is its own upload or, under the lock of its
\* row, the one that is there; a section it publishes has one or the other; and
\* what it replaces, as far as it saw it, goes to the queue.
RequestsAreSound ==
  \A h \in Editors :
    LET e == edit[h] IN
    /\ e.pc \in {"idle", "enqueue"} /\ ~e.holds => e.cell = NoImage /\ ~e.act
    /\ e.pc = "idle" /\ ~e.holds => e.asset = NoImage
    /\ e.pc \notin {"idle", "enqueue"} \/ e.holds => e.cell \in Cells
    /\ e.pc = "upload" => e.asset = NoImage
    /\ e.pc \in {"upload", "ensure", "lock"} => ~e.holds /\ e.prev = NoImage
    /\ e.pc = "apply" /\ e.cell \in Slots =>
         e.prev = IF e.holds THEN image[e.cell] ELSE NoImage
    /\ e.pc = "apply" /\ e.cell \in Orders => e.holds /\ e.prev = NoImage
    /\ e.pc = "commit" => e.holds
    /\ e.pc = "enqueue" => e.asset # NoImage
    /\ e.enq => e.prev # NoImage
    /\ ~Committing(h) => e.to = NoImage
    /\ Committing(h) =>
         /\ e.to = IF e.asset = NoImage /\ e.cell \in Slots THEN image[e.cell] ELSE e.asset
         /\ e.enq \/ e.prev \in {NoImage, e.to, Legacy}
    /\ e.cell \in Slots /\ e.act /\ e.pc # "upload" =>
         e.asset # NoImage \/ image[e.cell] # NoImage

\* One transaction at a time has the row of a section.
SectionsAreLocked ==
  \A g, h \in Editors :
    g # h /\ edit[g].holds /\ edit[h].holds
      => edit[g].cell # edit[h].cell \/ edit[h].cell \in Orders

\* An upload belongs to one request, which alone can put it into a row, and
\* until it is handed to the queue nobody else has to do with it.
UploadsAreOwned ==
  /\ \A g, h \in Editors : edit[g].asset = edit[h].asset => g = h \/ edit[h].asset = NoImage
  /\ \A h \in Editors :
       LET a == edit[h].asset IN
       /\ a # NoImage => cloud[a] # "unused"
       /\ Pending(h) =>
            /\ ~Referenced(a) /\ \A g \in Editors : edit[g].prev # a
            /\ a \notin doubted =>
                 /\ cloud[a] = "stored" /\ queue[a].state = "absent"
                 /\ \A w \in Cleaners : \A j \in cleaner[w].batch : j.asset # a
       /\ InDoubt(h) /\ edit[h].pc = "idle" /\ a # NoImage =>
            queue[a].state # "absent" \/ cloud[a] = "destroyed" \/ a \in leaked

\* Nobody has to do with an image that does not exist yet.
UnusedAreUnknown ==
  \A a \in Assets : cloud[a] = "unused" =>
    /\ ~Referenced(a) /\ queue[a].state = "absent" /\ a \notin doubted
    /\ \A w \in Cleaners : \A j \in cleaner[w].batch : j.asset # a
    /\ \A h \in Editors : edit[h].prev # a

\* Rows share an image only if they always did; what a worker has claimed is in
\* no row; and what it completes is destroyed.
ClaimsAreFree ==
  /\ \A c, d \in Cells : image[c] = image[d] => c = d \/ image[c] \in {NoImage, Legacy}
  /\ \A w \in Cleaners :
       /\ \A j \in cleaner[w].batch : Referenced(j.asset) => j.asset \in doubted
       /\ \A j \in cleaner[w].done : cloud[j.asset] = "destroyed"

HomeInv ==
  /\ HomeTypeOK /\ ReferencesAreAlive /\ OrphansHaveCause /\ PublicSectionsHaveImages
  /\ RequestsAreSound /\ SectionsAreLocked /\ UploadsAreOwned /\ UnusedAreUnknown
  /\ ClaimsAreFree

-----------------------------------------------------------------------------
(* Liveness.  Workers go on (every call has a deadline of ten seconds), leases *)
(* run out, entries are claimed in the order in which they are due, and the    *)
(* provider does not refuse one image for ever.                                *)

ClaimOf(a) == \E w \in Cleaners, S \in SUBSET Assets : a \in S /\ ClaimCleanup(w, S)
DestroyOf(a) == \E w \in Cleaners : \E j \in cleaner[w].batch : j.asset = a /\ Destroy(w, j)
BatchStep(w) ==
  \/ \E j \in cleaner[w].batch : Destroy(w, j) \/ DestroyFails(w, j)
  \/ \E j \in cleaner[w].done : CompleteCleanup(w, j)

HomeFairness ==
  /\ \A w \in Cleaners : WF_homeVars(BatchStep(w))
  /\ \A a \in Assets :
       WF_homeVars(LeaseExpires(a)) /\ SF_homeVars(ClaimOf(a)) /\ SF_homeVars(DestroyOf(a))

HomeFairSpec == HomeSpec /\ HomeFairness

\* "Failed destroys remain durable and become due again"
\* (home_section_service.go:342-344): a queued image is destroyed in the end,
\* through outages and crashes, unless a row refers to it.
QueuedImagesVanish ==
  \A a \in Assets :
    queue[a].state # "absent" ~> (cloud[a] = "destroyed" \/ Referenced(a))
=============================================================================
