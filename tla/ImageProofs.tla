------------------------------ MODULE ImageProofs ------------------------------
(***************************************************************************)
(* Theorems about HomeAssets and PromotionAssets, for any requests, cells, *)
(* slots, images and workers.                                              *)
(***************************************************************************)
EXTENDS HomeAssets, PromotionAssets, TLAPS

Image == Assets \union {NoImage}
Edit == [pc : {"idle", "upload", "ensure", "lock", "apply", "commit", "enqueue"},
         cell : Cells \union {NoImage}, act : BOOLEAN, asset : Image, prev : Image, to : Image,
         enq : BOOLEAN, holds : BOOLEAN]
Work == [batch : SUBSET Claim, done : SUBSET Claim]

\* The types by their names.
LEMMA HomeTypes ==
  HomeTypeOK <=>
    /\ image \in [Cells -> Image]
    /\ rows \subseteq Slots /\ active \subseteq rows /\ strip \in BOOLEAN
    /\ cloud \in [Assets -> {"unused", "stored", "destroyed"}]
    /\ queue \in [Assets -> Entry]
    /\ edit \in [Editors -> Edit] /\ cleaner \in [Cleaners -> Work]
    /\ leaked \subseteq Assets /\ doubted \subseteq Assets /\ raced \subseteq Assets
    /\ slips \in 0..MaxSlips
BY DEF HomeTypeOK, Image, Edit, Work

\* What a request starts with.
LEMMA NoEditTyped == NoEdit \in Edit
BY DEF NoEdit, Edit, Image

\* InDoubt, Committing, Pending and RequestsAreSound, of the record of a request.
Doubt(e) == e.holds /\ e.pc \in {"idle", "enqueue"}
Comm(e) == e.pc = "commit" \/ Doubt(e)
Open(e) == e.asset # NoImage /\ (e.pc = "enqueue" => e.holds)

Sound(e) ==
  /\ e.pc \in {"idle", "enqueue"} /\ ~e.holds => e.cell = NoImage /\ ~e.act
  /\ e.pc = "idle" /\ ~e.holds => e.asset = NoImage
  /\ e.pc \notin {"idle", "enqueue"} \/ e.holds => e.cell \in Cells
  /\ e.pc = "upload" => e.asset = NoImage
  /\ e.pc \in {"upload", "ensure", "lock"} => ~e.holds /\ e.prev = NoImage
  /\ e.pc = "apply" /\ e.cell \in Slots =>
       e.prev = IF e.holds THEN image[e.cell] ELSE NoImage
  /\ e.pc = "apply" /\ e.cell \in Orders => e.holds /\ e.prev = NoImage
  /\ e.pc = "commit" => e.holds
  /\ e.pc = "enqueue" => e.asset # NoImage
  /\ e.enq => e.prev # NoImage
  /\ ~Comm(e) => e.to = NoImage
  /\ Comm(e) =>
       /\ e.to = IF e.asset = NoImage /\ e.cell \in Slots THEN image[e.cell] ELSE e.asset
       /\ e.enq \/ e.prev \in {NoImage, e.to, Legacy}
  /\ e.cell \in Slots /\ e.act /\ e.pc # "upload" =>
       e.asset # NoImage \/ image[e.cell] # NoImage

\* Requests are sound when their records are.
LEMMA RequestsBySound == RequestsAreSound <=> \A h \in Editors : Sound(edit[h])
BY DEF RequestsAreSound, Sound, Committing, InDoubt, Comm, Doubt

\* And in the next state.
LEMMA NextBySound == (\A h \in Editors : Sound(edit[h]))' => RequestsAreSound'
BY RequestsBySound, PTL

\* UploadsAreOwned in its parts, of records.
Clear(a) ==
  /\ cloud[a] = "stored" /\ queue[a].state = "absent"
  /\ \A w \in Cleaners : \A j \in cleaner[w].batch : j.asset # a

Unseen(a) == ~Referenced(a) /\ \A g \in Editors : edit[g].prev # a

Recorded(a) == queue[a].state # "absent" \/ cloud[a] = "destroyed" \/ a \in leaked

\* UploadsAreOwned, request by request.
LEMMA UploadsInParts ==
  UploadsAreOwned <=>
    /\ \A g, h \in Editors : edit[g].asset = edit[h].asset => g = h \/ edit[h].asset = NoImage
    /\ \A h \in Editors :
         LET e == edit[h] IN
         /\ e.asset # NoImage => cloud[e.asset] # "unused"
         /\ Open(e) => Unseen(e.asset) /\ (e.asset \notin doubted => Clear(e.asset))
         /\ Doubt(e) /\ e.pc = "idle" /\ e.asset # NoImage => Recorded(e.asset)
BY DEF UploadsAreOwned, Pending, InDoubt, Open, Doubt, Clear, Unseen, Recorded

\* HomeInv in these words.
LEMMA HomeFacts ==
  ASSUME HomeInv
  PROVE  /\ image \in [Cells -> Image] /\ cloud \in [Assets -> {"unused", "stored", "destroyed"}]
         /\ queue \in [Assets -> Entry] /\ edit \in [Editors -> Edit]
         /\ cleaner \in [Cleaners -> Work]
         /\ \A h \in Editors : Sound(edit[h])
         /\ \A g, h \in Editors : edit[g].asset = edit[h].asset => g = h \/ edit[h].asset = NoImage
         /\ \A h \in Editors :
              /\ edit[h].asset # NoImage => cloud[edit[h].asset] # "unused"
              /\ Open(edit[h]) =>
                   /\ Unseen(edit[h].asset)
                   /\ edit[h].asset \notin doubted => Clear(edit[h].asset)
              /\ Doubt(edit[h]) /\ edit[h].pc = "idle" /\ edit[h].asset # NoImage =>
                   Recorded(edit[h].asset)
BY HomeTypes, RequestsBySound, UploadsInParts DEF HomeInv

\* What uploads need in the next state.
LEMMA NextUploads ==
  (/\ \A g, h \in Editors : edit[g].asset = edit[h].asset => g = h \/ edit[h].asset = NoImage
   /\ \A h \in Editors :
        /\ edit[h].asset # NoImage => cloud[edit[h].asset] # "unused"
        /\ Open(edit[h]) =>
             /\ Unseen(edit[h].asset)
             /\ edit[h].asset \notin doubted => Clear(edit[h].asset)
        /\ Doubt(edit[h]) /\ edit[h].pc = "idle" /\ edit[h].asset # NoImage =>
             Recorded(edit[h].asset))'
  => UploadsAreOwned'
<1>1. (/\ \A g, h \in Editors : edit[g].asset = edit[h].asset => g = h \/ edit[h].asset = NoImage
       /\ \A h \in Editors :
            /\ edit[h].asset # NoImage => cloud[edit[h].asset] # "unused"
            /\ Open(edit[h]) =>
                 /\ Unseen(edit[h].asset)
                 /\ edit[h].asset \notin doubted => Clear(edit[h].asset)
            /\ Doubt(edit[h]) /\ edit[h].pc = "idle" /\ edit[h].asset # NoImage =>
                 Recorded(edit[h].asset))
      => UploadsAreOwned
  BY UploadsInParts
<1> QED
  BY <1>1, PTL

\* A record of a request that may follow e when no row, image or entry changes.
Follows(e, r) ==
  /\ Sound(r)
  /\ r.asset \in {e.asset, NoImage}
  /\ Open(r) => Open(e)
  /\ r.prev \in {NoImage, e.prev} \union References
  /\ Doubt(r) /\ r.pc = "idle" /\ r.asset # NoImage =>
       Recorded(r.asset) \/ r.asset \in leaked'
  /\ \A a \in {e.asset, e.to} \ {NoImage} :
       a \notin {r.asset, r.to} =>
         Referenced(a) \/ queue[a].state # "absent" \/ cloud[a] # "stored" \/ a \in leaked'

\* A request that does nothing follows itself.
LEMMA FollowsItself ==
  ASSUME HomeInv, NEW h \in Editors PROVE Follows(edit[h], edit[h])
BY HomeFacts DEF Follows

\* Steps of requests that change no row, no image and no entry.
LEMMA QuietKept ==
  ASSUME HomeInv, UNCHANGED <<image, rows, active, queue, cloud, doubted, raced>>,
         strip' \in BOOLEAN, slips' \in 0..MaxSlips,
         leaked' \subseteq Assets, leaked \subseteq leaked',
         edit' \in [Editors -> Edit], cleaner' \in [Cleaners -> Work],
         \A h \in Editors : Follows(edit[h], edit'[h]),
         \A g, h \in Editors : g # h /\ edit'[g].holds /\ edit'[h].holds =>
           edit'[g].cell # edit'[h].cell \/ edit'[h].cell \in Orders,
         \A w \in Cleaners : /\ cleaner'[w].batch \subseteq cleaner[w].batch
                             /\ cleaner'[w].done \subseteq cleaner[w].done
  PROVE  HomeInv'
<1>1. /\ image \in [Cells -> Image] /\ edit \in [Editors -> Edit]
      /\ \A g, h \in Editors : edit[g].asset = edit[h].asset => g = h \/ edit[h].asset = NoImage
      /\ \A h \in Editors :
           /\ edit[h].asset # NoImage => cloud[edit[h].asset] # "unused"
           /\ Open(edit[h]) =>
                /\ Unseen(edit[h].asset)
                /\ edit[h].asset \notin doubted => Clear(edit[h].asset)
  BY HomeFacts
<1>2. HomeTypeOK'
  BY HomeTypes DEF HomeInv, HomeTypeOK, Image, Edit, Work
<1>3. ReferencesAreAlive' /\ PublicSectionsHaveImages'
  BY DEF HomeInv, ReferencesAreAlive, PublicSectionsHaveImages, PublicSections
<1>4. OrphansHaveCause'
  <2> SUFFICES ASSUME NEW a \in Assets, cloud[a] = "stored", ~Owned(a)', a \notin leaked',
                      a \notin raced \union {Legacy}
               PROVE  FALSE
    BY DEF OrphansHaveCause
  <2>1. ~Referenced(a) /\ queue[a].state = "absent"
    BY DEF Owned, Referenced
  <2>2. \A h \in Editors : edit'[h].asset # a /\ edit'[h].to # a
    BY DEF Owned
  <2>3. \A h \in Editors : edit[h].asset # a /\ edit[h].to # a
    BY <2>1, <2>2, HomeAssumption DEF Follows
  <2> QED
    BY <2>1, <2>3 DEF HomeInv, OrphansHaveCause, Owned
<1>5. RequestsAreSound'
  <2>1. ASSUME NEW h \in Editors PROVE Sound(edit[h])'
    <3>1. Sound(edit'[h]) /\ image' = image
      BY DEF Follows
    <3> QED
      BY ONLY <3>1 DEF Sound, Comm, Doubt
  <2> QED
    BY <2>1, NextBySound
<1>6. SectionsAreLocked'
  BY DEF SectionsAreLocked
<1>7. ASSUME NEW a \in Assets, Unseen(a) PROVE Unseen(a)'
  BY <1>7, HomeAssumption DEF Unseen, Referenced, References, Follows
<1>8. UploadsAreOwned'
  <2>1. ASSUME NEW g \in Editors, NEW h \in Editors, edit'[g].asset = edit'[h].asset
        PROVE  g = h \/ edit'[h].asset = NoImage
    BY <1>1, <2>1 DEF Follows
  <2>2. ASSUME NEW h \in Editors, edit'[h].asset # NoImage
        PROVE  /\ edit'[h].asset \in Assets /\ edit'[h].asset = edit[h].asset
               /\ cloud'[edit'[h].asset] # "unused"
    BY <1>1, <2>2 DEF Follows, Edit, Image
  <2>3. ASSUME NEW h \in Editors, Open(edit'[h])
        PROVE  /\ Unseen(edit[h].asset)'
               /\ edit'[h].asset \notin doubted => Clear(edit[h].asset)'
    <3>1. edit'[h].asset \in Assets /\ edit'[h].asset = edit[h].asset /\ Open(edit[h])
      BY <2>2, <2>3 DEF Follows, Open
    <3> QED
      BY <1>1, <1>7, <3>1 DEF Clear
  <2>4. ASSUME NEW h \in Editors, Doubt(edit'[h]), edit'[h].pc = "idle", edit'[h].asset # NoImage
        PROVE  Recorded(edit[h].asset)'
    BY <2>4 DEF Follows, Recorded
  <2> QED
    BY <2>1, <2>2, <2>3, <2>4, NextUploads DEF Open, Doubt
<1>9. UnusedAreUnknown'
  <2> SUFFICES ASSUME NEW a \in Assets, cloud[a] = "unused"
               PROVE  /\ ~Referenced(a)' /\ queue[a].state = "absent" /\ a \notin doubted
                      /\ \A w \in Cleaners : \A j \in cleaner'[w].batch : j.asset # a
                      /\ \A h \in Editors : edit'[h].prev # a
    BY DEF UnusedAreUnknown
  <2>1. /\ Unseen(a) /\ queue[a].state = "absent" /\ a \notin doubted
        /\ \A w \in Cleaners : \A j \in cleaner[w].batch : j.asset # a
    BY DEF HomeInv, UnusedAreUnknown, Unseen
  <2>2. Unseen(a)'
    BY <1>7, <2>1
  <2> QED
    BY <2>1, <2>2 DEF Unseen
<1>10. ClaimsAreFree'
  BY DEF HomeInv, ClaimsAreFree, Referenced
<1> QED
  BY <1>2, <1>3, <1>4, <1>5, <1>6, <1>8, <1>9, <1>10 DEF HomeInv

\* Steps of the clean-up worker: an image is destroyed only while it is claimed,
\* an entry goes only when its image is destroyed, and no row is touched.
LEMMA WorkerKept ==
  ASSUME HomeInv, UNCHANGED <<image, rows, active, strip, edit, leaked, doubted, raced>>,
         slips' \in 0..MaxSlips, queue' \in [Assets -> Entry], cleaner' \in [Cleaners -> Work],
         cloud' \in [Assets -> {"unused", "stored", "destroyed"}],
         \A a \in Assets :
           \/ cloud'[a] = cloud[a]
           \/ /\ cloud'[a] = "destroyed"
              /\ \E w \in Cleaners : \E j \in cleaner[w].batch : j.asset = a,
         \A a \in Assets :
           \/ queue'[a].state = queue[a].state
           \/ queue'[a].state # "absent" /\ queue[a].state # "absent"
           \/ cloud[a] = "destroyed" /\ queue'[a].state = "absent",
         \A w \in Cleaners :
           /\ \A j \in cleaner'[w].batch :
                j \in cleaner[w].batch \/ (~Referenced(j.asset) /\ queue[j.asset].state # "absent")
           /\ \A j \in cleaner'[w].done : j \in cleaner[w].done \/ cloud'[j.asset] = "destroyed"
  PROVE  HomeInv'
<1>1. /\ image \in [Cells -> Image] /\ edit \in [Editors -> Edit]
      /\ cleaner \in [Cleaners -> Work]
      /\ \A h \in Editors : Sound(edit[h])
      /\ \A g, h \in Editors : edit[g].asset = edit[h].asset => g = h \/ edit[h].asset = NoImage
      /\ \A h \in Editors :
           /\ edit[h].asset # NoImage => cloud[edit[h].asset] # "unused"
           /\ Open(edit[h]) =>
                /\ Unseen(edit[h].asset)
                /\ edit[h].asset \notin doubted => Clear(edit[h].asset)
           /\ Doubt(edit[h]) /\ edit[h].pc = "idle" /\ edit[h].asset # NoImage =>
                Recorded(edit[h].asset)
  BY HomeFacts
<1>2. HomeTypeOK'
  BY HomeTypes DEF HomeInv, HomeTypeOK, Image, Edit, Work
<1>3. ReferencesAreAlive'
  <2> SUFFICES ASSUME NEW c \in Cells, image[c] # NoImage, cloud'[image[c]] # "stored"
               PROVE  image[c] \in doubted
    BY DEF ReferencesAreAlive
  <2>1. image[c] \in Assets /\ Referenced(image[c])
    BY <1>1 DEF Image, Referenced
  <2>2. CASE cloud'[image[c]] = cloud[image[c]]
    BY <2>2 DEF HomeInv, ReferencesAreAlive
  <2>3. CASE \E w \in Cleaners : \E j \in cleaner[w].batch : j.asset = image[c]
    BY <2>1, <2>3 DEF HomeInv, ClaimsAreFree
  <2> QED
    BY <2>1, <2>2, <2>3
<1>4. OrphansHaveCause'
  <2> SUFFICES ASSUME NEW a \in Assets, cloud'[a] = "stored", ~Owned(a)'
               PROVE  a \in leaked \union raced \union {Legacy}
    BY DEF OrphansHaveCause
  <2>1. cloud[a] = "stored"
    OBVIOUS
  <2>2. queue[a].state = "absent"
    BY <2>1 DEF Owned
  <2>3. ~Owned(a)
    BY <2>2 DEF Owned, Referenced
  <2> QED
    BY <2>1, <2>3 DEF HomeInv, OrphansHaveCause
<1>5. PublicSectionsHaveImages' /\ SectionsAreLocked'
  BY DEF HomeInv, PublicSectionsHaveImages, PublicSections, SectionsAreLocked
<1>6. RequestsAreSound'
  <2>1. ASSUME NEW h \in Editors PROVE Sound(edit[h])'
    <3>1. Sound(edit[h]) /\ edit' = edit /\ image' = image
      BY <1>1
    <3> QED
      BY ONLY <3>1 DEF Sound, Comm, Doubt
  <2> QED
    BY <2>1, NextBySound
<1>7. UploadsAreOwned'
  <2>1. ASSUME NEW h \in Editors, edit[h].asset # NoImage
        PROVE  edit[h].asset \in Assets /\ cloud'[edit[h].asset] # "unused"
    BY <1>1, <2>1 DEF Edit, Image
  <2>2. ASSUME NEW h \in Editors, Open(edit[h])
        PROVE  /\ Unseen(edit[h].asset)'
               /\ edit[h].asset \notin doubted => Clear(edit[h].asset)'
    <3>1. edit[h].asset \in Assets /\ Unseen(edit[h].asset)
      BY <1>1, <2>1, <2>2 DEF Open
    <3>2. Unseen(edit[h].asset)'
      BY <3>1 DEF Unseen, Referenced
    <3>3. ASSUME edit[h].asset \notin doubted PROVE Clear(edit[h].asset)'
      <4>1. Clear(edit[h].asset)
        BY <1>1, <2>2, <3>3
      <4> QED
        BY <3>1, <4>1 DEF Clear
    <3> QED
      BY <3>2, <3>3
  <2>3. ASSUME NEW h \in Editors, Doubt(edit[h]), edit[h].pc = "idle", edit[h].asset # NoImage
        PROVE  Recorded(edit[h].asset)'
    <3>1. Recorded(edit[h].asset) /\ edit[h].asset \in Assets
      BY <1>1, <2>1, <2>3
    <3>2. cloud[edit[h].asset] = "destroyed" => cloud'[edit[h].asset] = "destroyed"
      BY <3>1
    <3> QED
      BY <3>1, <3>2 DEF Recorded
  <2> QED
    BY <1>1, <2>1, <2>2, <2>3, NextUploads DEF Open, Doubt
<1>8. UnusedAreUnknown'
  <2> SUFFICES ASSUME NEW a \in Assets, cloud'[a] = "unused"
               PROVE  /\ ~Referenced(a)' /\ queue'[a].state = "absent" /\ a \notin doubted
                      /\ \A w \in Cleaners : \A j \in cleaner'[w].batch : j.asset # a
                      /\ \A h \in Editors : edit[h].prev # a
    BY DEF UnusedAreUnknown
  <2>1. cloud[a] = "unused"
    OBVIOUS
  <2>2. /\ ~Referenced(a) /\ queue[a].state = "absent" /\ a \notin doubted
        /\ \A w \in Cleaners : \A j \in cleaner[w].batch : j.asset # a
        /\ \A h \in Editors : edit[h].prev # a
    BY <2>1 DEF HomeInv, UnusedAreUnknown
  <2> QED
    BY <2>1, <2>2 DEF Referenced
<1>9. ClaimsAreFree'
  <2>1. ASSUME NEW w \in Cleaners, NEW j \in cleaner'[w].batch, Referenced(j.asset)
        PROVE  j.asset \in doubted
    BY <2>1 DEF HomeInv, ClaimsAreFree
  <2>2. ASSUME NEW w \in Cleaners, NEW j \in cleaner'[w].done
        PROVE  cloud'[j.asset] = "destroyed"
    <3>1. CASE j \in cleaner[w].done
      <4>1. cloud[j.asset] = "destroyed" /\ j.asset \in Assets
        BY <1>1, <3>1 DEF HomeInv, ClaimsAreFree, Work, Claim
      <4> QED
        BY <4>1
    <3> QED
      BY <2>2, <3>1
  <2> QED
    BY <2>1, <2>2 DEF HomeInv, ClaimsAreFree, Referenced
<1> QED
  BY <1>2, <1>3, <1>4, <1>5, <1>6, <1>7, <1>8, <1>9 DEF HomeInv

\* An image that did not exist is stored, and is some request's or lost.
LEMMA NewImageKept ==
  ASSUME HomeInv, NEW h \in Editors, NEW a \in Assets, NEW r \in Edit,
         UNCHANGED <<tables, cleaner, doubted, raced>>,
         slips' \in 0..MaxSlips, leaked' \subseteq Assets, leaked \subseteq leaked',
         cloud[a] = "unused", cloud' = [cloud EXCEPT ![a] = "stored"],
         edit' = [edit EXCEPT ![h] = r],
         edit[h].asset = NoImage, edit[h].to = NoImage,
         Sound(r), r.prev = NoImage, ~r.holds, r.pc # "enqueue",
         \/ r.asset = a
         \/ r.asset = NoImage /\ a \in leaked'
  PROVE  HomeInv'
<1>1. /\ image \in [Cells -> Image] /\ edit \in [Editors -> Edit]
      /\ cleaner \in [Cleaners -> Work] /\ cloud \in [Assets -> {"unused", "stored", "destroyed"}]
      /\ \A g \in Editors : Sound(edit[g])
      /\ \A f, g \in Editors : edit[f].asset = edit[g].asset => f = g \/ edit[g].asset = NoImage
      /\ \A g \in Editors :
           /\ edit[g].asset # NoImage => cloud[edit[g].asset] # "unused"
           /\ Open(edit[g]) =>
                /\ Unseen(edit[g].asset)
                /\ edit[g].asset \notin doubted => Clear(edit[g].asset)
           /\ Doubt(edit[g]) /\ edit[g].pc = "idle" /\ edit[g].asset # NoImage =>
                Recorded(edit[g].asset)
  BY HomeFacts
<1>2. /\ UNCHANGED <<image, rows, active, strip, queue>>
      /\ NoImage \notin Assets /\ edit'[h] = r
      /\ \A g \in Editors : g # h => edit'[g] = edit[g]
  BY <1>1, HomeAssumption DEF tables
<1>3. /\ Unseen(a) /\ Clear(a)' /\ a \notin doubted /\ \A g \in Editors : edit[g].asset # a
      /\ \A w \in Cleaners : \A j \in cleaner[w].batch : j.asset # a
  BY <1>1, <1>2 DEF HomeInv, UnusedAreUnknown, Unseen, Clear
<1>4. HomeTypeOK'
  BY <1>1, <1>2, HomeTypes DEF HomeInv, HomeTypeOK, Image, Edit, Work
<1>5. ReferencesAreAlive' /\ PublicSectionsHaveImages'
  BY <1>1, <1>2, <1>3
     DEF HomeInv, ReferencesAreAlive, PublicSectionsHaveImages, PublicSections, Unseen,
         Referenced, Image
<1>6. OrphansHaveCause'
  <2> SUFFICES ASSUME NEW b \in Assets, cloud'[b] = "stored", ~Owned(b)'
               PROVE  b \in leaked' \union raced \union {Legacy}
    BY DEF OrphansHaveCause
  <2>1. CASE b = a
    BY <1>2, <2>1 DEF Owned
  <2>2. CASE b # a
    <3>1. cloud[b] = "stored"
      BY <1>1, <2>2
    <3>2. ~Owned(b)
      BY <1>2 DEF Owned, Referenced
    <3> QED
      BY <3>1, <3>2 DEF HomeInv, OrphansHaveCause
  <2> QED
    BY <2>1, <2>2
<1>7. RequestsAreSound'
  <2>1. ASSUME NEW g \in Editors PROVE Sound(edit[g])'
    <3>1. Sound(edit'[g]) /\ image' = image
      BY <1>1, <1>2
    <3> QED
      BY ONLY <3>1 DEF Sound, Comm, Doubt
  <2> QED
    BY <2>1, NextBySound
<1>8. SectionsAreLocked'
  BY <1>2 DEF HomeInv, SectionsAreLocked
<1>9. ASSUME NEW b, b # NoImage, Unseen(b) PROVE Unseen(b)'
  BY <1>2, <1>9 DEF Unseen, Referenced
<1>10. UploadsAreOwned'
  <2>1. ASSUME NEW f \in Editors, NEW g \in Editors, edit'[f].asset = edit'[g].asset
        PROVE  f = g \/ edit'[g].asset = NoImage
    BY <1>1, <1>2, <1>3, <2>1
  <2>2. ASSUME NEW g \in Editors
        PROVE  /\ edit'[g].asset # NoImage => cloud'[edit'[g].asset] # "unused"
               /\ Open(edit'[g]) =>
                    /\ Unseen(edit[g].asset)'
                    /\ edit'[g].asset \notin doubted => Clear(edit[g].asset)'
               /\ Doubt(edit'[g]) /\ edit'[g].pc = "idle" /\ edit'[g].asset # NoImage =>
                    Recorded(edit[g].asset)'
    <3>1. CASE g = h /\ r.asset = NoImage
      BY <1>2, <3>1 DEF Open, Doubt
    <3>2. CASE g = h /\ r.asset = a
      BY <1>1, <1>2, <1>3, <1>9, <3>2 DEF Open, Doubt
    <3>3. CASE g # h
      <4>1. edit'[g] = edit[g] /\ (edit[g].asset # NoImage => edit[g].asset \in Assets \ {a})
        BY <1>1, <1>2, <1>3, <3>3 DEF Edit, Image
      <4>2. edit[g].asset # NoImage => cloud'[edit[g].asset] = cloud[edit[g].asset]
        BY <1>1, <4>1
      <4>3. Open(edit[g]) => Unseen(edit[g].asset)'
        BY <1>1, <1>9, <4>1 DEF Open
      <4>4. Open(edit[g]) /\ edit[g].asset \notin doubted => Clear(edit[g].asset)'
        BY <1>1, <1>2, <4>1, <4>2 DEF Clear, Open
      <4>5. Doubt(edit[g]) /\ edit[g].pc = "idle" /\ edit[g].asset # NoImage =>
              Recorded(edit[g].asset)'
        BY <1>1, <1>2, <4>1, <4>2 DEF Recorded
      <4> QED
        BY <1>1, <4>1, <4>2, <4>3, <4>4, <4>5
    <3> QED
      BY <1>2, <3>1, <3>2, <3>3
  <2> QED
    BY <2>1, <2>2, NextUploads
<1>11. UnusedAreUnknown'
  <2> SUFFICES ASSUME NEW b \in Assets, cloud'[b] = "unused"
               PROVE  /\ ~Referenced(b)' /\ queue'[b].state = "absent" /\ b \notin doubted
                      /\ \A w \in Cleaners : \A j \in cleaner'[w].batch : j.asset # b
                      /\ \A g \in Editors : edit'[g].prev # b
    BY DEF UnusedAreUnknown
  <2>1. cloud[b] = "unused" /\ b # NoImage
    BY <1>1, <1>2
  <2>2. /\ Unseen(b) /\ queue[b].state = "absent" /\ b \notin doubted
        /\ \A w \in Cleaners : \A j \in cleaner[w].batch : j.asset # b
    BY <2>1 DEF HomeInv, UnusedAreUnknown, Unseen
  <2>3. Unseen(b)'
    BY <1>9, <2>1, <2>2
  <2> QED
    BY <1>2, <2>2, <2>3 DEF Unseen
<1>12. ClaimsAreFree'
  <2>1. ASSUME NEW w \in Cleaners, NEW j \in cleaner[w].done
        PROVE  cloud'[j.asset] = "destroyed"
    <3>1. cloud[j.asset] = "destroyed" /\ j.asset \in Assets
      BY <1>1 DEF HomeInv, ClaimsAreFree, Work, Claim
    <3> QED
      BY <1>1, <3>1
  <2> QED
    BY <1>2, <2>1 DEF HomeInv, ClaimsAreFree, Referenced
<1> QED
  BY <1>4, <1>5, <1>6, <1>7, <1>8, <1>10, <1>11, <1>12 DEF HomeInv

\* What a commit writes: the image that is there, or one of its own that nobody
\* knows; never none into a section that has or publishes an image.
LEMMA CommitWrites ==
  ASSUME HomeInv, NEW h \in Editors, Comm(edit[h])
  PROVE  /\ edit[h].cell \in Cells /\ edit[h].to \in Image /\ edit[h].holds
         /\ \/ edit[h].to \in {NoImage, image[edit[h].cell]}
            \/ edit[h].to = edit[h].asset /\ Open(edit[h])
         /\ edit[h].asset \in {NoImage, edit[h].to}
         /\ edit[h].cell \in Slots /\ (edit[h].act \/ image[edit[h].cell] # NoImage) =>
              edit[h].to # NoImage
         /\ edit[h].enq => edit[h].prev \in Assets
         /\ edit[h].enq \/ edit[h].prev \in {NoImage, edit[h].to, Legacy}
         /\ \A g \in Editors : g # h /\ edit[g].holds =>
              edit[g].cell # edit[h].cell \/ edit[g].cell \in Orders
<1>1. Sound(edit[h]) /\ edit[h] \in Edit
  BY HomeFacts
<1>2. edit[h].holds
  BY <1>1 DEF Comm, Doubt, Sound
<1>3. /\ edit[h].cell \in Cells
      /\ edit[h].to = IF edit[h].asset = NoImage /\ edit[h].cell \in Slots
                      THEN image[edit[h].cell] ELSE edit[h].asset
      /\ edit[h].enq \/ edit[h].prev \in {NoImage, edit[h].to, Legacy}
      /\ edit[h].enq => edit[h].prev # NoImage
      /\ edit[h].cell \in Slots /\ edit[h].act =>
           edit[h].asset # NoImage \/ image[edit[h].cell] # NoImage
  BY <1>1, <1>2 DEF Sound, Comm, Doubt
<1>4. edit[h].to \in Image /\ (edit[h].enq => edit[h].prev \in Assets)
  BY <1>1, <1>3 DEF Edit, Image
<1>5. edit[h].asset # NoImage => Open(edit[h])
  BY <1>2 DEF Open
<1>6. \A g \in Editors : g # h /\ edit[g].holds =>
        edit[g].cell # edit[h].cell \/ edit[g].cell \in Orders
  BY <1>2 DEF HomeInv, SectionsAreLocked
<1> QED
  BY <1>2, <1>3, <1>4, <1>5, <1>6

\* What Committed changes of rows, entries and histories.
LEMMA CommittedParts ==
  ASSUME HomeInv, NEW h \in Editors, Comm(edit[h]), Committed(edit[h])
  PROVE  /\ image' \in [Cells -> Image] /\ image'[edit[h].cell] = edit[h].to
         /\ \A c \in Cells \ {edit[h].cell} : image'[c] = image[c]
         /\ queue' \in [Assets -> Entry]
         /\ \A a \in Assets : a # edit[h].prev => queue'[a] = queue[a]
         /\ \A a \in Assets : queue[a].state # "absent" => queue'[a].state # "absent"
         /\ edit[h].enq => queue'[edit[h].prev].state # "absent"
         /\ raced' \subseteq Assets /\ raced \subseteq raced'
         /\ image[edit[h].cell] \notin {NoImage, edit[h].prev, edit[h].to} =>
              image[edit[h].cell] \in raced'
         /\ rows' \subseteq Slots /\ active' \subseteq rows'
         /\ \A s \in Slots : s \in rows' /\ s \in active' =>
              \/ s = edit[h].cell /\ edit[h].act
              \/ s # edit[h].cell /\ s \in rows /\ s \in active
<1> DEFINE e == edit[h]
<1>1. /\ image \in [Cells -> Image] /\ queue \in [Assets -> Entry] /\ e \in Edit
      /\ rows \subseteq Slots /\ active \subseteq rows /\ raced \subseteq Assets
  BY HomeFacts, HomeTypes DEF HomeInv
<1>2. e.cell \in Cells /\ e.to \in Image /\ (e.enq => e.prev \in Assets)
  BY CommitWrites
<1>3. /\ image' = [image EXCEPT ![e.cell] = e.to]
      /\ rows' = rows \union ({e.cell} \cap Slots)
      /\ active' = IF e.cell \in Slots /\ e.act THEN active \union {e.cell}
                   ELSE active \ {e.cell}
      /\ queue' = IF e.enq THEN Enqueue(e.prev, {}) ELSE queue
      /\ raced' = raced \union (IF image[e.cell] = e.prev THEN {}
                                ELSE {image[e.cell]} \ {NoImage, e.to})
  BY DEF Committed
<1>4. /\ queue' \in [Assets -> Entry]
      /\ \A a \in Assets : a # e.prev => queue'[a] = queue[a]
      /\ \A a \in Assets : queue[a].state # "absent" => queue'[a].state # "absent"
      /\ e.enq => queue'[e.prev].state # "absent"
  <2>1. CASE ~e.enq
    BY <1>1, <1>3, <2>1
  <2>2. CASE e.enq /\ queue[e.prev].state # "absent"
    BY <1>1, <1>3, <2>2 DEF Enqueue
  <2>3. CASE e.enq /\ queue[e.prev].state = "absent"
    <3> DEFINE n == [state |-> "due", id |-> queue[e.prev].id + 1]
    <3>1. queue' = [queue EXCEPT ![e.prev] = n]
      BY <1>3, <2>3 DEF Enqueue
    <3>2. n \in Entry /\ n.state = "due"
      BY <1>1, <1>2, <2>3 DEF Entry
    <3> HIDE DEF n
    <3> QED
      BY <1>1, <1>2, <2>3, <3>1, <3>2
  <2> QED
    BY <2>1, <2>2, <2>3
<1>5. raced' \subseteq Assets
  BY <1>1, <1>2, <1>3 DEF Image
<1> HIDE DEF e
<1>6. /\ image' \in [Cells -> Image] /\ image'[e.cell] = e.to
      /\ \A c \in Cells \ {e.cell} : image'[c] = image[c]
  BY <1>1, <1>2, <1>3
<1>7. /\ raced \subseteq raced'
      /\ image[e.cell] \notin {NoImage, e.prev, e.to} => image[e.cell] \in raced'
  BY <1>3
<1>8. /\ rows' \subseteq Slots /\ active' \subseteq rows'
      /\ \A s \in Slots : s \in rows' /\ s \in active' =>
           \/ s = e.cell /\ e.act
           \/ s # e.cell /\ s \in rows /\ s \in active
  BY <1>1, <1>3
<1> QED
  BY <1>4, <1>5, <1>6, <1>7, <1>8 DEF e

\* A commit, at once or late.
LEMMA CommitKept ==
  ASSUME HomeInv, NEW h \in Editors, Comm(edit[h]), Committed(edit[h]), NEW r \in Edit,
         r = NoEdit \/ (edit[h].pc = "enqueue"
                        /\ r = [NoEdit EXCEPT !.pc = "enqueue", !.asset = edit[h].asset]),
         edit' = [edit EXCEPT ![h] = r], UNCHANGED <<cloud, cleaner, leaked, doubted, slips>>
  PROVE  HomeInv'
<1> DEFINE e == edit[h]
<1>1. /\ image \in [Cells -> Image] /\ edit \in [Editors -> Edit]
      /\ cleaner \in [Cleaners -> Work] /\ strip' = strip
      /\ \A g \in Editors : Sound(edit[g])
      /\ \A f, g \in Editors : edit[f].asset = edit[g].asset => f = g \/ edit[g].asset = NoImage
      /\ \A g \in Editors :
           /\ edit[g].asset # NoImage => cloud[edit[g].asset] # "unused"
           /\ Open(edit[g]) =>
                /\ Unseen(edit[g].asset)
                /\ edit[g].asset \notin doubted => Clear(edit[g].asset)
           /\ Doubt(edit[g]) /\ edit[g].pc = "idle" /\ edit[g].asset # NoImage =>
                Recorded(edit[g].asset)
  BY HomeFacts DEF Committed
<1>2. /\ e.cell \in Cells /\ e.to \in Image
      /\ \/ e.to \in {NoImage, image[e.cell]}
         \/ e.to = e.asset /\ Open(e)
      /\ e.asset \in {NoImage, e.to}
      /\ e.cell \in Slots /\ (e.act \/ image[e.cell] # NoImage) => e.to # NoImage
      /\ e.enq => e.prev \in Assets
      /\ e.enq \/ e.prev \in {NoImage, e.to, Legacy}
      /\ \A g \in Editors : g # h /\ edit[g].holds =>
           edit[g].cell # e.cell \/ edit[g].cell \in Orders
  BY CommitWrites
<1>3. /\ image' \in [Cells -> Image] /\ image'[e.cell] = e.to
      /\ \A c \in Cells \ {e.cell} : image'[c] = image[c]
      /\ queue' \in [Assets -> Entry]
      /\ \A a \in Assets : a # e.prev => queue'[a] = queue[a]
      /\ \A a \in Assets : queue[a].state # "absent" => queue'[a].state # "absent"
      /\ e.enq => queue'[e.prev].state # "absent"
      /\ raced' \subseteq Assets /\ raced \subseteq raced'
      /\ image[e.cell] \notin {NoImage, e.prev, e.to} => image[e.cell] \in raced'
  BY CommittedParts
<1>4. /\ rows' \subseteq Slots /\ active' \subseteq rows'
      /\ \A s \in Slots : s \in rows' /\ s \in active' =>
           \/ s = e.cell /\ e.act
           \/ s # e.cell /\ s \in rows /\ s \in active
  BY CommittedParts
<1>5. /\ edit'[h] = r /\ \A g \in Editors : g # h => edit'[g] = edit[g]
      /\ r.asset \in {NoImage, e.asset} /\ r.prev = NoImage /\ ~r.holds /\ ~Open(r) /\ ~Doubt(r)
  <2>1. NoEdit.asset = NoImage /\ NoEdit.prev = NoImage /\ ~NoEdit.holds
    BY DEF NoEdit
  <2>2. CASE r = NoEdit
    BY <1>1, <2>1, <2>2 DEF Open, Doubt
  <2>3. CASE r = [NoEdit EXCEPT !.pc = "enqueue", !.asset = e.asset]
    <3>1. r.asset = e.asset /\ r.prev = NoImage /\ ~r.holds /\ r.pc = "enqueue"
      BY <2>3 DEF NoEdit
    <3> QED
      BY <1>1, <3>1 DEF Open, Doubt
  <2> QED
    BY <2>2, <2>3
<1>6. ASSUME NEW a, a # NoImage
      PROVE  /\ Referenced(a)' => Referenced(a) \/ (a = e.asset /\ a = e.to /\ Open(e))
             /\ Unseen(a) /\ a # e.to => Unseen(a)'
  <2>1. Referenced(a)' => Referenced(a) \/ (a = e.asset /\ a = e.to /\ Open(e))
    BY <1>2, <1>3, <1>6 DEF Referenced
  <2>2. Unseen(a) /\ a # e.to => Unseen(a)'
    BY <1>3, <1>5, <1>6 DEF Referenced, Unseen
  <2> QED
    BY <2>1, <2>2
<1> HIDE DEF e
<1>7. NoImage \notin Assets /\ e = edit[h] /\ e \in Edit
  BY <1>1, HomeAssumption DEF e
<1>8. HomeTypeOK'
  <2>1. edit' \in [Editors -> Edit]
    BY <1>1
  <2> QED
    BY <1>1, <1>3, <1>4, <2>1, HomeTypes DEF HomeInv, HomeTypeOK, Image, Edit, Work
<1>9. ReferencesAreAlive'
  <2> SUFFICES ASSUME NEW c \in Cells, image'[c] # NoImage, cloud[image'[c]] # "stored"
               PROVE  image'[c] \in doubted
    BY DEF ReferencesAreAlive
  <2>1. CASE image'[c] = image[c]
    BY <2>1 DEF HomeInv, ReferencesAreAlive
  <2>2. CASE c = e.cell /\ e.to = e.asset /\ Open(e)
    BY <1>1, <1>3, <1>7, <2>2 DEF Clear
  <2> QED
    BY <1>2, <1>3, <2>1, <2>2
<1>10. OrphansHaveCause'
  <2> SUFFICES ASSUME NEW a \in Assets, cloud[a] = "stored", ~Owned(a)',
                      a \notin leaked \union raced' \union {Legacy}
               PROVE  FALSE
    BY DEF OrphansHaveCause
  <2>1. /\ \A c \in Cells : image'[c] # a
        /\ queue'[a].state = "absent"
        /\ \A g \in Editors : edit'[g].asset # a /\ edit'[g].to # a
    BY DEF Owned, Referenced
  <2>2. a # e.to /\ a # e.asset
    BY <1>2, <1>3, <1>7, <2>1
  <2>3. \A g \in Editors : edit[g].asset # a /\ edit[g].to # a
    BY <1>5, <1>7, <2>1, <2>2
  <2>4. queue[a].state = "absent"
    BY <1>3, <2>1
  <2>5. a # e.prev \/ image[e.cell] # a
    BY <1>2, <1>3, <1>7, <2>1, <2>2
  <2>6. image[e.cell] # a
    BY <1>3, <1>7, <2>2, <2>5
  <2>7. ~Referenced(a)
    BY <1>3, <2>1, <2>6 DEF Referenced
  <2>8. ~Owned(a)
    BY <2>3, <2>4, <2>7 DEF Owned
  <2> QED
    BY <1>3, <2>8 DEF HomeInv, OrphansHaveCause
<1>11. PublicSectionsHaveImages'
  <2> SUFFICES ASSUME NEW s \in Slots, s \in rows', s \in active' PROVE image'[s] # NoImage
    BY DEF PublicSectionsHaveImages, PublicSections
  <2>1. CASE s = e.cell /\ e.act
    BY <1>2, <1>3, <2>1
  <2>2. CASE s # e.cell /\ s \in rows /\ s \in active
    BY <1>3, <2>2 DEF HomeInv, PublicSectionsHaveImages, PublicSections, Cells
  <2> QED
    BY <1>4, <2>1, <2>2
<1>12. RequestsAreSound'
  <2>1. ASSUME NEW g \in Editors PROVE Sound(edit[g])'
    <3>1. CASE g = h
      <4>1. /\ edit'[g] = r /\ NoImage \notin Slots \union Orders
            /\ e.pc = "enqueue" => e.asset # NoImage
        BY <1>1, <1>5, <1>7, <3>1, HomeAssumption DEF Sound
      <4>2. /\ r.cell = NoImage /\ ~r.act /\ r.prev = NoImage /\ r.to = NoImage
            /\ ~r.enq /\ ~r.holds
            /\ \/ r.pc = "idle" /\ r.asset = NoImage
               \/ r.pc = "enqueue" /\ r.asset = e.asset /\ e.pc = "enqueue"
        <5>1. CASE r = NoEdit
          BY <5>1 DEF NoEdit
        <5>2. CASE r = [NoEdit EXCEPT !.pc = "enqueue", !.asset = edit[h].asset]
                   /\ e.pc = "enqueue"
          BY <1>7, <5>2 DEF NoEdit
        <5> QED
          BY <1>7, <5>1, <5>2
      <4> QED
        BY ONLY <4>1, <4>2 DEF Sound, Comm, Doubt
    <3>2. CASE g # h /\ (edit[g].cell # e.cell \/ edit[g].cell \notin Slots)
      <4>1. /\ edit'[g] = edit[g] /\ Sound(edit[g])
            /\ edit[g].cell \in Slots => image'[edit[g].cell] = image[edit[g].cell]
        BY <1>1, <1>3, <1>5, <3>2 DEF Cells
      <4> QED
        BY ONLY <4>1 DEF Sound, Comm, Doubt
    <3>3. CASE g # h /\ edit[g].cell = e.cell /\ e.cell \in Slots
      <4>1. /\ edit'[g] = edit[g] /\ Sound(edit[g]) /\ ~edit[g].holds
            /\ image[edit[g].cell] # NoImage => image'[edit[g].cell] # NoImage
        BY <1>1, <1>2, <1>3, <1>5, <3>3, HomeAssumption
      <4> QED
        BY ONLY <4>1 DEF Sound, Comm, Doubt
    <3> QED
      BY <3>1, <3>2, <3>3
  <2> QED
    BY <2>1, NextBySound
<1>13. SectionsAreLocked'
  BY <1>5 DEF HomeInv, SectionsAreLocked
<1>14. UploadsAreOwned'
  <2>1. ASSUME NEW f \in Editors, NEW g \in Editors, edit'[f].asset = edit'[g].asset
        PROVE  f = g \/ edit'[g].asset = NoImage
    BY <1>1, <1>5, <1>7, <2>1
  <2>2. ASSUME NEW g \in Editors
        PROVE  /\ edit'[g].asset # NoImage => cloud[edit'[g].asset] # "unused"
               /\ Open(edit'[g]) =>
                    /\ Unseen(edit[g].asset)'
                    /\ edit'[g].asset \notin doubted => Clear(edit[g].asset)'
               /\ Doubt(edit'[g]) /\ edit'[g].pc = "idle" /\ edit'[g].asset # NoImage =>
                    Recorded(edit[g].asset)'
    <3>1. CASE g = h
      BY <1>1, <1>5, <1>7, <3>1
    <3>2. CASE g # h
      <4>1. edit'[g] = edit[g] /\ (edit[g].asset # NoImage => edit[g].asset \in Assets)
        BY <1>1, <1>5, <3>2 DEF Edit, Image
      <4>2. Open(edit[g]) => edit[g].asset # e.to
        <5> SUFFICES ASSUME Open(edit[g]), edit[g].asset = e.to PROVE FALSE
          OBVIOUS
        <5>1. edit[g].asset # NoImage /\ Unseen(edit[g].asset)
          BY <1>1 DEF Open
        <5>2. e.to # image[e.cell]
          BY <1>2, <5>1 DEF Unseen, Referenced
        <5>3. e.asset = edit[g].asset
          BY <1>2, <5>1, <5>2
        <5> QED
          BY <1>1, <1>7, <3>2, <5>1, <5>3
      <4>3. Open(edit[g]) => Unseen(edit[g].asset)'
        BY <1>1, <1>6, <4>1, <4>2 DEF Open
      <4>4. Open(edit[g]) /\ edit[g].asset \notin doubted => Clear(edit[g].asset)'
        <5> SUFFICES ASSUME Open(edit[g]), edit[g].asset \notin doubted
                     PROVE  Clear(edit[g].asset)'
          OBVIOUS
        <5>1. Clear(edit[g].asset) /\ edit[g].asset # e.prev /\ edit[g].asset \in Assets
          BY <1>1, <1>7, <4>1 DEF Unseen, Open
        <5> QED
          BY <1>3, <4>1, <5>1 DEF Clear
      <4>5. Doubt(edit[g]) /\ edit[g].pc = "idle" /\ edit[g].asset # NoImage =>
              Recorded(edit[g].asset)'
        BY <1>1, <1>3, <4>1 DEF Recorded
      <4> QED
        BY <1>1, <4>1, <4>3, <4>4, <4>5
    <3> QED
      BY <3>1, <3>2
  <2> QED
    BY <2>1, <2>2, NextUploads
<1>15. UnusedAreUnknown'
  <2> SUFFICES ASSUME NEW a \in Assets, cloud[a] = "unused"
               PROVE  /\ ~Referenced(a)' /\ queue'[a].state = "absent" /\ a \notin doubted
                      /\ \A w \in Cleaners : \A j \in cleaner[w].batch : j.asset # a
                      /\ \A g \in Editors : edit'[g].prev # a
    BY DEF UnusedAreUnknown
  <2>1. /\ Unseen(a) /\ queue[a].state = "absent" /\ a \notin doubted
        /\ \A w \in Cleaners : \A j \in cleaner[w].batch : j.asset # a
    BY DEF HomeInv, UnusedAreUnknown, Unseen
  <2>2. a # e.asset
    BY <1>1, <1>7
  <2>3. ~Referenced(a)'
    BY <1>6, <1>7, <2>1, <2>2 DEF Unseen
  <2>4. queue'[a].state = "absent"
    BY <1>3, <1>7, <2>1 DEF Unseen
  <2>5. \A g \in Editors : edit'[g].prev # a
    BY <1>5, <1>7, <2>1 DEF Unseen
  <2> QED
    BY <2>1, <2>3, <2>4, <2>5
<1>16. ClaimsAreFree'
  <2>1. ASSUME NEW c \in Cells, NEW d \in Cells, c # d, image'[c] = image'[d]
        PROVE  image'[d] \in {NoImage, Legacy}
    <3>1. CASE c # e.cell /\ d # e.cell
      BY <1>3, <2>1, <3>1 DEF HomeInv, ClaimsAreFree
    <3>2. ASSUME NEW q \in Cells \ {e.cell}, image[q] = e.to
          PROVE  e.to \in {NoImage, Legacy}
      <4>1. CASE e.to = image[e.cell]
        BY <1>2, <3>2, <4>1 DEF HomeInv, ClaimsAreFree
      <4>2. CASE e.to = e.asset /\ Open(e)
        BY <1>1, <1>7, <3>2, <4>2 DEF Unseen, Referenced
      <4> QED
        BY <1>2, <4>1, <4>2
    <3> QED
      BY <1>3, <2>1, <3>1, <3>2
  <2>2. ASSUME NEW w \in Cleaners, NEW j \in cleaner[w].batch, Referenced(j.asset)'
        PROVE  j.asset \in doubted
    <3>1. j.asset # NoImage
      BY <1>1, <1>7 DEF Work, Claim
    <3>2. CASE Referenced(j.asset)
      BY <3>2 DEF HomeInv, ClaimsAreFree
    <3>3. CASE j.asset = e.asset /\ Open(e)
      BY <1>1, <1>7, <3>3 DEF Clear
    <3> QED
      BY <1>6, <2>2, <3>1, <3>2, <3>3
  <2> QED
    BY <2>1, <2>2 DEF HomeInv, ClaimsAreFree
<1> QED
  BY <1>8, <1>9, <1>10, <1>11, <1>12, <1>13, <1>14, <1>15, <1>16 DEF HomeInv

\* An uploaded image is handed to the queue.
LEMMA EnqueueKept ==
  ASSUME HomeInv, NEW h \in Editors, EnqueueCleanup(h) PROVE HomeInv'
<1> DEFINE e == edit[h]
           a == e.asset
           r == IF Doubt(e) THEN [e EXCEPT !.pc = "idle"] ELSE NoEdit
<1>1. /\ image \in [Cells -> Image] /\ edit \in [Editors -> Edit]
      /\ cleaner \in [Cleaners -> Work] /\ queue \in [Assets -> Entry]
      /\ \A g \in Editors : Sound(edit[g])
      /\ \A f, g \in Editors : edit[f].asset = edit[g].asset => f = g \/ edit[g].asset = NoImage
      /\ \A g \in Editors :
           /\ edit[g].asset # NoImage => cloud[edit[g].asset] # "unused"
           /\ Open(edit[g]) =>
                /\ Unseen(edit[g].asset)
                /\ edit[g].asset \notin doubted => Clear(edit[g].asset)
           /\ Doubt(edit[g]) /\ edit[g].pc = "idle" /\ edit[g].asset # NoImage =>
                Recorded(edit[g].asset)
  BY HomeFacts
<1>2. /\ e.pc = "enqueue" /\ e \in Edit /\ Sound(e)
      /\ NoImage \notin Assets \union Slots \union Orders
      /\ queue' = Enqueue(a, References)
      /\ doubted' = doubted \union (IF Doubt(e) THEN {a} ELSE {})
      /\ edit' = [edit EXCEPT ![h] = r]
      /\ UNCHANGED <<image, rows, active, strip, cloud, cleaner, leaked, raced, slips>>
  BY <1>1, HomeAssumption DEF EnqueueCleanup, InDoubt, Doubt
<1>3. a \in Assets
  <2>1. a # NoImage
    BY <1>2 DEF Sound
  <2> QED
    BY <1>2, <2>1 DEF Edit, Image
<1>4. /\ r \in Edit /\ r.asset \in {a, NoImage}
      /\ r.to \in {e.to, NoImage} /\ r.prev \in {e.prev, NoImage}
      /\ Doubt(e) => /\ r.asset = a /\ r.to = e.to /\ r.cell = e.cell /\ r.act = e.act
                     /\ r.prev = e.prev /\ r.enq = e.enq /\ r.pc = "idle" /\ r.holds
      /\ ~Doubt(e) => r = NoEdit /\ r.asset = NoImage /\ ~r.holds
  <2>1. CASE Doubt(e)
    BY <1>2, <2>1 DEF Edit, Doubt
  <2>2. CASE ~Doubt(e)
    BY <2>2, NoEditTyped DEF NoEdit
  <2> QED
    BY <2>1, <2>2
<1>5. e.to # NoImage => Doubt(e)
  BY <1>2 DEF Sound, Comm
<1>6. Open(e) <=> Doubt(e)
  BY <1>2, <1>3, HomeAssumption DEF Open, Doubt
<1>7. /\ queue' \in [Assets -> Entry]
      /\ \A b \in Assets : b # a => queue'[b] = queue[b]
      /\ \A b \in Assets : queue[b].state # "absent" => queue'[b].state # "absent"
      /\ Referenced(a) \/ queue'[a].state # "absent"
  <2>1. CASE a \in References \/ queue[a].state # "absent"
    BY <1>1, <1>2, <2>1 DEF Enqueue, References, Referenced
  <2>2. CASE ~(a \in References \/ queue[a].state # "absent")
    <3> DEFINE n == [state |-> "due", id |-> queue[a].id + 1]
    <3>1. queue' = [queue EXCEPT ![a] = n]
      BY <1>2, <2>2 DEF Enqueue
    <3>2. n \in Entry /\ n.state = "due"
      BY <1>1, <1>3 DEF Entry
    <3> HIDE DEF n
    <3> QED
      BY <1>1, <1>3, <3>1, <3>2
  <2> QED
    BY <2>1, <2>2
<1> HIDE DEF r
<1>8. edit'[h] = r /\ \A g \in Editors : g # h => edit'[g] = edit[g]
  BY <1>1, <1>2
<1>9. HomeTypeOK'
  <2>1. edit' \in [Editors -> Edit] /\ doubted' \subseteq Assets
    BY <1>1, <1>2, <1>3, <1>4, HomeTypes DEF HomeInv
  <2> QED
    BY <1>2, <1>7, <2>1, HomeTypes DEF HomeInv, HomeTypeOK, Image, Edit, Work
<1> HIDE DEF a
<1>10. ReferencesAreAlive' /\ PublicSectionsHaveImages'
  BY <1>2 DEF HomeInv, ReferencesAreAlive, PublicSectionsHaveImages, PublicSections
<1>11. OrphansHaveCause'
  <2> SUFFICES ASSUME NEW b \in Assets, cloud[b] = "stored", ~Owned(b)'
               PROVE  b \in leaked \union raced \union {Legacy}
    BY <1>2 DEF OrphansHaveCause
  <2>1. /\ ~Referenced(b) /\ queue'[b].state = "absent"
        /\ \A g \in Editors : edit'[g].asset # b /\ edit'[g].to # b
    BY <1>2 DEF Owned, Referenced
  <2>2. b # a /\ queue[b].state = "absent"
    BY <1>7, <2>1
  <2>3. \A g \in Editors : edit[g].asset # b /\ edit[g].to # b
    BY <1>2, <1>4, <1>5, <1>8, <2>1, <2>2 DEF a
  <2>4. ~Owned(b)
    BY <2>1, <2>2, <2>3 DEF Owned
  <2> QED
    BY <2>4 DEF HomeInv, OrphansHaveCause
<1>12. RequestsAreSound'
  <2>1. ASSUME NEW g \in Editors PROVE Sound(edit[g])'
    <3>1. CASE g # h
      <4>1. edit'[g] = edit[g] /\ Sound(edit[g]) /\ image' = image
        BY <1>1, <1>2, <1>8, <3>1
      <4> QED
        BY ONLY <4>1 DEF Sound, Comm, Doubt
    <3>2. CASE g = h /\ ~Doubt(e)
      <4>1. edit'[g] = NoEdit
        BY <1>4, <1>8, <3>2
      <4>2. NoImage \notin Slots \union Orders
        BY HomeAssumption
      <4> QED
        BY ONLY <4>1, <4>2 DEF Sound, Comm, Doubt, NoEdit
    <3>3. CASE g = h /\ Doubt(e)
      <4>1. /\ edit'[g] = r /\ Sound(e) /\ image' = image /\ e.pc = "enqueue" /\ e.holds
            /\ r.asset = e.asset /\ r.to = e.to /\ r.cell = e.cell /\ r.act = e.act
            /\ r.prev = e.prev /\ r.enq = e.enq /\ r.pc = "idle" /\ r.holds
        BY <1>1, <1>2, <1>4, <1>8, <3>3 DEF a, Doubt
      <4> QED
        BY ONLY <4>1 DEF Sound, Comm, Doubt
    <3> QED
      BY <3>1, <3>2, <3>3
  <2> QED
    BY <2>1, NextBySound
<1>13. SectionsAreLocked'
  <2>1. r.holds => e.holds /\ r.cell = e.cell
    BY <1>4 DEF Doubt
  <2> QED
    BY <1>8, <2>1 DEF HomeInv, SectionsAreLocked
<1>14. ASSUME NEW b, b # NoImage, Unseen(b) PROVE Unseen(b)'
  BY <1>2, <1>4, <1>8, <1>14 DEF Unseen, Referenced
<1>15. UploadsAreOwned'
  <2>1. ASSUME NEW f \in Editors, NEW g \in Editors, edit'[f].asset = edit'[g].asset
        PROVE  f = g \/ edit'[g].asset = NoImage
    BY <1>1, <1>4, <1>8, <2>1 DEF a
  <2>2. ASSUME NEW g \in Editors
        PROVE  /\ edit'[g].asset # NoImage => cloud'[edit'[g].asset] # "unused"
               /\ Open(edit'[g]) =>
                    /\ Unseen(edit[g].asset)'
                    /\ edit'[g].asset \notin doubted' => Clear(edit[g].asset)'
               /\ Doubt(edit'[g]) /\ edit'[g].pc = "idle" /\ edit'[g].asset # NoImage =>
                    Recorded(edit[g].asset)'
    <3>1. CASE g = h /\ ~Doubt(e)
      BY <1>4, <1>8, <3>1 DEF Open, Doubt
    <3>2. CASE g = h /\ Doubt(e)
      <4>1. edit'[g].asset = a /\ a \in doubted' /\ Unseen(a) /\ a # NoImage
        BY <1>1, <1>2, <1>3, <1>4, <1>6, <1>8, <3>2 DEF a
      <4>2. /\ \A c \in Cells : image'[c] # a
            /\ \A f \in Editors : edit'[f].prev # a
            /\ cloud'[a] # "unused" /\ queue'[a].state # "absent"
        BY <1>1, <1>2, <1>4, <1>7, <1>8, <3>2, <4>1 DEF a, Unseen, Referenced
      <4>3. Unseen(edit[g].asset)'
        BY ONLY <4>1, <4>2 DEF Unseen, Referenced
      <4>4. Recorded(edit[g].asset)'
        BY ONLY <4>1, <4>2 DEF Recorded
      <4> QED
        BY <4>1, <4>2, <4>3, <4>4
    <3>3. CASE g # h
      <4>1. /\ edit'[g] = edit[g]
            /\ edit[g].asset # NoImage => edit[g].asset \in Assets /\ edit[g].asset # a
        BY <1>1, <1>8, <3>3 DEF Edit, Image, a
      <4>2. Open(edit[g]) => Unseen(edit[g].asset)'
        BY <1>1, <1>14, <4>1 DEF Open
      <4>3. Open(edit[g]) /\ edit[g].asset \notin doubted' => Clear(edit[g].asset)'
        BY <1>1, <1>2, <1>7, <4>1 DEF Clear, Open
      <4>4. Doubt(edit[g]) /\ edit[g].pc = "idle" /\ edit[g].asset # NoImage =>
              Recorded(edit[g].asset)'
        BY <1>1, <1>2, <1>7, <4>1 DEF Recorded
      <4> QED
        BY <1>1, <1>2, <4>1, <4>2, <4>3, <4>4
    <3> QED
      BY <3>1, <3>2, <3>3
  <2> QED
    BY <2>1, <2>2, NextUploads
<1>16. UnusedAreUnknown'
  <2> SUFFICES ASSUME NEW b \in Assets, cloud[b] = "unused"
               PROVE  /\ ~Referenced(b)' /\ queue'[b].state = "absent" /\ b \notin doubted'
                      /\ \A w \in Cleaners : \A j \in cleaner[w].batch : j.asset # b
                      /\ \A g \in Editors : edit'[g].prev # b
    BY <1>2 DEF UnusedAreUnknown
  <2>1. /\ Unseen(b) /\ queue[b].state = "absent" /\ b \notin doubted
        /\ \A w \in Cleaners : \A j \in cleaner[w].batch : j.asset # b
    BY DEF HomeInv, UnusedAreUnknown, Unseen
  <2>2. b # a /\ b # NoImage
    BY <1>1, <1>2 DEF a
  <2>3. Unseen(b)'
    BY <1>14, <2>1, <2>2
  <2> QED
    BY <1>2, <1>7, <2>1, <2>2, <2>3 DEF Unseen
<1>17. ClaimsAreFree'
  BY <1>2 DEF HomeInv, ClaimsAreFree, Referenced
<1> QED
  BY <1>9, <1>10, <1>11, <1>12, <1>13, <1>15, <1>16, <1>17 DEF HomeInv

\* A media row moves to a free place.
LEMMA MoveKept ==
  ASSUME HomeInv, NEW o \in Orders, NEW p \in Orders, UpdateMedia(o, p) PROVE HomeInv'
<1>1. /\ image \in [Cells -> Image] /\ edit \in [Editors -> Edit]
      /\ \A g \in Editors : Sound(edit[g])
      /\ UNCHANGED <<rows, active, strip, queue, cloud, edit, cleaner, leaked, doubted,
                     raced, slips>>
  BY HomeFacts DEF UpdateMedia, history
<1>2. /\ image' = [image EXCEPT ![o] = NoImage, ![p] = image[o]]
      /\ image[o] # NoImage /\ image[p] = NoImage /\ o # p
  BY DEF UpdateMedia, UpdateHomeSectionMedia, LoadMedia
<1>3. /\ image' \in [Cells -> Image] /\ image'[o] = NoImage /\ image'[p] = image[o]
      /\ \A c \in Cells \ {o, p} : image'[c] = image[c]
      /\ \A s \in Slots : image'[s] = image[s]
  BY <1>1, <1>2, HomeAssumption DEF Cells
<1>4. \A c \in Cells : \E d \in Cells : image'[c] = image[d]
  <2>1. o \in Cells /\ p \in Cells /\ image'[o] = image[p]
    BY <1>2, <1>3 DEF Cells
  <2> QED
    BY <1>3, <2>1
<1>5. \A a \in Assets : Referenced(a)' <=> Referenced(a)
  BY <1>2, <1>3, HomeAssumption DEF Referenced, Cells
<1>6. HomeTypeOK'
  BY <1>1, <1>3, HomeTypes DEF HomeInv, HomeTypeOK, Image, Edit, Work
<1>7. ReferencesAreAlive'
  BY <1>1, <1>4 DEF HomeInv, ReferencesAreAlive
<1>8. OrphansHaveCause'
  BY <1>1, <1>5 DEF HomeInv, OrphansHaveCause, Owned
<1>9. PublicSectionsHaveImages' /\ SectionsAreLocked'
  BY <1>1, <1>3 DEF HomeInv, PublicSectionsHaveImages, PublicSections, SectionsAreLocked
<1>10. RequestsAreSound'
  <2>1. ASSUME NEW h \in Editors PROVE Sound(edit[h])'
    <3>1. /\ Sound(edit[h]) /\ edit' = edit
          /\ edit[h].cell \in Slots => image'[edit[h].cell] = image[edit[h].cell]
      BY <1>1, <1>3
    <3> QED
      BY ONLY <3>1 DEF Sound, Comm, Doubt
  <2> QED
    BY <2>1, NextBySound
<1>11. UploadsAreOwned'
  BY <1>1, <1>5 DEF HomeInv, UploadsAreOwned, Pending, InDoubt, HomeTypeOK
<1>12. UnusedAreUnknown'
  BY <1>1, <1>5 DEF HomeInv, UnusedAreUnknown
<1>13. ClaimsAreFree'
  <2>1. ASSUME NEW c \in Cells, NEW d \in Cells, image'[c] = image'[d], c # d
        PROVE  image'[c] \in {NoImage, Legacy}
    <3>1. o \in Cells /\ p \in Cells
      BY DEF Cells
    <3>2. CASE c = o \/ d = o
      BY <1>3, <2>1, <3>2
    <3>3. CASE c # o /\ d # o
      <4> DEFINE Was(q) == IF q = p THEN o ELSE q
      <4>1. image[Was(c)] = image[Was(d)] /\ Was(c) # Was(d) /\ image'[c] = image[Was(c)]
        BY <1>3, <2>1, <3>3
      <4>2. Was(c) \in Cells /\ Was(d) \in Cells
        BY <3>1
      <4> HIDE DEF Was
      <4> QED
        BY <4>1, <4>2 DEF HomeInv, ClaimsAreFree
    <3> QED
      BY <3>2, <3>3
  <2>2. ASSUME NEW w \in Cleaners, NEW j \in cleaner[w].batch, Referenced(j.asset)'
        PROVE  j.asset \in doubted
    <3>1. j.asset \in Assets
      BY HomeFacts DEF Work, Claim
    <3> QED
      BY <1>5, <2>2, <3>1 DEF HomeInv, ClaimsAreFree
  <2> QED
    BY <1>1, <2>1, <2>2 DEF HomeInv, ClaimsAreFree
<1> QED
  BY <1>6, <1>7, <1>8, <1>9, <1>10, <1>11, <1>12, <1>13 DEF HomeInv

\* QuietKept for a step of one request.
LEMMA EditKept ==
  ASSUME HomeInv, NEW h \in Editors, NEW r \in Edit,
         UNCHANGED <<image, rows, active, queue, cloud, cleaner, doubted, raced>>,
         strip' \in BOOLEAN, slips' \in 0..MaxSlips,
         leaked' \subseteq Assets, leaked \subseteq leaked',
         edit' = [edit EXCEPT ![h] = r], Follows(edit[h], r),
         r.holds => \A g \in Editors : g # h /\ edit[g].holds =>
                      edit[g].cell # r.cell \/ r.cell \in Orders
  PROVE  HomeInv'
<1>1. edit \in [Editors -> Edit] /\ cleaner \in [Cleaners -> Work]
  BY HomeFacts
<1>2. edit'[h] = r /\ \A g \in Editors : g # h => edit'[g] = edit[g]
  BY <1>1
<1>3. \A g \in Editors : Follows(edit[g], edit'[g])
  BY <1>2, FollowsItself
<1>4. \A f, g \in Editors : f # g /\ edit'[f].holds /\ edit'[g].holds =>
        edit'[f].cell # edit'[g].cell \/ edit'[g].cell \in Orders
  BY <1>2 DEF HomeInv, SectionsAreLocked
<1>5. edit' \in [Editors -> Edit] /\ cleaner' = cleaner
  BY <1>1
<1> QED
  BY <1>1, <1>3, <1>4, <1>5, QuietKept

\* A request begins, or is sent to the database or the provider.
LEMMA BeginningsKept ==
  ASSUME HomeInv, NEW h \in Editors,
         UpsertRequest(h) \/ CreateMediaRequest(h) \/ EnsureStrip(h)
  PROVE  HomeInv'
<1>1. /\ Sound(edit[h]) /\ edit[h] \in Edit /\ edit \in [Editors -> Edit]
      /\ strip \in BOOLEAN /\ slips \in 0..MaxSlips /\ leaked \subseteq Assets
  BY HomeFacts, HomeTypes DEF HomeInv
<1>2. ASSUME NEW c \in Cells, NEW b \in BOOLEAN, NEW pc \in {"upload", "lock"},
             edit[h].pc = "idle", ~edit[h].holds,
             edit' = [edit EXCEPT ![h] = [NoEdit EXCEPT !.pc = pc, !.cell = c, !.act = b]],
             UNCHANGED <<tables, cloud, cleaner, history>>,
             pc = "lock" => c \in Slots /\ (b => image[c] # NoImage)
      PROVE  HomeInv'
  <2> DEFINE r == [NoEdit EXCEPT !.pc = pc, !.cell = c, !.act = b]
  <2>1. /\ r \in Edit /\ r.pc = pc /\ r.cell = c /\ r.act = b /\ r.asset = NoImage
        /\ r.prev = NoImage /\ r.to = NoImage /\ ~r.enq /\ ~r.holds
    BY NoEditTyped DEF NoEdit, Edit
  <2>2. edit[h].asset = NoImage /\ edit[h].to = NoImage
    BY <1>1, <1>2 DEF Sound, Comm, Doubt
  <2>3. Sound(r)
    <3>1. c \in Cells /\ Slots \cap Orders = {}
      BY HomeAssumption
    <3> QED
      BY ONLY <1>2, <2>1, <3>1 DEF Sound, Comm, Doubt
  <2> HIDE DEF r
  <2>4. Follows(edit[h], r)
    BY <2>1, <2>2, <2>3 DEF Follows, Open
  <2> QED
    BY <1>1, <1>2, <2>1, <2>4, EditKept DEF r, tables, history
<1>3. CASE UpsertRequest(h)
  <2>1. PICK f \in SectionForm :
          /\ SectionAccepted(f)
          /\ edit' = [edit EXCEPT ![h] = [NoEdit EXCEPT !.pc = IF f.file THEN "upload" ELSE "lock",
                                                       !.cell = f.slot, !.act = f.act]]
    BY <1>3 DEF UpsertRequest
  <2> DEFINE pc == IF f.file THEN "upload" ELSE "lock"
  <2>2. /\ f.slot \in Slots /\ f.slot \in Cells /\ f.act \in BOOLEAN /\ pc \in {"upload", "lock"}
        /\ pc = "lock" => (f.act => image[f.slot] # NoImage)
    BY <2>1 DEF SectionForm, SectionAccepted, GetHomeSection, Cells
  <2>3. /\ edit[h].pc = "idle" /\ ~edit[h].holds /\ UNCHANGED <<tables, cloud, cleaner, history>>
        /\ edit' = [edit EXCEPT ![h] = [NoEdit EXCEPT !.pc = pc, !.cell = f.slot, !.act = f.act]]
    BY <1>3, <2>1 DEF UpsertRequest
  <2> HIDE DEF pc
  <2> QED
    BY <1>2, <2>2, <2>3
<1>4. CASE CreateMediaRequest(h)
  <2>1. PICK o \in Orders :
          edit' = [edit EXCEPT ![h] = [NoEdit EXCEPT !.pc = "upload", !.cell = o, !.act = strip]]
    BY <1>4 DEF CreateMediaRequest
  <2> QED
    BY <1>1, <1>2, <1>4, <2>1 DEF CreateMediaRequest, Cells
<1>5. CASE EnsureStrip(h)
  <2> DEFINE r == [edit[h] EXCEPT !.pc = "lock"]
  <2>1. /\ edit' = [edit EXCEPT ![h] = r] /\ strip' = TRUE /\ edit[h].pc = "ensure"
        /\ UNCHANGED <<image, rows, active, queue, cloud, cleaner, leaked, doubted, raced, slips>>
    BY <1>5 DEF EnsureStrip, history
  <2>2. /\ r \in Edit /\ r.pc = "lock" /\ r.cell = edit[h].cell /\ r.act = edit[h].act
        /\ r.asset = edit[h].asset /\ r.prev = edit[h].prev /\ r.to = edit[h].to
        /\ r.enq = edit[h].enq /\ r.holds = edit[h].holds
    BY <1>1 DEF Edit
  <2>3. Sound(r)
    BY ONLY <1>1, <2>1, <2>2 DEF Sound, Comm, Doubt
  <2> HIDE DEF r
  <2>4. Follows(edit[h], r)
    BY <2>1, <2>2, <2>3 DEF Follows, Open, Doubt
  <2>5. ~r.holds
    BY <2>2, <2>3 DEF Sound
  <2> QED
    BY <1>1, <2>1, <2>2, <2>4, <2>5, EditKept
<1> QED
  BY <1>3, <1>4, <1>5

\* A request takes its lock and applies its statements.
LEMMA WritesKept ==
  ASSUME HomeInv, NEW h \in Editors,
         LockRow(h) \/ ApplyUpsert(h) \/ ApplyInsert(h) \/ DeleteMediaRequest(h)
  PROVE  HomeInv'
<1>1. /\ Sound(edit[h]) /\ edit[h] \in Edit /\ edit \in [Editors -> Edit]
      /\ image \in [Cells -> Image] /\ rows \subseteq Slots
      /\ strip \in BOOLEAN /\ slips \in 0..MaxSlips /\ leaked \subseteq Assets
      /\ NoImage \notin Assets \union Slots \union Orders /\ Slots \cap Orders = {}
  BY HomeFacts, HomeTypes, HomeAssumption DEF HomeInv
<1>2. CASE LockRow(h)
  <2> DEFINE c == edit[h].cell
  <2>1. edit[h].pc = "lock" /\ UNCHANGED <<tables, cloud, cleaner, history>>
    BY <1>2 DEF LockRow
  <2>2. ~edit[h].holds /\ edit[h].prev = NoImage /\ edit[h].to = NoImage
    BY <1>1, <2>1 DEF Sound, Comm, Doubt
  <2>3. ASSUME NEW b \in BOOLEAN, NEW q \in Image, c \in Slots \/ b,
               b => ~Locked(c) \/ c \in Orders,
               q = IF b /\ c \in Slots THEN image[c] ELSE NoImage,
               edit' = [edit EXCEPT ![h] =
                          [edit[h] EXCEPT !.pc = "apply", !.holds = b, !.prev = q]],
               c \in Cells
        PROVE  HomeInv'
    <3> DEFINE r == [edit[h] EXCEPT !.pc = "apply", !.holds = b, !.prev = q]
    <3>1. /\ r \in Edit /\ r.pc = "apply" /\ r.cell = c /\ r.act = edit[h].act
          /\ r.asset = edit[h].asset /\ r.prev = q /\ r.to = edit[h].to
          /\ r.enq = edit[h].enq /\ r.holds = b
      BY <1>1 DEF Edit
    <3>2. Sound(r)
      <4>1. edit[h].enq = FALSE
        BY <1>1, <2>2 DEF Sound, Edit
      <4>2. c \in Slots => c \notin Orders
        BY <1>1
      <4> QED
        BY ONLY <1>1, <2>1, <2>2, <2>3, <3>1, <4>1, <4>2 DEF Sound, Comm, Doubt
    <3>3. q \in {NoImage} \union References
      BY <2>3 DEF References
    <3> HIDE DEF r
    <3>4. Follows(edit[h], r)
      BY <2>1, <3>1, <3>2, <3>3 DEF Follows, Open, Doubt
    <3>5. r.holds => \A g \in Editors : g # h /\ edit[g].holds =>
                       edit[g].cell # r.cell \/ r.cell \in Orders
      BY <2>3, <3>1 DEF Locked
    <3> QED
      BY <1>1, <2>1, <2>3, <3>1, <3>4, <3>5, EditKept DEF r, tables, history
  <2>4. CASE /\ c \in rows /\ ~Locked(c)
             /\ edit' = [edit EXCEPT ![h].pc = "apply", ![h].holds = TRUE, ![h].prev = image[c]]
    <3>1. c \in Slots /\ c \in Cells /\ image[c] \in Image
      BY <1>1, <2>4 DEF Cells
    <3>2. edit' = [edit EXCEPT ![h] = [edit[h] EXCEPT !.pc = "apply", !.holds = TRUE,
                                                      !.prev = image[c]]]
      BY <1>1, <2>4
    <3> QED
      BY <2>3, <2>4, <3>1, <3>2
  <2>5. CASE c \in Slots \ rows /\ edit' = [edit EXCEPT ![h].pc = "apply"]
    <3>1. c \in Slots /\ c \in Cells /\ NoImage \in Image
      BY <2>5 DEF Cells, Image
    <3>2. [edit[h] EXCEPT !.pc = "apply"]
            = [edit[h] EXCEPT !.pc = "apply", !.holds = FALSE, !.prev = NoImage]
      BY <1>1, <2>2 DEF Edit
    <3>3. edit' = [edit EXCEPT ![h] = [edit[h] EXCEPT !.pc = "apply", !.holds = FALSE,
                                                      !.prev = NoImage]]
      BY <1>1, <2>5, <3>2
    <3> QED
      BY <2>3, <3>1, <3>3
  <2>6. CASE /\ c \in Orders /\ strip /\ ~StripLocked
             /\ edit' = [edit EXCEPT ![h].pc = "apply", ![h].holds = TRUE]
    <3>1. c \notin Slots /\ c \in Cells /\ NoImage \in Image
      BY <1>1, <2>6 DEF Cells, Image
    <3>2. [edit[h] EXCEPT !.pc = "apply", !.holds = TRUE]
            = [edit[h] EXCEPT !.pc = "apply", !.holds = TRUE, !.prev = NoImage]
      BY <1>1, <2>2 DEF Edit
    <3>3. edit' = [edit EXCEPT ![h] = [edit[h] EXCEPT !.pc = "apply", !.holds = TRUE,
                                                      !.prev = NoImage]]
      BY <1>1, <2>6, <3>2
    <3> QED
      BY <2>3, <2>6, <3>1, <3>3
  <2> QED
    BY <1>2, <2>4, <2>5, <2>6 DEF LockRow
<1>3. CASE ApplyUpsert(h)
  <2> DEFINE c == edit[h].cell
             to == Upserted(edit[h])
             enq == /\ edit[h].prev \notin {NoImage, to}
                    /\ edit[h].prev \notin {image[d] : d \in Cells \ {c}}
             r == [edit[h] EXCEPT !.pc = "commit", !.holds = TRUE, !.to = to, !.enq = enq]
  <2>1. /\ edit[h].pc = "apply" /\ c \in Slots /\ c \in Cells /\ (edit[h].holds \/ ~Locked(c))
        /\ edit' = [edit EXCEPT ![h] = r] /\ UNCHANGED <<tables, cloud, cleaner, history>>
    BY <1>1, <1>3 DEF ApplyUpsert, Cells
  <2>2. to = IF edit[h].asset = NoImage THEN image[c] ELSE edit[h].asset
    BY DEF Upserted
  <2>3. to \in Image /\ enq \in BOOLEAN
    BY <1>1, <2>1, <2>2 DEF Edit
  <2>4. edit[h].prev = IF edit[h].holds THEN image[c] ELSE NoImage
    BY <1>1, <2>1 DEF Sound
  <2>5. enq \/ edit[h].prev \in {NoImage, to, Legacy}
    <3> SUFFICES ASSUME edit[h].prev # NoImage, ~enq, edit[h].prev # to
                 PROVE  edit[h].prev = Legacy
      OBVIOUS
    <3>1. PICK d \in Cells \ {c} : image[d] = image[c]
      BY <2>4
    <3> QED
      BY <2>1, <2>4, <3>1 DEF HomeInv, ClaimsAreFree
  <2>6. /\ r \in Edit /\ r.pc = "commit" /\ r.cell = c /\ r.act = edit[h].act
        /\ r.asset = edit[h].asset /\ r.prev = edit[h].prev /\ r.to = to
        /\ r.enq = enq /\ r.holds
    BY <1>1, <2>3 DEF Edit
  <2>7. (enq => edit[h].prev # NoImage)
    OBVIOUS
  <2> HIDE DEF enq, to
  <2>8. Sound(r)
    BY ONLY <1>1, <2>1, <2>2, <2>5, <2>6, <2>7 DEF Sound, Comm, Doubt
  <2> HIDE DEF r
  <2>9. edit[h].to = NoImage
    BY <1>1, <2>1 DEF Sound, Comm, Doubt
  <2>10. Follows(edit[h], r)
    BY <2>1, <2>6, <2>8, <2>9 DEF Follows, Open, Doubt
  <2>11. \A g \in Editors : g # h /\ edit[g].holds => edit[g].cell # r.cell \/ r.cell \in Orders
    BY <1>1, <2>1, <2>6 DEF Locked, HomeInv, SectionsAreLocked
  <2> QED
    BY <1>1, <2>1, <2>6, <2>10, <2>11, EditKept DEF tables, history
<1>4. CASE ApplyInsert(h)
  <2> DEFINE c == edit[h].cell
             r == [edit[h] EXCEPT !.pc = "commit", !.to = edit[h].asset]
  <2>1. /\ edit[h].pc = "apply" /\ c \in Orders /\ c \notin Slots /\ c \in Cells
        /\ edit' = [edit EXCEPT ![h] = r] /\ UNCHANGED <<tables, cloud, cleaner, history>>
    BY <1>1, <1>4 DEF ApplyInsert, Cells
  <2>2. edit[h].holds /\ edit[h].prev = NoImage /\ edit[h].to = NoImage
    BY <1>1, <2>1 DEF Sound, Comm, Doubt
  <2>3. /\ r \in Edit /\ r.pc = "commit" /\ r.cell = c /\ r.act = edit[h].act
        /\ r.asset = edit[h].asset /\ r.prev = NoImage /\ r.to = edit[h].asset
        /\ r.enq = edit[h].enq /\ r.holds
    BY <1>1, <2>2 DEF Edit
  <2>4. ~edit[h].enq
    BY <1>1, <2>2 DEF Sound
  <2>5. Sound(r)
    BY ONLY <1>1, <2>1, <2>3, <2>4 DEF Sound, Comm, Doubt
  <2> HIDE DEF r
  <2>6. Follows(edit[h], r)
    BY <2>1, <2>2, <2>3, <2>5 DEF Follows, Open, Doubt
  <2> QED
    BY <1>1, <2>1, <2>3, <2>6, EditKept DEF tables, history
<1>5. CASE DeleteMediaRequest(h)
  <2>1. PICK o \in LoadMedia : ~Locked(o) /\ edit' = [edit EXCEPT ![h] = DeleteHomeSectionMedia(o)]
    BY <1>5 DEF DeleteMediaRequest
  <2> DEFINE enq == image[o] \notin {image[d] : d \in Cells \ {o}}
             r == [NoEdit EXCEPT !.pc = "commit", !.cell = o, !.prev = image[o], !.holds = TRUE,
                                 !.enq = enq]
  <2>2. /\ o \in Orders /\ o \notin Slots /\ o \in Cells /\ image[o] \in Image
        /\ image[o] # NoImage /\ edit[h].pc = "idle" /\ ~edit[h].holds
        /\ edit' = [edit EXCEPT ![h] = r] /\ UNCHANGED <<tables, cloud, cleaner, history>>
    BY <1>1, <1>5, <2>1 DEF DeleteMediaRequest, LoadMedia, DeleteHomeSectionMedia, Cells
  <2>3. enq \/ image[o] = Legacy
    <3> SUFFICES ASSUME ~enq PROVE image[o] = Legacy
      OBVIOUS
    <3>1. PICK d \in Cells \ {o} : image[d] = image[o]
      OBVIOUS
    <3> QED
      BY <2>2, <3>1 DEF HomeInv, ClaimsAreFree
  <2>4. /\ r \in Edit /\ r.pc = "commit" /\ r.cell = o /\ ~r.act
        /\ r.asset = NoImage /\ r.prev = image[o] /\ r.to = NoImage
        /\ r.enq = enq /\ r.holds
    BY <2>2, NoEditTyped DEF NoEdit, Edit
  <2> HIDE DEF enq
  <2>5. Sound(r)
    BY ONLY <2>2, <2>3, <2>4 DEF Sound, Comm, Doubt
  <2>6. edit[h].asset = NoImage /\ edit[h].to = NoImage /\ image[o] \in References
    BY <1>1, <2>2 DEF Sound, Comm, Doubt, References
  <2> HIDE DEF r
  <2>7. Follows(edit[h], r)
    BY <2>4, <2>5, <2>6 DEF Follows, Open, Doubt
  <2> QED
    BY <1>1, <2>2, <2>4, <2>7, EditKept DEF tables, history
<1> QED
  BY <1>2, <1>3, <1>4, <1>5

\* A request that has ended, or only hands its image on.
LEMMA EndedIsSound ==
  ASSUME NEW a \in Assets
  PROVE  /\ NoEdit \in Edit /\ Sound(NoEdit) /\ ~NoEdit.holds /\ ~Doubt(NoEdit) /\ ~Open(NoEdit)
         /\ NoEdit.asset = NoImage /\ NoEdit.to = NoImage /\ NoEdit.prev = NoImage
         /\ NoEdit.pc = "idle"
         /\ [NoEdit EXCEPT !.pc = "enqueue", !.asset = a] \in Edit
         /\ Sound([NoEdit EXCEPT !.pc = "enqueue", !.asset = a])
<1>1. NoImage \notin Assets \union Slots \union Orders
  BY HomeAssumption
<1>2. Sound(NoEdit)
  BY <1>1 DEF NoEdit, Sound, Comm, Doubt
<1> DEFINE r == [NoEdit EXCEPT !.pc = "enqueue", !.asset = a]
<1>3. /\ r \in Edit /\ r.pc = "enqueue" /\ r.cell = NoImage /\ ~r.act /\ r.asset = a
      /\ r.prev = NoImage /\ r.to = NoImage /\ ~r.enq /\ ~r.holds
  BY NoEditTyped DEF NoEdit, Edit, Image
<1>4. Sound(r)
  BY ONLY <1>1, <1>3, a \in Assets DEF Sound, Comm, Doubt
<1> QED
  BY <1>2, <1>3, <1>4, NoEditTyped DEF NoEdit, Doubt, Open

\* A request fails, or the outcome of its commit stays unknown.
LEMMA FailuresKept ==
  ASSUME HomeInv, NEW h \in Editors,
         WriteFails(h) \/ CommitUnanswered(h) \/ LateRollback(h) \/ EnqueueCleanupFails(h)
  PROVE  HomeInv'
<1> DEFINE e == edit[h]
<1>1. /\ Sound(e) /\ e \in Edit /\ edit \in [Editors -> Edit]
      /\ e.asset # NoImage => e.asset \in Assets
      /\ e.pc = "idle" /\ Doubt(e) /\ e.asset # NoImage => Recorded(e.asset)
      /\ image \in [Cells -> Image] /\ NoImage \notin Assets \union Slots \union Orders
      /\ strip \in BOOLEAN /\ slips \in 0..MaxSlips /\ leaked \subseteq Assets
  BY HomeFacts, HomeTypes, HomeAssumption DEF HomeInv, Edit, Image
<1>2. Legacy \in Assets
  BY HomeAssumption
\* The image a commit would have written is there, or the request's own.
<1>3. e.to \in {NoImage, e.asset} \union References
  <2>1. CASE Comm(e)
    BY CommitWrites, <2>1 DEF References
  <2>2. CASE ~Comm(e)
    BY <1>1, <2>2 DEF Sound
  <2> QED
    BY <2>1, <2>2
<1>4. \A a \in References : Referenced(a)
  BY DEF References, Referenced
<1>5. CASE WriteFails(h)
  <2> DEFINE r == [NoEdit EXCEPT !.pc = AfterError(e), !.asset = e.asset]
  <2>1. /\ e.pc \notin {"idle", "enqueue"} /\ edit' = [edit EXCEPT ![h] = r]
        /\ UNCHANGED <<tables, cloud, cleaner, history>>
    BY <1>5 DEF WriteFails
  <2>2. /\ r.pc = AfterError(e) /\ r.cell = NoImage /\ ~r.act /\ r.asset = e.asset
        /\ r.prev = NoImage /\ r.to = NoImage /\ ~r.enq /\ ~r.holds
    BY DEF NoEdit
  <2>3. AfterError(e) = IF e.asset = NoImage THEN "idle" ELSE "enqueue"
    BY DEF AfterError
  <2>4. r \in Edit
    <3>1. AfterError(e) \in {"idle", "enqueue"} /\ e.asset \in Image
      BY <1>1, <2>3 DEF Edit
    <3> QED
      BY <3>1, NoEditTyped DEF NoEdit, Edit
  <2>5. Sound(r)
    BY ONLY <1>1, <2>2, <2>3 DEF Sound, Comm, Doubt
  <2> HIDE DEF r
  <2>6. ~Open(r) /\ ~Doubt(r)
    BY <2>2, <2>3 DEF Open, Doubt
  <2>7. Follows(e, r)
    BY <1>3, <1>4, <2>2, <2>5, <2>6 DEF Follows
  <2> QED
    BY <1>1, <2>1, <2>2, <2>4, <2>7, EditKept DEF tables, history
<1>6. CASE CommitUnanswered(h)
  <2> DEFINE r == [e EXCEPT !.pc = AfterError(e)]
  <2>1. /\ e.pc = "commit" /\ edit' = [edit EXCEPT ![h] = r] /\ slips' \in 0..MaxSlips
        /\ UNCHANGED <<tables, cloud, cleaner, leaked, doubted, raced>>
    BY <1>1, <1>6, HomeAssumption DEF CommitUnanswered, Slip
  <2>2. AfterError(e) = IF e.asset = NoImage THEN "idle" ELSE "enqueue"
    BY DEF AfterError
  <2>3. /\ r \in Edit /\ r.pc = AfterError(e) /\ r.cell = e.cell /\ r.act = e.act
        /\ r.asset = e.asset /\ r.prev = e.prev /\ r.to = e.to /\ r.enq = e.enq /\ r.holds = e.holds
    BY <1>1, <2>2 DEF Edit
  <2>4. Sound(r) /\ e.holds
    BY ONLY <1>1, <2>1, <2>2, <2>3 DEF Sound, Comm, Doubt
  <2> HIDE DEF r
  <2>5. Follows(e, r)
    BY <2>1, <2>2, <2>3, <2>4 DEF Follows, Open, Doubt
  <2>6. \A g \in Editors : g # h /\ edit[g].holds => edit[g].cell # r.cell \/ r.cell \in Orders
    BY <2>3, <2>4 DEF HomeInv, SectionsAreLocked
  <2> QED
    BY <1>1, <2>1, <2>3, <2>5, <2>6, EditKept DEF tables
<1>7. CASE LateRollback(h)
  <2> DEFINE r == Resolved(e)
  <2>1. /\ Doubt(e) /\ e.pc \in {"idle", "enqueue"} /\ edit' = [edit EXCEPT ![h] = r]
        /\ UNCHANGED <<tables, cloud, cleaner, history>>
    BY <1>1, <1>7 DEF LateRollback, InDoubt, Doubt
  <2>2. CASE e.pc = "idle"
    <3>1. /\ r = NoEdit /\ r \in Edit /\ Sound(r) /\ ~r.holds /\ ~Doubt(r) /\ ~Open(r)
          /\ r.asset = NoImage /\ r.to = NoImage /\ r.prev = NoImage
      BY <1>2, <2>2, EndedIsSound DEF Resolved
    <3> HIDE DEF r
    <3>2. Follows(e, r)
      BY <1>1, <1>3, <1>4, <2>1, <2>2, <3>1 DEF Follows, Recorded, history
    <3> QED
      BY <1>1, <2>1, <3>1, <3>2, EditKept DEF tables, history
  <2>3. CASE e.pc = "enqueue"
    <3>1. e.asset # NoImage
      BY <1>1, <2>3 DEF Sound
    <3>2. /\ r = [NoEdit EXCEPT !.pc = "enqueue", !.asset = e.asset] /\ r \in Edit /\ Sound(r)
      BY <1>1, <2>3, <3>1, EndedIsSound DEF Resolved
    <3>3. r.pc = "enqueue" /\ r.asset = e.asset /\ r.prev = NoImage /\ ~r.holds
      BY <3>2 DEF NoEdit
    <3> HIDE DEF r
    <3>4. Follows(e, r)
      BY <1>1, <1>3, <1>4, <3>2, <3>3 DEF Follows, Open, Doubt
    <3> QED
      BY <1>1, <2>1, <3>2, <3>3, <3>4, EditKept DEF tables, history
  <2> QED
    BY <2>1, <2>2, <2>3
<1>8. CASE EnqueueCleanupFails(h)
  <2> DEFINE r == IF Doubt(e) THEN [e EXCEPT !.pc = "idle"] ELSE NoEdit
  <2>1. /\ e.pc = "enqueue" /\ edit' = [edit EXCEPT ![h] = r] /\ slips' \in 0..MaxSlips
        /\ leaked' = leaked \union {e.asset} /\ UNCHANGED <<tables, cloud, cleaner, doubted, raced>>
    BY <1>1, <1>8, HomeAssumption DEF EnqueueCleanupFails, InDoubt, Doubt, Slip
  <2>2. e.asset \in Assets
    BY <1>1, <2>1 DEF Sound
  <2>3. CASE Doubt(e)
    <3>1. /\ r \in Edit /\ r.pc = "idle" /\ r.cell = e.cell /\ r.act = e.act /\ r.asset = e.asset
          /\ r.prev = e.prev /\ r.to = e.to /\ r.enq = e.enq /\ r.holds = e.holds /\ e.holds
      BY <1>1, <2>3 DEF Edit, Doubt
    <3>2. Sound(r)
      BY ONLY <1>1, <2>1, <3>1 DEF Sound, Comm, Doubt
    <3> HIDE DEF r
    <3>3. Follows(e, r)
      BY <2>1, <3>1, <3>2 DEF Follows, Open
    <3>4. \A g \in Editors : g # h /\ edit[g].holds => edit[g].cell # r.cell \/ r.cell \in Orders
      BY <3>1 DEF HomeInv, SectionsAreLocked
    <3> QED
      BY <1>1, <2>1, <2>2, <3>1, <3>3, <3>4, EditKept DEF tables
  <2>4. CASE ~Doubt(e)
    <3>1. /\ r \in Edit /\ Sound(r) /\ ~r.holds /\ ~Doubt(r) /\ ~Open(r)
          /\ r.asset = NoImage /\ r.to = NoImage /\ r.prev = NoImage
      BY <1>2, <2>4, EndedIsSound
    <3> HIDE DEF r
    <3>2. Follows(e, r)
      BY <1>3, <1>4, <2>1, <3>1 DEF Follows
    <3> QED
      BY <1>1, <2>1, <2>2, <3>1, <3>2, EditKept DEF tables
  <2> QED
    BY <2>3, <2>4
<1> QED
  BY <1>5, <1>6, <1>7, <1>8

\* An upload, and one that fails.
LEMMA UploadKept ==
  ASSUME HomeInv, NEW h \in Editors, UploadHomeSection(h) \/ UploadFails(h) PROVE HomeInv'
<1> DEFINE e == edit[h]
<1>1. /\ Sound(e) /\ e \in Edit /\ edit \in [Editors -> Edit] /\ e.pc = "upload"
      /\ strip \in BOOLEAN /\ slips \in 0..MaxSlips /\ leaked \subseteq Assets
      /\ NoImage \notin Assets /\ Legacy \in Assets
  BY HomeFacts, HomeTypes, HomeAssumption DEF HomeInv, UploadHomeSection, UploadFails
<1>2. e.asset = NoImage /\ e.to = NoImage /\ e.prev = NoImage /\ ~e.holds
  BY <1>1 DEF Sound, Comm, Doubt
<1>3. CASE UploadHomeSection(h)
  <2> DEFINE pc == IF e.cell \in Orders /\ ~e.act THEN "ensure" ELSE "lock"
  <2>1. PICK a \in Assets :
          /\ cloud[a] = "unused" /\ cloud' = [cloud EXCEPT ![a] = "stored"]
          /\ edit' = [edit EXCEPT ![h].asset = a, ![h].pc = pc]
    BY <1>3 DEF UploadHomeSection
  <2> DEFINE r == [e EXCEPT !.asset = a, !.pc = pc]
  <2>2. edit' = [edit EXCEPT ![h] = r]
    BY <1>1, <2>1
  <2>3. pc \in {"ensure", "lock"}
    OBVIOUS
  <2>4. /\ r \in Edit /\ r.pc = pc /\ r.asset = a /\ r.cell = e.cell /\ r.act = e.act
        /\ r.prev = e.prev /\ r.to = e.to /\ r.enq = e.enq /\ r.holds = e.holds
    BY <1>1, <2>3 DEF Edit, Image
  <2> HIDE DEF pc
  <2>5. Sound(r)
    BY ONLY <1>1, <1>2, <2>3, <2>4, a \in Assets DEF Sound, Comm, Doubt
  <2> HIDE DEF r
  <2>6. r.prev = NoImage /\ ~r.holds /\ r.pc # "enqueue"
    BY <1>2, <2>3, <2>4
  <2>7. UNCHANGED <<tables, cleaner, leaked, doubted, raced, slips>>
    BY <1>3 DEF UploadHomeSection, history
  <2> QED
    BY <1>1, <1>2, <2>1, <2>2, <2>4, <2>5, <2>6, <2>7, NewImageKept
<1>4. CASE UploadFails(h)
  <2>1. /\ NoEdit \in Edit /\ Sound(NoEdit) /\ ~NoEdit.holds /\ ~Doubt(NoEdit) /\ ~Open(NoEdit)
        /\ NoEdit.asset = NoImage /\ NoEdit.to = NoImage /\ NoEdit.prev = NoImage
        /\ NoEdit.pc = "idle"
    BY <1>1, EndedIsSound
  <2>2. edit' = [edit EXCEPT ![h] = NoEdit] /\ UNCHANGED <<tables, cleaner>>
    BY <1>4 DEF UploadFails
  <2>3. CASE UNCHANGED <<cloud, history>>
    <3>1. Follows(e, NoEdit)
      BY <1>2, <2>1 DEF Follows
    <3> QED
      BY <1>1, <2>1, <2>2, <2>3, <3>1, EditKept DEF tables, history
  <2>4. ASSUME NEW a \in Assets, Slip, cloud[a] = "unused", cloud' = [cloud EXCEPT ![a] = "stored"],
               leaked' = leaked \union {a}, UNCHANGED <<doubted, raced>>
        PROVE  HomeInv'
    <3>1. slips' \in 0..MaxSlips
      BY <1>1, <2>4, HomeAssumption DEF Slip
    <3>2. leaked' \subseteq Assets /\ leaked \subseteq leaked' /\ a \in leaked'
      BY <1>1, <2>4
    <3> QED
      BY <1>1, <1>2, <2>1, <2>2, <2>4, <3>1, <3>2, NewImageKept
  <2> QED
    BY <1>4, <2>3, <2>4 DEF UploadFails
<1> QED
  BY <1>3, <1>4

\* Claims, destructions and completions of a worker, and leases that end.
LEMMA CleanerKept ==
  ASSUME HomeInv, NEW w \in Cleaners, CleanerStep(w) PROVE HomeInv'
<1>1. /\ cleaner \in [Cleaners -> Work] /\ queue \in [Assets -> Entry]
      /\ cloud \in [Assets -> {"unused", "stored", "destroyed"}] /\ slips \in 0..MaxSlips
  BY HomeFacts, HomeTypes DEF HomeInv
<1>2. ASSUME NEW S \in SUBSET Assets, ClaimBatch(S)
      PROVE  /\ \A a \in S : queue[a].state = "due" /\ ~Referenced(a)
             /\ queue' \in [Assets -> Entry]
             /\ \A a \in Assets : \/ queue'[a].state = queue[a].state
                                  \/ queue'[a].state # "absent" /\ queue[a].state # "absent"
  <2>1. /\ \A a \in S : queue[a].state = "due" /\ ~Referenced(a)
        /\ queue' = [a \in Assets |-> IF a \in S THEN [queue[a] EXCEPT !.state = "leased"]
                                      ELSE queue[a]]
    BY <1>2 DEF ClaimBatch
  <2>2. \A a \in Assets : [queue[a] EXCEPT !.state = "leased"] \in Entry
    BY <1>1 DEF Entry
  <2>3. \A a \in Assets : queue'[a].state = "leased" \/ queue'[a] = queue[a]
    BY <1>1, <2>1 DEF Entry
  <2>4. queue' \in [Assets -> Entry]
    BY <1>1, <2>1, <2>2
  <2>5. \A a \in Assets : a \notin S => queue'[a] = queue[a]
    BY <2>1
  <2> QED
    BY <2>1, <2>3, <2>4, <2>5
<1>3. ASSUME NEW S \in SUBSET Assets, ClaimCleanup(w, S) PROVE HomeInv'
  <2> DEFINE claimed == {[asset |-> a, id |-> queue[a].id] : a \in S}
             n == [cleaner[w] EXCEPT !.batch = claimed]
  <2>1. /\ ClaimBatch(S) /\ cleaner' = [cleaner EXCEPT ![w] = n]
        /\ cleaner[w].done = {}
        /\ UNCHANGED <<image, rows, active, strip, cloud, edit, history>>
    BY <1>3 DEF ClaimCleanup
  <2>2. \A j \in claimed : j \in Claim /\ j.asset \in S
    BY <1>1 DEF Claim, Entry
  <2>3. n \in Work /\ n.batch = claimed /\ n.done = cleaner[w].done
    BY <1>1, <2>2 DEF Work
  <2> HIDE DEF claimed, n
  <2>4. cleaner' \in [Cleaners -> Work]
    BY <1>1, <2>1, <2>3
  <2>5. ASSUME NEW v \in Cleaners
        PROVE  /\ \A j \in cleaner'[v].batch :
                    j \in cleaner[v].batch
                    \/ (~Referenced(j.asset) /\ queue[j.asset].state # "absent")
               /\ \A j \in cleaner'[v].done : j \in cleaner[v].done
    <3>1. CASE v = w
      <4>1. cleaner'[v] = n
        BY <1>1, <2>1, <3>1
      <4> QED
        BY <1>2, <2>1, <2>2, <2>3, <3>1, <4>1
    <3>2. CASE v # w
      BY <1>1, <2>1, <3>2
    <3> QED
      BY <3>1, <3>2
  <2> QED
    BY <1>1, <1>2, <2>1, <2>4, <2>5, WorkerKept DEF history
<1>4. ASSUME NEW S \in SUBSET Assets, ClaimUnanswered(w, S) PROVE HomeInv'
  <2>1. /\ ClaimBatch(S) /\ slips' \in 0..MaxSlips
        /\ UNCHANGED <<image, rows, active, strip, cloud, edit, cleaner, leaked, doubted, raced>>
    BY <1>1, <1>4, HomeAssumption DEF ClaimUnanswered, Slip
  <2> QED
    BY <1>1, <1>2, <2>1, WorkerKept
<1>5. ASSUME NEW j \in cleaner[w].batch, Destroy(w, j) \/ DestroyFails(w, j) PROVE HomeInv'
  <2>1. j \in Claim /\ j.asset \in Assets /\ cleaner[w] \in Work
    BY <1>1 DEF Work, Claim
  <2>2. /\ UNCHANGED <<tables, edit, history>>
        /\ cloud' = cloud \/ cloud' = [cloud EXCEPT ![j.asset] = "destroyed"]
    BY <1>5 DEF Destroy, DestroyFails
  <2>3. /\ cloud' \in [Assets -> {"unused", "stored", "destroyed"}]
        /\ \A a \in Assets : cloud'[a] = cloud[a] \/ (cloud'[a] = "destroyed" /\ a = j.asset)
    BY <1>1, <2>1, <2>2
  <2>4. PICK n \in Work : /\ cleaner' = [cleaner EXCEPT ![w] = n]
                          /\ n.batch = cleaner[w].batch \ {j}
                          /\ \/ n.done = cleaner[w].done
                             \/ n.done = {j} /\ cloud'[j.asset] = "destroyed"
    <3>1. CASE Destroy(w, j)
      <4> DEFINE n == [batch |-> cleaner[w].batch \ {j}, done |-> {j}]
      <4>1. cleaner' = [cleaner EXCEPT ![w] = n] /\ cloud'[j.asset] = "destroyed"
        BY <1>1, <2>1, <3>1 DEF Destroy
      <4>2. n \in Work
        BY <2>1 DEF Work
      <4> QED
        BY <4>1, <4>2
    <3>2. CASE DestroyFails(w, j)
      <4> DEFINE n == [cleaner[w] EXCEPT !.batch = @ \ {j}]
      <4>1. cleaner' = [cleaner EXCEPT ![w] = n]
        BY <1>1, <3>2 DEF DestroyFails
      <4>2. n \in Work /\ n.batch = cleaner[w].batch \ {j} /\ n.done = cleaner[w].done
        BY <2>1 DEF Work
      <4> QED
        BY <4>1, <4>2
    <3> QED
      BY <1>5, <3>1, <3>2
  <2>5. cleaner' \in [Cleaners -> Work]
    BY <1>1, <2>4
  <2>6. ASSUME NEW v \in Cleaners
        PROVE  /\ \A i \in cleaner'[v].batch : i \in cleaner[v].batch
               /\ \A i \in cleaner'[v].done :
                    i \in cleaner[v].done \/ cloud'[i.asset] = "destroyed"
    <3>1. CASE v = w
      BY <1>1, <2>4, <3>1
    <3>2. CASE v # w
      BY <1>1, <2>4, <3>2
    <3> QED
      BY <3>1, <3>2
  <2>7. \A a \in Assets :
          \/ cloud'[a] = cloud[a]
          \/ /\ cloud'[a] = "destroyed"
             /\ \E v \in Cleaners : \E i \in cleaner[v].batch : i.asset = a
    BY <2>3
  <2> QED
    BY <1>1, <2>2, <2>3, <2>5, <2>6, <2>7, WorkerKept DEF tables, history
<1>6. ASSUME NEW j \in cleaner[w].done, CompleteCleanup(w, j) PROVE HomeInv'
  <2>1. /\ j.asset \in Assets /\ cleaner[w] \in Work /\ cloud[j.asset] = "destroyed"
    BY <1>1 DEF Work, Claim, HomeInv, ClaimsAreFree
  <2> DEFINE n == [cleaner[w] EXCEPT !.done = {}]
  <2>2. /\ cleaner' = [cleaner EXCEPT ![w] = n]
        /\ UNCHANGED <<image, rows, active, strip, cloud, edit, history>>
    BY <1>1, <1>6 DEF CompleteCleanup
  <2>3. n \in Work /\ n.batch = cleaner[w].batch /\ n.done = {}
    BY <2>1 DEF Work
  <2> HIDE DEF n
  <2>4. /\ cleaner' \in [Cleaners -> Work]
        /\ \A v \in Cleaners : /\ cleaner'[v].batch \subseteq cleaner[v].batch
                               /\ cleaner'[v].done \subseteq cleaner[v].done
    BY <1>1, <2>2, <2>3
  <2>5. PICK s \in {queue[j.asset].state, "absent"} :
          queue' = queue \/ queue' = [queue EXCEPT ![j.asset] = [queue[j.asset] EXCEPT !.state = s]]
    BY <1>6 DEF CompleteCleanup
  <2>6. [queue[j.asset] EXCEPT !.state = s] \in Entry
    BY <1>1, <2>1 DEF Entry
  <2>7. [queue[j.asset] EXCEPT !.state = s].state = s
    BY <1>1, <2>1 DEF Entry
  <2>8. /\ queue' \in [Assets -> Entry]
        /\ \A a \in Assets : \/ queue'[a].state = queue[a].state
                             \/ cloud[a] = "destroyed" /\ queue'[a].state = "absent"
    BY <1>1, <2>1, <2>5, <2>6, <2>7
  <2> QED
    BY <1>1, <2>2, <2>4, <2>8, WorkerKept DEF history
<1> QED
  BY <1>3, <1>4, <1>5, <1>6 DEF CleanerStep

\* A lease that ends only makes an entry due again.
LEMMA LeaseKept ==
  ASSUME HomeInv, NEW a \in Assets, LeaseExpires(a) PROVE HomeInv'
<1>1. /\ cleaner \in [Cleaners -> Work] /\ queue \in [Assets -> Entry]
      /\ cloud \in [Assets -> {"unused", "stored", "destroyed"}] /\ slips \in 0..MaxSlips
  BY HomeFacts, HomeTypes DEF HomeInv
<1> DEFINE n == [queue[a] EXCEPT !.state = "due"]
<1>2. /\ queue' = [queue EXCEPT ![a] = n] /\ queue[a].state = "leased"
      /\ UNCHANGED <<image, rows, active, strip, cloud, edit, cleaner, history>>
  BY <1>1 DEF LeaseExpires
<1>3. n \in Entry /\ n.state = "due"
  BY <1>1 DEF Entry
<1> HIDE DEF n
<1>4. /\ queue' \in [Assets -> Entry]
      /\ \A b \in Assets : \/ queue'[b].state = queue[b].state
                           \/ queue'[b].state # "absent" /\ queue[b].state # "absent"
  BY <1>1, <1>2, <1>3
<1> QED
  BY <1>1, <1>2, <1>4, WorkerKept DEF history

\* A crash: what a request uploaded and did not write is lost, and counted.
LEMMA CrashKept ==
  ASSUME HomeInv, Crash PROVE HomeInv'
<1> DEFINE lost == {edit[h].asset : h \in {g \in Editors : edit[g].pc # "idle"}} \ {NoImage}
           rest(h) == IF Comm(edit[h]) THEN [edit[h] EXCEPT !.pc = "idle"] ELSE NoEdit
<1>1. /\ edit \in [Editors -> Edit] /\ slips \in 0..MaxSlips /\ leaked \subseteq Assets
      /\ strip \in BOOLEAN /\ Legacy \in Assets
      /\ \A h \in Editors : edit[h] \in Edit /\ Sound(edit[h])
  BY HomeFacts, HomeTypes, HomeAssumption DEF HomeInv
<1>2. /\ leaked' = leaked \union lost /\ slips' \in 0..MaxSlips
      /\ edit' = [h \in Editors |-> rest(h)]
      /\ cleaner' = [w \in Cleaners |-> [batch |-> {}, done |-> {}]]
      /\ UNCHANGED <<tables, cloud, doubted, raced>>
  BY <1>1, HomeAssumption DEF Crash, Slip, InDoubt, Comm, Doubt
<1>3. leaked' \subseteq Assets
  BY <1>1, <1>2 DEF Edit, Image
<1>4. \A h \in Editors : edit[h].pc # "idle" /\ edit[h].asset # NoImage => edit[h].asset \in leaked'
  BY <1>2
<1> HIDE DEF lost
<1>5. ASSUME NEW h \in Editors
      PROVE  /\ rest(h) \in Edit /\ Follows(edit[h], rest(h))
             /\ rest(h).holds => edit[h].holds /\ rest(h).cell = edit[h].cell
  <2> DEFINE e == edit[h]
             r == rest(h)
  <2>1. CASE Comm(e)
    <3>1. /\ r \in Edit /\ r.pc = "idle" /\ r.cell = e.cell /\ r.act = e.act /\ r.asset = e.asset
          /\ r.prev = e.prev /\ r.to = e.to /\ r.enq = e.enq /\ r.holds = e.holds
      BY <1>1, <2>1 DEF Edit
    <3>2. Sound(e) /\ Comm(e)
      BY <1>1, <2>1
    <3>3. Sound(r) /\ e.holds
      BY ONLY <3>1, <3>2 DEF Sound, Comm, Doubt
    <3>4. e.asset # NoImage => Recorded(e.asset) \/ e.asset \in leaked'
      BY <1>4, <3>3, HomeFacts DEF Doubt
    <3> HIDE DEF r
    <3>5. Follows(e, r)
      BY <3>1, <3>3, <3>4 DEF Follows, Open
    <3> QED
      BY <3>1, <3>3, <3>5 DEF r
  <2>2. CASE ~Comm(e)
    <3>1. /\ r \in Edit /\ Sound(r) /\ ~r.holds /\ ~Doubt(r) /\ ~Open(r)
          /\ r.asset = NoImage /\ r.to = NoImage /\ r.prev = NoImage
      BY <1>1, <2>2, EndedIsSound
    <3>2. e.to = NoImage /\ (e.pc = "idle" => e.asset = NoImage)
      BY <1>1, <2>2 DEF Sound, Comm, Doubt
    <3> HIDE DEF r
    <3>3. Follows(e, r)
      BY <1>4, <3>1, <3>2 DEF Follows
    <3> QED
      BY <3>1, <3>3 DEF r
  <2> QED
    BY <2>1, <2>2
<1> HIDE DEF rest
<1>6. \A h \in Editors : edit'[h] = rest(h)
  BY <1>2
<1>7. edit' \in [Editors -> Edit]
  BY <1>2, <1>5
<1>8. cleaner' \in [Cleaners -> Work]
  BY <1>2 DEF Work
<1>9. \A g, h \in Editors : g # h /\ edit'[g].holds /\ edit'[h].holds =>
        edit'[g].cell # edit'[h].cell \/ edit'[h].cell \in Orders
  BY <1>5, <1>6 DEF HomeInv, SectionsAreLocked
<1> QED
  BY <1>1, <1>2, <1>3, <1>5, <1>6, <1>7, <1>8, <1>9, QuietKept DEF tables

-----------------------------------------------------------------------------

\* HomeInv holds in every reachable state.
THEOREM HomeInvariance == HomeSpec => []HomeInv
<1>1. HomeInit => HomeInv
  <2> SUFFICES ASSUME HomeInit PROVE HomeInv
    OBVIOUS
  <2>1. /\ NoImage \notin Assets \union Slots \union Orders /\ Legacy \in Assets
        /\ Slots \cap Orders = {} /\ MaxSlips \in Nat
    BY HomeAssumption
  <2>2. /\ image \in [Cells -> {NoImage, Legacy}] /\ \A s \in Slots : image[s] = NoImage
        /\ cloud \in [Assets -> {"unused", "stored"}]
        /\ \A a \in Assets : cloud[a] = "stored" => a = Legacy
        /\ \A c \in Cells : image[c] = Legacy => cloud[Legacy] = "stored"
        /\ strip \in BOOLEAN
    BY <2>1 DEF HomeInit, Cells
  <2>3. /\ rows = {} /\ active = {} /\ queue = [a \in Assets |-> [state |-> "absent", id |-> 0]]
        /\ edit = [h \in Editors |-> NoEdit]
        /\ cleaner = [w \in Cleaners |-> [batch |-> {}, done |-> {}]]
        /\ leaked = {} /\ doubted = {} /\ raced = {} /\ slips = 0
    BY DEF HomeInit
  <2>4. HomeTypeOK
    <3>1. [state |-> "absent", id |-> 0] \in Entry /\ [batch |-> {}, done |-> {}] \in Work
      BY DEF Entry, Work
    <3> QED
      BY <2>1, <2>2, <2>3, <3>1, NoEditTyped, HomeTypes DEF Image
  <2>5. ReferencesAreAlive /\ PublicSectionsHaveImages
    BY <2>2, <2>3 DEF ReferencesAreAlive, PublicSectionsHaveImages, PublicSections
  <2>6. OrphansHaveCause
    BY <2>2 DEF OrphansHaveCause
  <2>7. \A h \in Editors : /\ Sound(edit[h]) /\ ~Open(edit[h]) /\ ~Doubt(edit[h])
                           /\ edit[h].asset = NoImage /\ edit[h].prev = NoImage /\ ~edit[h].holds
    BY <2>1, <2>3, EndedIsSound
  <2>8. RequestsAreSound /\ SectionsAreLocked /\ UploadsAreOwned
    BY <2>7, RequestsBySound, UploadsInParts DEF SectionsAreLocked
  <2>9. UnusedAreUnknown /\ ClaimsAreFree
    BY <2>1, <2>2, <2>3, <2>7 DEF UnusedAreUnknown, ClaimsAreFree, Referenced
  <2> QED
    BY <2>4, <2>5, <2>6, <2>8, <2>9 DEF HomeInv
<1>2. HomeInv /\ [HomeNext]_homeVars => HomeInv'
  <2> SUFFICES ASSUME HomeInv, [HomeNext]_homeVars PROVE HomeInv'
    OBVIOUS
  <2>1. CASE UNCHANGED homeVars
    <3>1. /\ UNCHANGED <<image, rows, active, strip, queue, cloud, edit, cleaner>>
          /\ UNCHANGED <<leaked, doubted, raced, slips>>
      BY <2>1 DEF homeVars, tables, history
    <3>2. /\ queue \in [Assets -> Entry] /\ cleaner \in [Cleaners -> Work] /\ slips \in 0..MaxSlips
          /\ cloud \in [Assets -> {"unused", "stored", "destroyed"}]
      BY HomeFacts, HomeTypes DEF HomeInv
    <3> QED
      BY <3>1, <3>2, WorkerKept
  <2>2. ASSUME NEW h \in Editors, EditorStep(h) PROVE HomeInv'
    <3>1. CASE CommitWrite(h) \/ LateCommit(h)
      <4>1. Comm(edit[h]) /\ Committed(edit[h])
        BY <3>1 DEF CommitWrite, LateCommit, InDoubt, Comm, Doubt
      <4>2. UNCHANGED <<cloud, cleaner, leaked, doubted, slips>>
        BY <3>1 DEF CommitWrite, LateCommit
      <4>3. edit[h] \in Edit /\ Sound(edit[h]) /\ edit \in [Editors -> Edit] /\ Legacy \in Assets
        BY HomeFacts, HomeAssumption
      <4>4. CASE edit' = [edit EXCEPT ![h] = NoEdit]
        BY <4>1, <4>2, <4>4, NoEditTyped, CommitKept
      <4>5. CASE edit[h].pc = "enqueue"
                 /\ edit' = [edit EXCEPT ![h] = [NoEdit EXCEPT !.pc = "enqueue",
                                                              !.asset = edit[h].asset]]
        <5>1. edit[h].asset \in Assets
          BY <4>3, <4>5 DEF Sound, Edit, Image
        <5> QED
          BY <4>1, <4>2, <4>5, <5>1, EndedIsSound, CommitKept
      <4> QED
        BY <3>1, <4>3, <4>4, <4>5 DEF CommitWrite, LateCommit, InDoubt, Resolved
    <3> QED
      BY <2>2, <3>1, BeginningsKept, WritesKept, FailuresKept, UploadKept, EnqueueKept
         DEF EditorStep
  <2> QED
    BY <2>1, <2>2, MoveKept, CleanerKept, LeaseKept, CrashKept DEF HomeNext
<1> QED
  BY <1>1, <1>2, PTL DEF HomeSpec

\* No row shows an image that was destroyed, unless its own commit was in doubt
\* when the image was handed to the queue: any number of requests and workers.
THEOREM RowsAreAlive == HomeSpec => []ReferencesAreAlive
<1>1. HomeInv => ReferencesAreAlive
  BY DEF HomeInv
<1> QED
  BY <1>1, HomeInvariance, PTL

\* An image without an owner at the provider was lost by a crash or a lost call,
\* replaced by a request that never saw it, or shared by two rows.
THEOREM OrphansAreExplained == HomeSpec => []OrphansHaveCause
<1>1. HomeInv => OrphansHaveCause
  BY DEF HomeInv
<1> QED
  BY <1>1, HomeInvariance, PTL

\* A public section has an image in every state.
THEOREM SectionsShowImages == HomeSpec => []PublicSectionsHaveImages
<1>1. HomeInv => PublicSectionsHaveImages
  BY DEF HomeInv
<1> QED
  BY <1>1, HomeInvariance, PTL

-----------------------------------------------------------------------------
(* Promotion slides *)

Upload ==
  [pc : {"idle", "read", "upload", "upsert", "undo", "clean"},
   slot : Places \union {NoPicture}, new : Pictures \union {NoPicture},
   previous : Pictures \union {NoPicture}]

\* A request that has not begun.
LEMMA NoUploadTyped == NoUpload \in Upload
BY DEF NoUpload, Upload

\* Type correctness, step by step.
LEMMA PromoTypeKept ==
  ASSUME PromoInv, [PromoNext]_promoVars PROVE PromoTypeOK'
<1> USE DEF PromoInv, PromoTypeOK
<1>0. \A h \in Publishers : upload[h] \in Upload
  BY DEF Upload
<1>1. ASSUME NEW h \in Publishers, PublisherStep(h) PROVE PromoTypeOK'
  <2>1. CASE UpsertSlide(h)
    <3>1. PICK f \in PromotionForm :
            upload' = [upload EXCEPT ![h] = [NoUpload EXCEPT !.pc = "read", !.slot = f.slot,
                                                            !.new = f.picture]]
      BY <2>1 DEF UpsertSlide
    <3>2. [NoUpload EXCEPT !.pc = "read", !.slot = f.slot, !.new = f.picture] \in Upload
      BY NoUploadTyped DEF Upload, PromotionForm
    <3>3. contended' \subseteq Places
      BY <2>1 DEF UpsertSlide, PromotionForm
    <3> QED
      BY <2>1, <3>1, <3>2, <3>3 DEF UpsertSlide, Upload
  <2>2. CASE GetActiveImage(h)
    <3>1. upload' = [upload EXCEPT ![h].pc = "upload", ![h].previous = slide[upload[h].slot]]
      BY <2>2 DEF GetActiveImage, ActiveImage
    <3>2. slide[upload[h].slot] \in Pictures \union {NoPicture}
      BY <2>2 DEF GetActiveImage, RequestsAreFilled
    <3>3. [upload[h] EXCEPT !.pc = "upload", !.previous = slide[upload[h].slot]] \in Upload
      BY <1>0, <3>2 DEF Upload
    <3>4. upload' = [upload EXCEPT
            ![h] = [upload[h] EXCEPT !.pc = "upload", !.previous = slide[upload[h].slot]]]
      BY <3>1
    <3> QED
      BY <2>2, <3>3, <3>4 DEF GetActiveImage, Upload
  <2>3. CASE UploadPicture(h)
    <3>1. PublicId(h) \in Asset
      BY <2>3 DEF UploadPicture, PublicId, Asset, RequestsAreFilled
    <3>2. stored' \subseteq Asset
      BY <2>3, <3>1 DEF UploadPicture, UploadImage
    <3> QED
      BY <2>3, <3>2 DEF UploadPicture, Step
  <2>4. CASE PreparationFails(h)
    <3>1. PublicId(h) \in Asset
      BY <2>4 DEF PreparationFails, PublicId, Asset, RequestsAreFilled
    <3>2. stored' \subseteq Asset
      BY <2>4, <3>1 DEF PreparationFails, UploadImage
    <3> QED
      BY <2>4, <3>2, NoUploadTyped DEF PreparationFails, Finish, Upload
  <2>5. CASE UpsertRow(h)
    BY <2>5 DEF UpsertRow, Step
  <2>6. CASE UpsertRowFails(h)
    <3>1. upload[h].slot \in Places /\ upload[h].new \in Pictures
      BY <2>6 DEF UpsertRowFails, RequestsAreFilled
    <3>2. slide' \in [Places -> Pictures \union {NoPicture}]
      BY <2>6, <3>1 DEF UpsertRowFails
    <3>3. errors' \in 0..MaxErrors
      BY <2>6, PromotionAssumption DEF UpsertRowFails, PromoError
    <3> QED
      BY <2>6, <3>1, <3>2, <3>3 DEF UpsertRowFails, Step
  <2>7. CASE DestroyUploaded(h)
    BY <2>7, NoUploadTyped DEF DestroyUploaded, DestroyAtBest, Finish, Upload
  <2>8. CASE DestroyPrevious(h)
    BY <2>8, NoUploadTyped DEF DestroyPrevious, DestroyAtBest, Finish, Upload
  <2> QED
    BY <1>1, <2>1, <2>2, <2>3, <2>4, <2>5, <2>6, <2>7, <2>8 DEF PublisherStep
<1>2. ASSUME NEW s \in Places, DeleteSlide(s) PROVE PromoTypeOK'
  BY <1>2 DEF DeleteSlide
<1>3. CASE UNCHANGED promoVars
  BY <1>3 DEF promoVars
<1> QED
  BY <1>1, <1>2, <1>3 DEF PromoNext

PromoSound == BrokenSlidesHaveCause /\ RequestsAreFilled /\ OverlapsAreKnown /\ LoneRequestsServe

\* The other conjuncts, step by step.
LEMMA ServiceKept ==
  ASSUME PromoInv, [PromoNext]_promoVars PROVE PromoSound'
<1> USE DEF PromoInv, PromoTypeOK, BrokenSlidesHaveCause, RequestsAreFilled, OverlapsAreKnown,
            LoneRequestsServe, Served, PublicId, PromoSound
<1>1. ASSUME NEW h \in Publishers, PublisherStep(h) PROVE PromoSound'
  <2>1. CASE UpsertSlide(h)
    <3>1. PICK f \in PromotionForm :
            /\ upload' = [upload EXCEPT ![h] = [NoUpload EXCEPT !.pc = "read", !.slot = f.slot,
                                                               !.new = f.picture]]
            /\ contended' = IF \E g \in Publishers : upload[g].slot = f.slot
                            THEN contended \union {f.slot} ELSE contended
      BY <2>1 DEF UpsertSlide
    <3>2. /\ upload'[h].pc = "read" /\ upload'[h].slot = f.slot /\ upload'[h].new = f.picture
          /\ \A g \in Publishers : g # h => upload'[g] = upload[g]
          /\ f.slot \in Places /\ f.picture \in Pictures
      BY <3>1 DEF NoUpload, PromotionForm
    <3>3. contended \subseteq contended' /\ slide' = slide /\ stored' = stored /\ failed' = failed
      BY <2>1, <3>1 DEF UpsertSlide
    <3>4. OverlapsAreKnown'
      BY <3>1, <3>2, <3>3
    <3> QED
      BY <3>2, <3>3, <3>4
  <2>2. CASE GetActiveImage(h)
    BY <2>2 DEF GetActiveImage
  <2>3. CASE UploadPicture(h)
    BY <2>3 DEF UploadPicture, UploadImage, Step
  <2>4. CASE PreparationFails(h)
    <3>1. stored \subseteq stored' /\ slide' = slide /\ contended' = contended /\ failed' = failed
      BY <2>4 DEF PreparationFails, UploadImage
    <3> QED
      BY <2>4, <3>1 DEF PreparationFails, Finish, NoUpload
  <2>5. CASE UpsertRow(h)
    BY <2>5 DEF UpsertRow, Step
  <2>6. CASE UpsertRowFails(h)
    <3>1. upload[h].slot \in Places /\ upload[h].slot \in failed'
      BY <2>6 DEF UpsertRowFails
    <3>2. \A s \in Places : s # upload[h].slot => slide'[s] = slide[s]
      BY <2>6 DEF UpsertRowFails
    <3> QED
      BY <2>6, <3>1, <3>2 DEF UpsertRowFails, Step
  <2>7. CASE DestroyUploaded(h)
    <3>1. upload[h].slot \in failed /\ \A a \in stored : a = PublicId(h) \/ a \in stored'
      BY <2>7 DEF DestroyUploaded, DestroyAtBest
    <3> QED
      BY <2>7, <3>1 DEF DestroyUploaded, Finish, NoUpload
  <2>8. CASE DestroyPrevious(h)
    <3>1. \A a \in stored \ stored' :
            a[1] = upload[h].slot /\ a[2] \notin {NoPicture, upload[h].new}
      BY <2>8 DEF DestroyPrevious, DestroyAtBest, Asset
    <3>2. /\ upload[h].pc = "clean" /\ upload' = [upload EXCEPT ![h] = NoUpload]
          /\ slide' = slide /\ contended' = contended /\ failed' = failed
      BY <2>8 DEF DestroyPrevious, Finish
    <3>3. BrokenSlidesHaveCause'
      <4>1. ASSUME NEW s \in Places, s \notin contended \union failed, slide[s] # NoPicture,
                   <<s, slide[s]>> \notin stored'
            PROVE  FALSE
        <5>1. <<s, slide[s]>> \in stored \ stored'
          BY <4>1
        <5>2. s = upload[h].slot /\ slide[s] # upload[h].new
          BY <3>1, <5>1
        <5> QED
          BY <3>2, <4>1, <5>2
      <4> QED
        BY <3>2, <4>1
    <3>4. \A g \in Publishers : g # h /\ upload[g].pc # "idle" => upload[g].slot # upload[h].slot
                                                              \/ upload[g].slot \in contended
      BY <3>2
    <3>5. LoneRequestsServe'
      BY <3>1, <3>2, <3>4 DEF NoUpload
    <3> QED
      BY <3>2, <3>3, <3>5 DEF NoUpload
  <2> QED
    BY <1>1, <2>1, <2>2, <2>3, <2>4, <2>5, <2>6, <2>7, <2>8 DEF PublisherStep
<1>2. ASSUME NEW s \in Places, DeleteSlide(s) PROVE PromoSound'
  BY <1>2 DEF DeleteSlide
<1>3. CASE UNCHANGED promoVars
  BY <1>3 DEF promoVars
<1> QED
  BY <1>1, <1>2, <1>3 DEF PromoNext

-----------------------------------------------------------------------------

\* PromoInv holds in every reachable state.
THEOREM PromotionInvariance == PromoSpec => []PromoInv
<1>1. PromoInit => PromoInv
  BY PromotionAssumption
     DEF PromoInit, PromoInv, PromoTypeOK, BrokenSlidesHaveCause, RequestsAreFilled,
         OverlapsAreKnown, LoneRequestsServe, Served, NoUpload
<1>2. PromoInv /\ [PromoNext]_promoVars => PromoInv'
  BY PromoTypeKept, ServiceKept DEF PromoInv, PromoSound
<1> QED
  BY <1>1, <1>2, PTL DEF PromoSpec

\* A slide that is shown has its image, unless two requests worked on its slot
\* at once or one of them got an error from the database.
THEOREM SlidesAreServed == PromoSpec => []BrokenSlidesHaveCause
<1>1. PromoInv => BrokenSlidesHaveCause
  BY DEF PromoInv
<1> QED
  BY <1>1, PromotionInvariance, PTL
=============================================================================
