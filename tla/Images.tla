-------------------------------- MODULE Images --------------------------------
(***************************************************************************)
(* Photos of table rows: uploaded or replaced, served whole or scaled to a *)
(* box (the scaled copy is made on the first request and kept), deleted    *)
(* and pruned. A row of table_item_photos names a source photo, a source   *)
(* and every scaled photo own one row of photo_instances with the bytes.   *)
(*                                                                         *)
(* Each request is a transaction on one of the tenant's connections. Where *)
(* the code reads and writes with work in between (resizing; listing the   *)
(* scaled copies before deleting their source) the transaction is two      *)
(* actions, at READ COMMITTED. Bytes are the number of the upload they     *)
(* came from and the size they have; ids and now_us() stamps are taken     *)
(* from one counter, for both are fresh and grow.                          *)
(***************************************************************************)
EXTENDS Naturals, FiniteSets, FiniteSetsExt

CONSTANTS
    Connections,    \* connections of the tenant's pool
    Items,          \* rows of tables that may have a photo
    PublicItems,    \* of these, rows of the tables in PublicPhotoTables
    GrantedItems,   \* rows of tables an ordinary user holds a grant for
    BaseItems,      \* rows of the tables the app lets everyone read
    OwnItem,        \* the ordinary user's row of people
    Sizes,          \* sizes an uploaded raster may have
    Boxes,          \* sizes a scaled photo may be requested for
    MaxSource,      \* kImageMaxSourceWidth / Height
    MaxPublic,      \* kImageMaxPublicScaledWidth / Height
    MaxClock        \* bound: ids and stamps handed out

ASSUME ImagesAssumption ==
    /\ PublicItems \subseteq Items /\ GrantedItems \subseteq Items /\ BaseItems \subseteq Items
    /\ OwnItem \in Items
    /\ Sizes \subseteq Nat \ {0} /\ Boxes \subseteq Nat \ {0}
    /\ MaxSource \in Nat \ {0} /\ MaxPublic \in Nat \ {0} /\ MaxClock \in Nat

VARIABLES
    instances,  \* photo_instances
    sources,    \* source_photos
    scaled,     \* scaled_photos
    itemPhotos, \* table_item_photos
    tx,         \* the transaction open on each connection
    clock,      \* the last id or stamp handed out
    browser,    \* what a browser keeps per URL: the ETag and the bytes it came with
    prune,      \* what the pruning open on each connection has picked
    raced       \* ghost: sources deleted while a scaled copy of them was being made

vars == <<instances, sources, scaled, itemPhotos, tx, clock, browser, prune, raced>>

Callers == {"anonymous", "user", "admin"}
Types == {"jpeg", "png", "svg", "tiff"}

Vector == 0     \* the width and height stored for an SVG

Instance == [id : Nat, upload : Nat, size : Nat]
Source == [id : Nat, inst : Nat, updated : Nat]
Scaled == [id : Nat, source : Nat, inst : Nat, box : Nat, used : Nat]

Idle == [pc |-> "idle", item |-> OwnItem, source |-> 0, row |-> 0, listed |-> {}, box |-> 0,
         bytes |-> [upload |-> 0, size |-> 0]]

\* URLs of get_photo (box 0) and get_scaled_photo.
Urls == Items \X ({0} \cup Boxes)

\* Bytes as they are stored, copied and sent.
Bytes == [upload : Nat, size : Nat]
Tx == [pc : {"idle", "resized", "found", "foundOld", "deleting", "replacing",
             "pruning", "shrinking", "picking"}, item : Items,
       source : Nat, row : Nat, listed : SUBSET Nat, box : Nat, bytes : Bytes]

\* The copies a pruning has picked, as it read them, the size it prunes to, and (a
\* ghost) the ids of the copies that were there when it began.
Prune == [picked : SUBSET Scaled, target : Nat, seen : SUBSET Nat]
NoPrune == [picked |-> {}, target |-> 0, seen |-> {}]

TypeOK ==
    /\ instances \subseteq Instance
    /\ sources \subseteq Source
    /\ scaled \subseteq Scaled
    /\ itemPhotos \subseteq [item : Items, source : Nat]
    /\ \A r \in itemPhotos : \E s \in sources : s.id = r.source
    /\ \A r, q \in itemPhotos : r.item = q.item => r = q
    /\ \A s \in sources : \E i \in instances : i.id = s.inst
    /\ \A p \in scaled : /\ \E i \in instances : i.id = p.inst
                         /\ \E s \in sources : s.id = p.source
    /\ tx \in [Connections -> Tx]
    /\ browser \in [Urls -> [etag : Nat, bytes : Bytes]]
    /\ prune \in [Connections -> Prune]
    /\ clock \in Nat /\ raced \subseteq Nat

Init ==
    /\ instances = {} /\ sources = {} /\ scaled = {} /\ itemPhotos = {}
    /\ tx = [c \in Connections |-> Idle]
    /\ clock = 0
    /\ browser = [u \in Urls |-> [etag |-> 0, bytes |-> Idle.bytes]]
    /\ prune = [c \in Connections |-> NoPrune]
    /\ raced = {}

-------------------------------------------------------------------------------
(* Lookups                                                                 *)

InstanceOf(id) == CHOOSE i \in instances : i.id = id

BytesOf(id) == [upload |-> InstanceOf(id).upload, size |-> InstanceOf(id).size]

\* GetSourcePhotoForItem: the row the JOIN finds, as a set.
SourceOf(i) == {s \in sources : \E r \in itemPhotos : r.item = i /\ r.source = s.id}

\* An image is clipped to a square box; a smaller one is left alone.
Clipped(size, box) == IF size <= box THEN size ELSE box

\* A vector is served as it is, a raster is fitted into the box.
ScaledBytes(bytes, box) ==
    IF bytes.size = Vector THEN bytes ELSE [bytes EXCEPT !.size = Clipped(@, box)]

\* Mutant: an oversized upload is stored as it came.
EnforceNothing(size) == size

EnforceMaxDimensions(size) == IF size = Vector THEN Vector ELSE Clipped(size, MaxSource)

\* IsTableAllowed: the base list, the grants and, for an administrator, every admin table.
MayRead(who, i) == who = "admin" \/ i \in BaseItems \/ (who = "user" /\ i \in GrantedItems)

\* RequireTableWriteAccess: the base list does not count.
MayWrite(who, i) == who = "admin" \/ (who = "user" /\ i \in GrantedItems)

Begins(c) == tx[c].pc = "idle" /\ clock < MaxClock

\* A request answered without touching a row: 400, 401, 403, 404 or 304.
Refused == UNCHANGED vars

-------------------------------------------------------------------------------
(* Deleting and replacing                                                  *)

Rows(i) == {r \in itemPhotos : r.item = i}

\* An association another transaction has deleted and not committed yet is locked.
Locked(c, r) == \E d \in Connections \ {c} :
    tx[d].pc \in {"deleting", "replacing"} /\ tx[d].row = r.source

\* DeletePhotoForItem, first GetTableItemPhoto ...
FindPhoto(c, i, s, then, bytes) ==
    /\ tx' = [tx EXCEPT ![c] = [Idle EXCEPT !.pc = then, !.item = i, !.source = s.id, !.bytes = bytes]]
    /\ UNCHANGED <<instances, sources, scaled, itemPhotos, clock, browser, prune, raced>>

\* ... then DELETE FROM table_item_photos by table and item, and the SELECT of the
\* scaled copies. The DELETE waits for a row that is locked; a row that took the
\* place of the one found goes if it was there when the statement began.
DeleteAssociation(c) ==
    /\ tx[c].pc \in {"found", "foundOld"}
    /\ \A r \in Rows(tx[c].item) : ~Locked(c, r)
    /\ \E row \in {r.source : r \in Rows(tx[c].item)} \cup
                  (IF \E r \in Rows(tx[c].item) : r.source = tx[c].source THEN {} ELSE {0}) :
         tx' = [tx EXCEPT ![c].pc = IF @ = "found" THEN "deleting" ELSE "replacing",
                          ![c].row = row,
                          ![c].listed = {p.inst : p \in {q \in scaled : q.source = tx[c].source}}
                             \cup {s.inst : s \in {q \in sources : q.id = tx[c].source}}]
    /\ UNCHANGED <<instances, sources, scaled, itemPhotos, clock, browser, prune, raced>>

\* Mutant: only the source and its own instance are deleted.
DeletedButCopies(c) ==
    [instances |-> {i \in instances : i.id \notin {s.inst : s \in {x \in sources : x.id = tx[c].source}}},
     sources |-> {s \in sources : s.id # tx[c].source},
     scaled |-> {p \in scaled : p.source # tx[c].source},
     itemPhotos |-> {r \in itemPhotos : r.source \notin {tx[c].source, tx[c].row}}]

\* CascadeDeleteSourcePhoto: the rows that go are the association, the source and its
\* scaled copies (those inserted since by ON DELETE CASCADE), the listed instances.
Deleted(c) ==
    [instances |-> {i \in instances : i.id \notin tx[c].listed},
     sources |-> {s \in sources : s.id # tx[c].source},
     scaled |-> {p \in scaled : p.source # tx[c].source},
     itemPhotos |-> {r \in itemPhotos : r.source \notin {tx[c].source, tx[c].row}}]

\* A copy of this source that the list missed is in the making or already there,
\* or the association deleted was of a photo other than the one found.
Overlapped(c) ==
    IF \/ \E p \in scaled : p.source = tx[c].source /\ p.inst \notin tx[c].listed
       \/ \E d \in Connections : tx[d].pc = "resized" /\ tx[d].source = tx[c].source
       \/ tx[c].row # tx[c].source
    THEN {tx[c].source, tx[c].row} ELSE {}

CommitDelete(c) ==
    /\ tx[c].pc = "deleting"
    /\ LET rest == Deleted(c) IN
         /\ instances' = rest.instances /\ sources' = rest.sources
         /\ scaled' = rest.scaled /\ itemPhotos' = rest.itemPhotos
    /\ raced' = raced \cup Overlapped(c)
    /\ tx' = [tx EXCEPT ![c] = Idle]
    /\ UNCHANGED <<clock, browser, prune>>

\* Mutant: the association is moved to the new bytes, the source keeps its stamp.
StampOf(c) == IF \E s \in sources : s.id = tx[c].source
              THEN (CHOOSE s \in sources : s.id = tx[c].source).updated ELSE clock + 2

\* last_updated_at_us, by its default now_us().
FreshStamp(c) == clock + 2

\* Mutant: the old photo is deleted in a transaction of its own.
CommitUploadInTwo(c) ==
    LET rest == Deleted(c)
        added == IF tx[c].row # 0 THEN {} ELSE {clock + 2}
    IN
    /\ tx[c].pc = "replacing"
    /\ tx' = [tx EXCEPT ![c] = IF tx[c].row # 0 THEN [@ EXCEPT !.row = 0, !.source = 0] ELSE Idle]
    /\ instances' = rest.instances \cup
         {[id |-> k - 1, upload |-> k - 1, size |-> tx[c].bytes.size] : k \in added}
    /\ sources' = rest.sources \cup {[id |-> k, inst |-> k - 1, updated |-> k] : k \in added}
    /\ itemPhotos' = rest.itemPhotos \cup {[item |-> tx[c].item, source |-> k] : k \in added}
    /\ scaled' = rest.scaled
    /\ clock' = clock + 2
    /\ UNCHANGED <<browser, prune, raced>>

\* The old photo is gone; the new instance, source and association are inserted.
\* When another transaction gave the item a photo meanwhile, the UNIQUE constraint
\* throws and everything is undone.
CommitUpload(c) ==
    LET rest == Deleted(c) IN
    /\ tx[c].pc = "replacing"
    /\ \A r \in Rows(tx[c].item) : ~Locked(c, r)
    /\ tx' = [tx EXCEPT ![c] = Idle]
    /\ \/ /\ \E r \in rest.itemPhotos : r.item = tx[c].item
          /\ UNCHANGED <<instances, sources, scaled, itemPhotos, clock, raced>>
       \/ /\ \A r \in rest.itemPhotos : r.item # tx[c].item
          /\ instances' = rest.instances \cup
               {[id |-> clock + 1, upload |-> clock + 1, size |-> tx[c].bytes.size]}
          /\ sources' = rest.sources \cup
               {[id |-> clock + 2, inst |-> clock + 1, updated |-> FreshStamp(c)]}
          /\ scaled' = rest.scaled
          /\ itemPhotos' = rest.itemPhotos \cup {[item |-> tx[c].item, source |-> clock + 2]}
          /\ clock' = clock + 2
          /\ raced' = raced \cup Overlapped(c)
    /\ UNCHANGED <<browser, prune>>

\* UploadAndAssociatePhoto: the table must support photos, an "svg" must hold an SVG
\* document and a raster must decode (valid); a raster is shrunk to the maximum.
UploadAndAssociatePhoto(c, i, type, size, valid) ==
    LET stored == [upload |-> 0, size |-> EnforceMaxDimensions(IF type = "svg" THEN Vector ELSE size)] IN
    \/ ~valid /\ Refused
    \/ /\ valid /\ SourceOf(i) = {}
       /\ tx' = [tx EXCEPT ![c] = [Idle EXCEPT !.pc = "replacing", !.item = i, !.bytes = stored]]
       /\ UNCHANGED <<instances, sources, scaled, itemPhotos, clock, browser, prune, raced>>
    \/ /\ valid
       /\ \E s \in SourceOf(i) : FindPhoto(c, i, s, "foundOld", stored)

\* POST /api/upload_photo: jpeg, png or svg, for whoever may write the table.
PostUploadPhoto(c, who, i, type, size, valid) ==
    /\ Begins(c)
    /\ IF who # "anonymous" /\ type \in {"jpeg", "png", "svg"} /\ MayWrite(who, i)
       THEN UploadAndAssociatePhoto(c, i, type, size, valid)
       ELSE Refused

\* POST /api/upload_user_photo: one's own row of people, raster only.
PostUploadUserPhoto(c, type, size, valid) ==
    /\ Begins(c)
    /\ IF type \in {"jpeg", "png"}
       THEN UploadAndAssociatePhoto(c, OwnItem, type, size, valid)
       ELSE Refused

\* POST /api/delete_photo: one's own photo, or with write access.
DeletePhoto(c, who, i) ==
    /\ Begins(c)
    /\ IF /\ who # "anonymous"
          /\ (who = "user" /\ i = OwnItem) \/ MayWrite(who, i)
          /\ SourceOf(i) # {}
       THEN \E s \in SourceOf(i) : FindPhoto(c, i, s, "found", Idle.bytes)
       ELSE Refused

-------------------------------------------------------------------------------
(* Serving                                                                 *)

\* 304 when the browser's ETag is the source's stamp, else the bytes with the ETag.
Answer(url, s, bytes) ==
    browser' = [browser EXCEPT ![url] = IF @.etag = s.updated THEN @
                                        ELSE [etag |-> s.updated, bytes |-> bytes]]

\* GET /api/get_photo: the source as it is stored, to those who may read the table.
GetPhoto(c, who, i) ==
    /\ tx[c].pc = "idle"
    /\ who # "anonymous" /\ MayRead(who, i)
    /\ \E s \in SourceOf(i) : Answer(<<i, 0>>, s, BytesOf(s.inst))
    /\ UNCHANGED <<instances, sources, scaled, itemPhotos, tx, clock, prune, raced>>

\* The scaled copies of a source for a box (no constraint keeps it to one).
CachedFor(s, box) == {p \in scaled : p.source = s.id /\ p.box = box}

ScaledRequest(c, who, i, box) ==
    /\ Begins(c)
    /\ i \in PublicItems \/ (who # "anonymous" /\ MayRead(who, i))

\* GET /api/get_scaled_photo, cache hit: last_used_at_us is touched.
ScaledHit(c, who, i, request) ==
    LET box == Clipped(request, MaxPublic) IN
    /\ ScaledRequest(c, who, i, request)
    /\ \E s \in SourceOf(i) : \E p \in CachedFor(s, box) :
         /\ scaled' = (scaled \ {p}) \cup {[p EXCEPT !.used = clock + 1]}
         /\ Answer(<<i, request>>, s, BytesOf(p.inst))
    /\ clock' = clock + 1
    /\ UNCHANGED <<instances, sources, itemPhotos, tx, prune, raced>>

\* A vector is never scaled and no copy of it is kept.
ScaledVector(c, who, i, request) ==
    /\ ScaledRequest(c, who, i, request)
    /\ \E s \in SourceOf(i) :
         /\ BytesOf(s.inst).size = Vector
         /\ Answer(<<i, request>>, s, BytesOf(s.inst))
    /\ UNCHANGED <<instances, sources, scaled, itemPhotos, tx, clock, prune, raced>>

\* Cache miss: read the source's bytes and resize them.
ScaledMiss(c, who, i, request) ==
    LET box == Clipped(request, MaxPublic) IN
    /\ ScaledRequest(c, who, i, request)
    /\ \E s \in SourceOf(i) :
         /\ BytesOf(s.inst).size # Vector
         /\ CachedFor(s, box) = {}
         /\ tx' = [tx EXCEPT ![c] = [Idle EXCEPT !.pc = "resized", !.item = i, !.source = s.id,
                                     !.box = request, !.bytes = ScaledBytes(BytesOf(s.inst), box)]]
    /\ UNCHANGED <<instances, sources, scaled, itemPhotos, clock, browser, prune, raced>>

\* Mutant: no foreign key holds the copy to its source.
CommitScaledUnchecked(c) ==
    /\ tx[c].pc = "resized"
    /\ tx' = [tx EXCEPT ![c] = Idle]
    /\ instances' = instances \cup
         {[id |-> clock + 1, upload |-> tx[c].bytes.upload, size |-> tx[c].bytes.size]}
    /\ scaled' = scaled \cup
         {[id |-> clock + 2, source |-> tx[c].source, inst |-> clock + 1,
           box |-> Clipped(tx[c].box, MaxPublic), used |-> clock + 2]}
    /\ clock' = clock + 2
    /\ UNCHANGED <<sources, itemPhotos, browser, prune, raced>>

\* ... then insert the copy and answer. Without its source the foreign key throws:
\* the transaction is rolled back and the answer is a 500.
CommitScaled(c) ==
    /\ tx[c].pc = "resized"
    /\ tx' = [tx EXCEPT ![c] = Idle]
    /\ \/ /\ tx[c].source \notin {s.id : s \in sources}
          /\ UNCHANGED <<instances, sources, scaled, itemPhotos, clock, browser>>
       \/ \E s \in sources :
            /\ s.id = tx[c].source
            /\ instances' = instances \cup
                 {[id |-> clock + 1, upload |-> tx[c].bytes.upload, size |-> tx[c].bytes.size]}
            /\ scaled' = scaled \cup
                 {[id |-> clock + 2, source |-> s.id, inst |-> clock + 1,
                   box |-> Clipped(tx[c].box, MaxPublic), used |-> clock + 2]}
            /\ clock' = clock + 2
            /\ Answer(<<tx[c].item, tx[c].box>>, s, tx[c].bytes)
            /\ UNCHANGED <<sources, itemPhotos>>
    /\ UNCHANGED <<prune, raced>>

-------------------------------------------------------------------------------
(* Pruning. The copies are listed, then each is deleted by its id, whatever has  *)
(* become of it since. The deletes show when the transaction commits: a hit on   *)
(* a copy it has deleted waits for that and is then a miss, one before is served.*)

Ids(copies) == {p.id : p \in copies}

\* What a pruning sees: the copies it has not deleted itself.
Visible(c) == {p \in scaled : p.id \notin Ids(prune[c].picked)}

\* DeleteScaledPhoto of each copy picked, if it is still there, and the COMMIT.
DropPicked(c) ==
    LET gone == scaled \ Visible(c) IN
    /\ scaled' = scaled \ gone
    /\ instances' = {i \in instances : i.id \notin {p.inst : p \in gone}}
    /\ tx' = [tx EXCEPT ![c] = Idle]
    /\ prune' = [prune EXCEPT ![c] = NoPrune]
    /\ UNCHANGED <<sources, itemPhotos, clock, browser, raced>>

\* DeleteScaledPhotosOlderThan: SELECT the copies last used before the cutoff ...
ListOlderThan(c, cutoff) ==
    /\ tx[c].pc = "idle"
    /\ tx' = [tx EXCEPT ![c] = [Idle EXCEPT !.pc = "pruning"]]
    /\ prune' = [prune EXCEPT ![c] =
                   [picked |-> {p \in scaled : p.used < cutoff}, target |-> 0, seen |-> Ids(scaled)]]
    /\ UNCHANGED <<instances, sources, scaled, itemPhotos, clock, browser, raced>>

\* ... and delete them.
DeleteListed(c) == tx[c].pc = "pruning" /\ DropPicked(c)

\* DeleteOldestScaledPhotosUntilSize begins.
StartShrinking(c, target) ==
    /\ tx[c].pc = "idle"
    /\ tx' = [tx EXCEPT ![c] = [Idle EXCEPT !.pc = "shrinking"]]
    /\ prune' = [prune EXCEPT ![c] = [picked |-> {}, target |-> target, seen |-> Ids(scaled)]]
    /\ UNCHANGED <<instances, sources, scaled, itemPhotos, clock, browser, raced>>

\* GetTotalScaledPhotoStorageBytes; the bytes of an image are its area.
StorageBytes(kept) == MapThenSumSet(LAMBDA p : BytesOf(p.inst).size ^ 2, kept)

\* Each turn of the loop first asks for the total ...
MeasureStorage(c) ==
    /\ tx[c].pc = "shrinking"
    /\ IF StorageBytes(Visible(c)) <= prune[c].target
       THEN DropPicked(c)
       ELSE /\ tx' = [tx EXCEPT ![c].pc = "picking"]
            /\ UNCHANGED <<instances, sources, scaled, itemPhotos, clock, browser, prune, raced>>

\* Mutant: ORDER BY last_used_at_us DESC, the copies used last go first.
PickNewest(c) ==
    /\ tx[c].pc = "picking"
    /\ \E p \in Visible(c) :
         /\ \A q \in Visible(c) : q.used <= p.used
         /\ prune' = [prune EXCEPT ![c].picked = @ \cup {p}]
    /\ tx' = [tx EXCEPT ![c].pc = "shrinking"]
    /\ UNCHANGED <<instances, sources, scaled, itemPhotos, clock, browser, raced>>

\* ... then for the copy unused for longest, which it deletes.
PickOldest(c) ==
    /\ tx[c].pc = "picking"
    /\ \/ Visible(c) = {} /\ DropPicked(c)
       \/ \E p \in Visible(c) :
            /\ \A q \in Visible(c) : p.used <= q.used
            /\ prune' = [prune EXCEPT ![c].picked = @ \cup {p}]
            /\ tx' = [tx EXCEPT ![c].pc = "shrinking"]
            /\ UNCHANGED <<instances, sources, scaled, itemPhotos, clock, browser, raced>>

-------------------------------------------------------------------------------
Next ==
    \E c \in Connections :
        \/ \E i \in Items, who \in Callers :
             \/ \E type \in Types, size \in Sizes, valid \in BOOLEAN :
                  PostUploadPhoto(c, who, i, type, size, valid)
             \/ DeletePhoto(c, who, i)
             \/ GetPhoto(c, who, i)
             \/ \E box \in Boxes :
                  \/ ScaledHit(c, who, i, box)
                  \/ ScaledVector(c, who, i, box)
                  \/ ScaledMiss(c, who, i, box)
        \/ \E type \in Types, size \in Sizes, valid \in BOOLEAN :
             PostUploadUserPhoto(c, type, size, valid)
        \/ DeleteAssociation(c) \/ CommitUpload(c) \/ CommitDelete(c) \/ CommitScaled(c)
        \/ \E cutoff \in 1 .. clock : ListOlderThan(c, cutoff)
        \/ \E target \in Boxes : StartShrinking(c, target)
        \/ DeleteListed(c) \/ MeasureStorage(c) \/ PickOldest(c)

Spec == Init /\ [][Next]_vars

-------------------------------------------------------------------------------
(* Properties                                                              *)

\* A 304 is never given for other bytes than the server would send now: as long as
\* the ETag a browser holds is the stamp of the item's photo, its bytes are those
\* of that photo, through replacements, deletions, pruning and copies made by
\* transactions that overlapped them (get_scaled_photo.cpp:163, get_photo.cpp:85).
NotModifiedIsCurrent ==
    \A u \in Urls : \A s \in SourceOf(u[1]) :
        browser[u].etag = s.updated =>
            browser[u].bytes =
                IF u[2] = 0 THEN BytesOf(s.inst)
                ELSE ScaledBytes(BytesOf(s.inst), Clipped(u[2], MaxPublic))

\* Nobody is sent more than the configured maximum of a scaled photo, and no
\* stored photo exceeds the maximum of a source (image_helper.cpp:228).
SizesWithinLimits ==
    /\ \A i \in instances : i.size <= MaxSource
    /\ \A u \in Urls : u[2] # 0 => browser[u].bytes.size <= MaxPublic

\* A photo or its bytes are left without an owner only by an overlap: a copy was
\* being made while its source was deleted (the cascade takes its row and leaves
\* its instance), or the association deleted by table and item was no longer of the
\* photo that had been looked up (image_helper.cpp:297, scaled_photos.cpp:104).
OrphansOnlyByOverlap ==
    /\ \A s \in sources : (\E r \in itemPhotos : r.source = s.id) \/ s.id \in raced
    /\ \A i \in instances :
        \/ \E s \in sources : s.inst = i.id
        \/ \E p \in scaled : p.inst = i.id
        \/ i.upload + 1 \in raced

\* A replacement never leaves an item without a photo: only a delete does
\* (image_helper.cpp:250).
ReplaceKeepsAPhoto ==
    [][\A i \in Items :
         SourceOf(i) # {} /\ SourceOf(i)' = {} =>
             \E c \in Connections : tx[c].pc = "deleting" /\ tx[c].item = i]_vars

\* Pruning takes the copies unused for longest (image_helper.cpp:528, :566): one
\* that goes while its source stays had, when it was picked, been unused at least as
\* long as any copy that was there when the pruning began and is kept. A use between
\* the pick and the DELETE does not save it, for the DELETE goes by the id alone.
RecentlyUsedSurvive ==
    [][sources' = sources =>
         \A p \in scaled : p.id \notin Ids(scaled') =>
             \E c \in Connections : \E r \in prune[c].picked :
                 /\ r.id = p.id
                 /\ \A q \in scaled' : q.id \in prune[c].seen => r.used <= q.used]_vars

\* What a browser has or is sent is the photo the item has now, within the
\* limits.
ServedIsCurrent ==
  /\ TypeOK
  /\ NotModifiedIsCurrent
  /\ SizesWithinLimits

\* Replacing and pruning take no photo that should stay.
PhotosSurvive ==
  /\ ReplaceKeepsAPhoto
  /\ RecentlyUsedSurvive
===============================================================================
