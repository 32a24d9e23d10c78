----------------------------- MODULE ImagesProofs -----------------------------
(***************************************************************************)
(* Images for any number of connections, rows, sizes and boxes: what a     *)
(* browser keeps is what the server would send, nothing is left without an *)
(* owner but by an overlap, and replacing and pruning take no photo that   *)
(* should stay. And the studio's look, for any theme files and font        *)
(* inventories: its rows stay together, a refused import changes nothing,  *)
(* an import stores what the file says or reports that it did not, and an  *)
(* exported look comes back from its file.                                 *)
(***************************************************************************)
EXTENDS Images, Branding, FiniteSetTheorems, WellFoundedInduction, TLAPS

-------------------------------------------------------------------------------
(* The inductive invariant *)

\* The bytes of an instance, and what is sent of them for a URL.
Stored(i) == [upload |-> i.upload, size |-> i.size]
Sent(bytes, box) == IF box = 0 THEN bytes ELSE ScaledBytes(bytes, Clipped(box, MaxPublic))

\* Ids are unique, a photo has one item, and bytes have one owner.
UniqueOwners ==
  /\ \A i, j \in instances : i.id = j.id => i = j
  /\ \A s, t \in sources : s.id = t.id => s = t
  /\ \A r, q \in itemPhotos : r.source = q.source => r = q
  /\ \A p, q \in scaled : p.inst = q.inst => p = q
  /\ \A p \in scaled, s \in sources : p.inst # s.inst

\* Ids and stamps come from the clock; a source's instance is drawn just before it.
Drawn ==
  /\ \A i \in instances : i.id <= clock
  /\ \A s \in sources : s.id <= clock /\ s.updated = s.id /\ s.id = s.inst + 1
  /\ \A p \in scaled : p.used <= clock
  /\ \A u \in Urls : browser[u].etag <= clock

\* A source's bytes are its upload's, a copy's bytes are its source's, scaled.
Contents ==
  /\ \A s \in sources, i \in instances : i.id = s.inst => i.upload = i.id
  /\ \A p \in scaled, s \in sources, i, j \in instances :
       p.source = s.id /\ i.id = p.inst /\ j.id = s.inst => Stored(i) = ScaledBytes(Stored(j), p.box)

BrowserCurrent ==
  \A u \in Urls, s \in sources, i \in instances :
    i.id = s.inst /\ browser[u].etag = s.updated => browser[u].bytes = Sent(Stored(i), u[2])

\* What a transaction remembers of rows it read earlier still holds of them.
TxCurrent(c) ==
  /\ tx[c].source <= clock /\ tx[c].row <= clock /\ tx[c].bytes.size <= MaxSource
  /\ \A k \in tx[c].listed : k <= clock
  /\ tx[c].pc = "resized" =>
       /\ tx[c].box \in Boxes
       /\ \A s \in sources, i \in instances : s.id = tx[c].source /\ i.id = s.inst =>
            tx[c].bytes = Sent(Stored(i), tx[c].box)
  /\ tx[c].pc \in {"found", "foundOld", "deleting", "replacing"} =>
       \A r \in itemPhotos : r.source \in {tx[c].source, tx[c].row} => r.item = tx[c].item
  /\ tx[c].pc \in {"deleting", "replacing"} =>
       /\ \A s \in sources : s.id = tx[c].source <=> s.inst \in tx[c].listed
       /\ \A p \in scaled : p.inst \in tx[c].listed => p.source = tx[c].source

ImagesInv ==
  /\ TypeOK
  /\ UniqueOwners
  /\ Drawn
  /\ Contents
  /\ BrowserCurrent
  /\ \A c \in Connections : TxCurrent(c)
  /\ SizesWithinLimits
  /\ OrphansOnlyByOverlap

-------------------------------------------------------------------------------
(* Sizes and bytes *)

LEMMA ClippedFits ==
  \A a, b \in Nat : Clipped(a, b) \in Nat /\ Clipped(a, b) <= a /\ Clipped(a, b) <= b
  BY DEF Clipped

LEMMA ScaledFits ==
  ASSUME NEW b \in Bytes, NEW box \in Nat
  PROVE  /\ ScaledBytes(b, box) \in Bytes /\ ScaledBytes(b, box).upload = b.upload
         /\ ScaledBytes(b, box).size <= box /\ ScaledBytes(b, box).size <= b.size
         /\ b.size = Vector => ScaledBytes(b, box) = b
<1>1. b.size \in Nat /\ b.upload \in Nat
  BY DEF Bytes
<1>2. CASE b.size = Vector
  BY <1>1, <1>2 DEF ScaledBytes, Vector
<1>3. CASE b.size # Vector
  <2>1. PICK k \in Nat : k = Clipped(b.size, box) /\ k <= b.size /\ k <= box
    BY <1>1, ClippedFits
  <2>2. ScaledBytes(b, box) = [b EXCEPT !.size = k]
    BY <1>3, <2>1 DEF ScaledBytes
  <2> QED
    BY <1>3, <2>1, <2>2 DEF Bytes
<1> QED
  BY <1>2, <1>3

LEMMA SentFits ==
  ASSUME NEW b \in Bytes, NEW box \in Nat
  PROVE  /\ Sent(b, box) \in Bytes /\ Sent(b, box).upload = b.upload /\ Sent(b, box).size <= b.size
         /\ box # 0 => Sent(b, box).size <= MaxPublic
<1>1. PICK k \in Nat : k = Clipped(box, MaxPublic) /\ k <= MaxPublic
  BY ClippedFits, ImagesAssumption
<1>2. /\ ScaledBytes(b, k) \in Bytes /\ ScaledBytes(b, k).upload = b.upload
      /\ ScaledBytes(b, k).size <= k /\ ScaledBytes(b, k).size <= b.size
  BY ScaledFits
<1>3. ScaledBytes(b, k).size \in Nat /\ b.size \in Nat /\ MaxPublic \in Nat
  BY <1>2, ImagesAssumption DEF Bytes
<1>4. CASE box = 0
  BY <1>3, <1>4 DEF Sent
<1>5. CASE box # 0
  BY <1>1, <1>2, <1>3, <1>5 DEF Sent
<1> QED
  BY <1>4, <1>5

LEMMA StoredTyped ==
  ASSUME TypeOK, NEW i \in instances
  PROVE  /\ Stored(i) \in Bytes /\ Stored(i).size = i.size /\ Stored(i).upload = i.upload
         /\ i.id \in Nat /\ i.size \in Nat /\ i.upload \in Nat
<1>1. i \in Instance
  BY DEF TypeOK
<1> QED
  BY <1>1 DEF Instance, Stored, Bytes

\* The JOIN reads the one instance with the id.
LEMMA BytesRead ==
  ASSUME UniqueOwners, NEW i \in instances
  PROVE  BytesOf(i.id) = Stored(i)
<1>1. InstanceOf(i.id) = i
  BY DEF InstanceOf, UniqueOwners
<1> QED
  BY <1>1 DEF BytesOf, Stored

LEMMA SourceRead ==
  ASSUME TypeOK, UniqueOwners, NEW s \in sources
  PROVE  \E i \in instances : i.id = s.inst /\ BytesOf(s.inst) = Stored(i)
<1>1. PICK i \in instances : i.id = s.inst
  BY DEF TypeOK
<1> QED
  BY <1>1, BytesRead

LEMMA RowsTyped ==
  ASSUME TypeOK
  PROVE  /\ \A s \in sources : s.id \in Nat /\ s.inst \in Nat /\ s.updated \in Nat
         /\ \A p \in scaled : p.inst \in Nat /\ p.source \in Nat /\ p.box \in Nat /\ p.used \in Nat
         /\ \A r \in itemPhotos : r.item \in Items /\ r.source \in Nat
         /\ \A i \in instances : i.id \in Nat /\ i.upload \in Nat /\ i.size \in Nat
<1>1. \A s \in sources : s.id \in Nat /\ s.inst \in Nat /\ s.updated \in Nat
  BY DEF TypeOK, Source
<1>2. \A p \in scaled : p.inst \in Nat /\ p.source \in Nat /\ p.box \in Nat /\ p.used \in Nat
  BY DEF TypeOK, Scaled
<1>3. \A r \in itemPhotos : r.item \in Items /\ r.source \in Nat
  BY DEF TypeOK
<1>4. \A i \in instances : i.id \in Nat /\ i.upload \in Nat /\ i.size \in Nat
  BY DEF TypeOK, Instance
<1> QED
  BY <1>1, <1>2, <1>3, <1>4

LEMMA TxTyped ==
  ASSUME TypeOK, NEW c \in Connections
  PROVE  /\ tx[c] \in Tx /\ tx[c].item \in Items /\ tx[c].source \in Nat /\ tx[c].row \in Nat
         /\ tx[c].listed \subseteq Nat /\ tx[c].box \in Nat /\ tx[c].bytes \in Bytes
         /\ tx[c].bytes.size \in Nat
<1>1. tx[c] \in Tx
  BY DEF TypeOK
<1> QED
  BY <1>1 DEF Tx, Bytes

LEMMA IdleTyped ==
  /\ Idle \in Tx /\ Idle.pc = "idle" /\ Idle.source = 0 /\ Idle.row = 0 /\ Idle.listed = {}
  /\ Idle.bytes \in Bytes /\ Idle.bytes.size = 0
  BY ImagesAssumption DEF Idle, Tx, Bytes

LEMMA UrlTyped ==
  ASSUME NEW u \in Urls
  PROVE  u[1] \in Items /\ u[2] \in Nat
<1>1. {0} \cup Boxes \subseteq Nat
  BY ImagesAssumption
<1>2. u[1] \in Items /\ u[2] \in {0} \cup Boxes
  BY DEF Urls
<1> QED
  BY <1>1, <1>2

\* The properties follow from the invariant.
LEMMA ServedFollows == ImagesInv => ServedIsCurrent
<1> SUFFICES ASSUME ImagesInv PROVE ServedIsCurrent
  OBVIOUS
<1>1. ASSUME NEW u \in Urls, NEW s \in SourceOf(u[1]), browser[u].etag = s.updated
      PROVE  browser[u].bytes = IF u[2] = 0 THEN BytesOf(s.inst)
                                ELSE ScaledBytes(BytesOf(s.inst), Clipped(u[2], MaxPublic))
  <2>1. s \in sources
    BY DEF SourceOf
  <2>2. PICK i \in instances : i.id = s.inst /\ BytesOf(s.inst) = Stored(i)
    BY <2>1, SourceRead DEF ImagesInv
  <2> QED
    BY <1>1, <2>1, <2>2 DEF ImagesInv, BrowserCurrent, Sent
<1> QED
  BY <1>1 DEF ServedIsCurrent, NotModifiedIsCurrent, ImagesInv

LEMMA ImagesInit == Init => ImagesInv
<1> SUFFICES ASSUME Init PROVE ImagesInv
  OBVIOUS
<1>1. \A c \in Connections : tx[c] = Idle
  BY DEF Init
<1>2. TypeOK
  <2>1. browser \in [Urls -> [etag : Nat, bytes : Bytes]]
    BY IdleTyped DEF Init
  <2>2. prune \in [Connections -> Prune]
    BY DEF Init, NoPrune, Prune
  <2> QED
    BY <2>1, <2>2, IdleTyped DEF Init, TypeOK
<1>3. UniqueOwners /\ Contents /\ BrowserCurrent /\ OrphansOnlyByOverlap
  BY DEF Init, UniqueOwners, Contents, BrowserCurrent, OrphansOnlyByOverlap
<1>4. Drawn /\ SizesWithinLimits
  BY IdleTyped, ImagesAssumption DEF Init, Drawn, SizesWithinLimits
<1>5. \A c \in Connections : TxCurrent(c)
  BY <1>1, IdleTyped, ImagesAssumption DEF Init, TxCurrent
<1> QED
  BY <1>2, <1>3, <1>4, <1>5 DEF ImagesInv

-------------------------------------------------------------------------------
(* Steps *)

\* A transaction reads.
LEMMA TxOnly ==
  ASSUME ImagesInv, NEW c \in Connections, NEW v \in Tx, tx' = [tx EXCEPT ![c] = v],
         UNCHANGED <<instances, sources, scaled, itemPhotos, clock, browser, raced>>, TxCurrent(c)',
         prune' \in [Connections -> Prune]
  PROVE  ImagesInv'
<1>1. /\ tx' \in [Connections -> Tx] /\ \A d \in Connections : d # c => tx'[d] = tx[d]
  BY DEF ImagesInv, TypeOK
<1>2. TypeOK'
  BY <1>1 DEF ImagesInv, TypeOK
<1>3. ASSUME NEW d \in Connections PROVE TxCurrent(d)'
  <2>1. CASE d # c
    BY <1>1, <2>1 DEF ImagesInv, TxCurrent
  <2> QED
    BY <2>1
<1>4. UniqueOwners' /\ Drawn' /\ Contents' /\ BrowserCurrent'
  BY DEF ImagesInv, UniqueOwners, Drawn, Contents, BrowserCurrent, Stored
<1>5. SizesWithinLimits' /\ OrphansOnlyByOverlap'
  BY DEF ImagesInv, SizesWithinLimits, OrphansOnlyByOverlap
<1> QED
  BY <1>2, <1>3, <1>4, <1>5 DEF ImagesInv

\* The browser keeps what it is sent, or what it has.
LEMMA AnswerKeeps ==
  ASSUME ImagesInv, NEW url \in Urls, NEW s \in sources, NEW i \in instances, i.id = s.inst,
         NEW bytes, bytes = Sent(Stored(i), url[2]), Answer(url, s, bytes),
         clock' \in Nat, clock' >= clock, sources' = sources,
         \A j \in instances' : j \in instances \/ j.id = clock + 1
  PROVE  /\ browser' \in [Urls -> [etag : Nat, bytes : Bytes]]
         /\ BrowserCurrent'
         /\ \A u \in Urls : browser'[u].etag <= clock'
         /\ \A u \in Urls : u[2] # 0 => browser'[u].bytes.size <= MaxPublic
<1>1. /\ Stored(i) \in Bytes /\ s.updated \in Nat /\ s.inst \in Nat /\ s.id \in Nat /\ url[2] \in Nat
      /\ s.updated = s.id /\ s.id <= clock /\ clock \in Nat
  BY StoredTyped, RowsTyped, UrlTyped DEF ImagesInv, Drawn, TypeOK
<1>2. bytes \in Bytes /\ (url[2] # 0 => bytes.size <= MaxPublic)
  BY <1>1, SentFits
<1>3. PICK b \in [etag : Nat, bytes : Bytes] :
        b = (IF browser[url].etag = s.updated THEN browser[url] ELSE [etag |-> s.updated, bytes |-> bytes])
  BY <1>1, <1>2 DEF ImagesInv, TypeOK
<1>4. browser' = [browser EXCEPT ![url] = b]
  BY <1>3 DEF Answer
<1>5. browser' \in [Urls -> [etag : Nat, bytes : Bytes]] /\ browser'[url] = b
      /\ \A u \in Urls : u # url => browser'[u] = browser[u]
  BY <1>3, <1>4 DEF ImagesInv, TypeOK
<1>6. b.etag = s.updated /\ b.bytes = bytes
  BY <1>3 DEF ImagesInv, BrowserCurrent
<1>7. ASSUME NEW u \in Urls PROVE browser'[u].etag <= clock' /\ browser[u].etag \in Nat
  <2>1. browser[u].etag <= clock /\ browser[u].etag \in Nat
    BY DEF ImagesInv, Drawn, TypeOK
  <2>2. CASE u = url
    BY <1>1, <1>5, <1>6, <2>1, <2>2
  <2>3. CASE u # url
    BY <1>1, <1>5, <2>1, <2>3
  <2> QED
    BY <2>2, <2>3
<1>8. ASSUME NEW u \in Urls, u[2] # 0 PROVE browser'[u].bytes.size <= MaxPublic
  BY <1>2, <1>5, <1>6, <1>8 DEF ImagesInv, SizesWithinLimits
<1>9. ASSUME NEW u \in Urls, NEW t \in sources', NEW j \in instances', j.id = t.inst,
             browser'[u].etag = t.updated
      PROVE  browser'[u].bytes = Sent(Stored(j), u[2])
  <2>1. t \in sources /\ t.inst \in Nat /\ t.id \in Nat /\ t.id <= clock /\ t.id = t.inst + 1 /\ t.updated = t.id
    BY <1>9, RowsTyped DEF ImagesInv, Drawn
  <2>2. t.inst # clock + 1
    BY <1>1, <2>1
  <2>3. j \in instances
    BY <1>9, <2>2
  <2>4. CASE u # url
    BY <1>5, <1>9, <2>1, <2>3, <2>4 DEF ImagesInv, BrowserCurrent
  <2>5. CASE u = url
    <3>1. t.id = s.id
      BY <1>1, <1>5, <1>6, <1>9, <2>1, <2>5
    <3>2. t = s
      BY <2>1, <3>1 DEF ImagesInv, UniqueOwners
    <3>3. j = i
      BY <1>9, <2>3, <3>2 DEF ImagesInv, UniqueOwners
    <3> QED
      BY <1>5, <1>6, <2>5, <3>3
  <2> QED
    BY <2>4, <2>5
<1>10. BrowserCurrent'
  BY <1>9 DEF BrowserCurrent, Stored, Sent
<1> QED
  BY <1>5, <1>7, <1>8, <1>10

LEMMA UrlOf ==
  ASSUME NEW i \in Items, NEW box \in {0} \cup Boxes
  PROVE  <<i, box>> \in Urls /\ <<i, box>>[1] = i /\ <<i, box>>[2] = box /\ box \in Nat
  BY ImagesAssumption DEF Urls

LEMMA SourceOfIsSource ==
  \A i \in Items : \A s \in SourceOf(i) : s \in sources /\ \E r \in itemPhotos : r.item = i /\ r.source = s.id
  BY DEF SourceOf

\* An answer that changes no row.
LEMMA BrowserOnly ==
  ASSUME ImagesInv, NEW url \in Urls, NEW s \in sources, NEW i \in instances, i.id = s.inst,
         NEW bytes, bytes = Sent(Stored(i), url[2]), Answer(url, s, bytes),
         UNCHANGED <<instances, sources, scaled, itemPhotos, tx, clock, prune, raced>>
  PROVE  ImagesInv'
<1>1. clock' \in Nat /\ clock' >= clock
  BY DEF ImagesInv, TypeOK
<1>2. /\ browser' \in [Urls -> [etag : Nat, bytes : Bytes]]
      /\ BrowserCurrent'
      /\ \A u \in Urls : browser'[u].etag <= clock'
      /\ \A u \in Urls : u[2] # 0 => browser'[u].bytes.size <= MaxPublic
  BY <1>1, AnswerKeeps
<1>3. TypeOK'
  BY <1>2 DEF ImagesInv, TypeOK
<1>4. UniqueOwners' /\ Drawn' /\ Contents'
  BY <1>2 DEF ImagesInv, UniqueOwners, Drawn, Contents, Stored
<1>5. \A c \in Connections : TxCurrent(c)'
  BY DEF ImagesInv, TxCurrent
<1>6. SizesWithinLimits' /\ OrphansOnlyByOverlap'
  BY <1>2 DEF ImagesInv, SizesWithinLimits, OrphansOnlyByOverlap
<1> QED
  BY <1>2, <1>3, <1>4, <1>5, <1>6 DEF ImagesInv

LEMMA GetPhotoKeeps ==
  ASSUME ImagesInv, NEW c \in Connections, NEW who, NEW item \in Items, GetPhoto(c, who, item)
  PROVE  ImagesInv'
<1>1. PICK s \in sources : Answer(<<item, 0>>, s, BytesOf(s.inst))
  BY DEF GetPhoto, SourceOf
<1>2. PICK i \in instances : i.id = s.inst /\ BytesOf(s.inst) = Stored(i)
  BY SourceRead DEF ImagesInv
<1>3. PICK url \in Urls : url = <<item, 0>> /\ url[2] = 0
  BY UrlOf
<1>4. BytesOf(s.inst) = Sent(Stored(i), url[2])
  BY <1>2, <1>3 DEF Sent
<1>5. UNCHANGED <<instances, sources, scaled, itemPhotos, tx, clock, prune, raced>>
  BY DEF GetPhoto
<1> QED
  BY <1>1, <1>2, <1>3, <1>4, <1>5, BrowserOnly

LEMMA ScaledVectorKeeps ==
  ASSUME ImagesInv, NEW c \in Connections, NEW who, NEW item \in Items, NEW request \in Boxes,
         ScaledVector(c, who, item, request)
  PROVE  ImagesInv'
<1>1. PICK s \in sources : BytesOf(s.inst).size = Vector /\ Answer(<<item, request>>, s, BytesOf(s.inst))
  BY DEF ScaledVector, SourceOf
<1>2. PICK i \in instances : i.id = s.inst /\ BytesOf(s.inst) = Stored(i)
  BY SourceRead DEF ImagesInv
<1>3. PICK url \in Urls : url = <<item, request>> /\ url[2] = request /\ request \in Nat
  BY UrlOf
<1>4. BytesOf(s.inst) = Sent(Stored(i), url[2])
  <2>1. Clipped(request, MaxPublic) \in Nat /\ request # 0
    BY <1>3, ClippedFits, ImagesAssumption
  <2>2. Stored(i) \in Bytes /\ Stored(i).size = Vector
    BY <1>1, <1>2, StoredTyped DEF ImagesInv
  <2> QED
    BY <1>2, <1>3, <2>1, <2>2, ScaledFits DEF Sent
<1>5. UNCHANGED <<instances, sources, scaled, itemPhotos, tx, clock, prune, raced>>
  BY DEF ScaledVector
<1> QED
  BY <1>1, <1>2, <1>3, <1>4, <1>5, BrowserOnly

\* A copy is as good as its source.
LEMMA ScaledHitKeeps ==
  ASSUME ImagesInv, NEW c \in Connections, NEW who, NEW item \in Items, NEW request \in Boxes,
         ScaledHit(c, who, item, request)
  PROVE  ImagesInv'
<1>1. PICK s \in sources, p \in scaled :
        /\ p.source = s.id /\ p.box = Clipped(request, MaxPublic)
        /\ scaled' = (scaled \ {p}) \cup {[p EXCEPT !.used = clock + 1]}
        /\ Answer(<<item, request>>, s, BytesOf(p.inst))
  BY DEF ScaledHit, SourceOf, CachedFor
<1>2. clock' = clock + 1 /\ clock \in Nat /\ UNCHANGED <<instances, sources, itemPhotos, tx, prune, raced>>
  BY DEF ScaledHit, ImagesInv, TypeOK
<1>3. PICK i \in instances : i.id = s.inst
  BY SourceRead DEF ImagesInv
<1>4. PICK j \in instances : j.id = p.inst
  BY DEF ImagesInv, TypeOK
<1>5. PICK url \in Urls : url = <<item, request>> /\ url[2] = request /\ request \in Nat /\ request # 0
  BY UrlOf, ImagesAssumption
<1>6. BytesOf(p.inst) = Sent(Stored(i), url[2])
  <2>1. BytesOf(p.inst) = Stored(j)
    BY <1>4, BytesRead DEF ImagesInv
  <2> QED
    BY <1>1, <1>3, <1>4, <1>5, <2>1 DEF ImagesInv, Contents, Sent
<1>7. /\ browser' \in [Urls -> [etag : Nat, bytes : Bytes]]
      /\ BrowserCurrent'
      /\ \A u \in Urls : browser'[u].etag <= clock'
      /\ \A u \in Urls : u[2] # 0 => browser'[u].bytes.size <= MaxPublic
  BY <1>1, <1>2, <1>3, <1>5, <1>6, AnswerKeeps
<1>8. p \in Scaled
  BY DEF ImagesInv, TypeOK
<1>9. PICK q \in Scaled : /\ q = [p EXCEPT !.used = clock + 1] /\ q.source = p.source /\ q.inst = p.inst
                          /\ q.box = p.box /\ q.used = clock + 1
  <2> DEFINE q == [p EXCEPT !.used = clock + 1]
  <2>1. q \in Scaled /\ q.source = p.source /\ q.inst = p.inst /\ q.box = p.box /\ q.used = clock + 1
    BY <1>2, <1>8 DEF Scaled
  <2> QED
    BY <2>1
<1>10. scaled' = (scaled \ {p}) \cup {q}
  BY <1>1, <1>9
<1>a. ASSUME NEW w \in scaled'
      PROVE  /\ w \in Scaled
             /\ \E x \in scaled : x.inst = w.inst /\ x.source = w.source /\ x.box = w.box
             /\ w # q => w \in scaled /\ w # p
  <2>1. w = q \/ (w \in scaled /\ w # p)
    BY <1>10
  <2>2. scaled \subseteq Scaled
    BY DEF ImagesInv, TypeOK
  <2> QED
    BY <1>9, <2>1, <2>2
<1>11. TypeOK'
  <2>1. \A w \in scaled' : (\E i1 \in instances : i1.id = w.inst) /\ \E s1 \in sources : s1.id = w.source
    BY <1>a DEF ImagesInv, TypeOK
  <2>2. scaled' \subseteq Scaled
    BY <1>a
  <2> QED
    BY <1>2, <1>7, <2>1, <2>2 DEF ImagesInv, TypeOK
<1>12. UniqueOwners'
  <2>1. ASSUME NEW w \in scaled', NEW x \in scaled', w.inst = x.inst PROVE w = x
    <3>1. \A y \in scaled : y.inst = q.inst => y = p
      BY <1>9 DEF ImagesInv, UniqueOwners
    <3> QED
      BY <1>a, <2>1, <3>1 DEF ImagesInv, UniqueOwners
  <2>2. \A w \in scaled', s1 \in sources : w.inst # s1.inst
    BY <1>a DEF ImagesInv, UniqueOwners
  <2> QED
    BY <1>2, <2>1, <2>2 DEF ImagesInv, UniqueOwners
<1>13. Drawn'
  <2>1. \A w \in scaled : w.used \in Nat /\ w.used <= clock
    BY RowsTyped DEF ImagesInv, Drawn
  <2>2. ASSUME NEW w \in scaled' PROVE w.used <= clock'
    <3>1. CASE w = q
      BY <1>2, <1>9, <3>1
    <3>2. CASE w \in scaled
      BY <1>2, <2>1, <3>2
    <3> QED
      BY <1>a, <3>1, <3>2
  <2>3. \A s1 \in sources : s1.id \in Nat /\ s1.id <= clock /\ s1.updated = s1.id /\ s1.id = s1.inst + 1
    BY RowsTyped DEF ImagesInv, Drawn
  <2>4. \A i1 \in instances : i1.id \in Nat /\ i1.id <= clock
    BY RowsTyped DEF ImagesInv, Drawn
  <2> QED
    BY <1>2, <1>7, <2>2, <2>3, <2>4 DEF Drawn
<1>14. Contents'
  <2>1. ASSUME NEW w \in scaled', NEW s1 \in sources, NEW i1 \in instances, NEW j1 \in instances,
               w.source = s1.id, i1.id = w.inst, j1.id = s1.inst
        PROVE  Stored(i1) = ScaledBytes(Stored(j1), w.box)
    <3>1. PICK x \in scaled : x.inst = w.inst /\ x.source = w.source /\ x.box = w.box
      BY <1>a
    <3>2. Stored(i1) = ScaledBytes(Stored(j1), x.box)
      BY <2>1, <3>1 DEF ImagesInv, Contents
    <3> QED
      BY <3>1, <3>2
  <2> QED
    BY <1>2, <2>1 DEF ImagesInv, Contents, Stored
<1>15. ASSUME NEW d \in Connections PROVE TxCurrent(d)'
  <2>1. tx[d].source \in Nat /\ tx[d].row \in Nat /\ tx[d].listed \subseteq Nat
    BY TxTyped DEF ImagesInv
  <2>2. TxCurrent(d)
    BY DEF ImagesInv
  <2>3. tx'[d].source <= clock' /\ tx'[d].row <= clock' /\ \A k \in tx'[d].listed : k <= clock'
    BY <1>2, <2>1, <2>2 DEF TxCurrent
  <2>4. \A w \in scaled' : w.inst \in tx[d].listed => \E x \in scaled : x.inst = w.inst /\ x.source = w.source
    BY <1>a
  <2> QED
    BY <1>2, <2>2, <2>3, <2>4 DEF TxCurrent
<1>16. SizesWithinLimits'
  BY <1>2, <1>7 DEF ImagesInv, SizesWithinLimits
<1>17. OrphansOnlyByOverlap'
  BY <1>2, <1>9, <1>10 DEF ImagesInv, OrphansOnlyByOverlap
<1> QED
  BY <1>7, <1>11, <1>12, <1>13, <1>14, <1>15, <1>16, <1>17 DEF ImagesInv

\* Copies go, with the bytes that only they own.
LEMMA DropKeeps ==
  ASSUME ImagesInv, NEW c \in Connections, DropPicked(c)
  PROVE  ImagesInv'
<1> DEFINE gone == scaled \ Visible(c)
<1>1. /\ scaled' = scaled \ gone /\ instances' \subseteq instances
      /\ \A i \in instances : i \in instances' <=> ~ \E p \in gone : p.inst = i.id
      /\ tx' = [tx EXCEPT ![c] = Idle] /\ prune' = [prune EXCEPT ![c] = NoPrune]
      /\ UNCHANGED <<sources, itemPhotos, clock, browser, raced>>
  BY DEF DropPicked
<1>a. gone \subseteq scaled
  OBVIOUS
<1> HIDE DEF gone
<1>b. /\ tx' \in [Connections -> Tx] /\ tx'[c] = Idle
      /\ \A d \in Connections : d # c => tx'[d] = tx[d]
  BY <1>1, IdleTyped DEF ImagesInv, TypeOK
<1>c. prune' \in [Connections -> Prune]
  BY <1>1 DEF ImagesInv, TypeOK, NoPrune, Prune
<1>2. TypeOK'
  <2>1. \A s \in sources : \E i \in instances' : i.id = s.inst
    BY <1>1, <1>a DEF ImagesInv, TypeOK, UniqueOwners
  <2>2. \A p \in scaled' : \E i \in instances' : i.id = p.inst
    BY <1>1, <1>a DEF ImagesInv, TypeOK, UniqueOwners
  <2> QED
    BY <1>1, <1>b, <1>c, <2>1, <2>2 DEF ImagesInv, TypeOK
<1>3. UniqueOwners' /\ Drawn' /\ Contents' /\ BrowserCurrent'
  BY <1>1 DEF ImagesInv, UniqueOwners, Drawn, Contents, BrowserCurrent, Stored
<1>4. ASSUME NEW d \in Connections PROVE TxCurrent(d)'
  <2>1. CASE d = c
    BY <1>1, <1>b, <2>1, IdleTyped, ImagesAssumption DEF TxCurrent, ImagesInv, TypeOK
  <2>2. CASE d # c
    BY <1>1, <1>b, <2>2 DEF ImagesInv, TxCurrent
  <2> QED
    BY <2>1, <2>2
<1>5. SizesWithinLimits'
  BY <1>1 DEF ImagesInv, SizesWithinLimits
<1>6. OrphansOnlyByOverlap'
  BY <1>1 DEF ImagesInv, OrphansOnlyByOverlap
<1> QED
  BY <1>2, <1>3, <1>4, <1>5, <1>6 DEF ImagesInv

\* A transaction begins, or looks a photo up.
LEMMA EnforceFits ==
  ASSUME NEW size \in Nat
  PROVE  EnforceMaxDimensions(size) \in Nat /\ EnforceMaxDimensions(size) <= MaxSource
  BY ClippedFits, ImagesAssumption DEF EnforceMaxDimensions, Vector

LEMMA SourceOwned ==
  ASSUME ImagesInv, NEW i \in Items, NEW s \in SourceOf(i)
  PROVE  /\ s \in sources /\ s.id \in Nat /\ s.id <= clock
         /\ \A r \in itemPhotos : r.source = s.id => r.item = i
<1>1. s \in sources /\ \E r \in itemPhotos : r.item = i /\ r.source = s.id
  BY SourceOfIsSource
<1> QED
  BY <1>1, RowsTyped DEF ImagesInv, Drawn, UniqueOwners

LEMMA FindPhotoKeeps ==
  ASSUME ImagesInv, NEW c \in Connections, NEW i \in Items, NEW s \in SourceOf(i),
         NEW then \in {"found", "foundOld"}, NEW bytes \in Bytes, bytes.size <= MaxSource,
         FindPhoto(c, i, s, then, bytes)
  PROVE  ImagesInv'
<1>1. /\ s.id \in Nat /\ s.id <= clock
      /\ \A r \in itemPhotos : r.source = s.id => r.item = i
  BY SourceOwned
<1>2. PICK v \in Tx : /\ v = [Idle EXCEPT !.pc = then, !.item = i, !.source = s.id, !.bytes = bytes]
                      /\ v.pc = then /\ v.item = i /\ v.source = s.id /\ v.row = 0 /\ v.listed = {}
                      /\ v.bytes = bytes
  <2> DEFINE v == [Idle EXCEPT !.pc = then, !.item = i, !.source = s.id, !.bytes = bytes]
  <2>1. /\ v \in Tx /\ v.pc = then /\ v.item = i /\ v.source = s.id /\ v.row = 0 /\ v.listed = {}
        /\ v.bytes = bytes
    BY <1>1 DEF Idle, Tx, Bytes
  <2> QED
    BY <2>1
<1>3. /\ tx' = [tx EXCEPT ![c] = v] /\ tx'[c] = v
      /\ UNCHANGED <<instances, sources, scaled, itemPhotos, clock, browser, raced>>
      /\ prune' \in [Connections -> Prune]
  BY <1>2 DEF FindPhoto, ImagesInv, TypeOK
<1>4. clock \in Nat /\ \A r \in itemPhotos : r.source \in Nat /\ \E t \in sources : t.id = r.source
  BY RowsTyped DEF ImagesInv, TypeOK
<1>5. \A r \in itemPhotos : r.source # 0
  BY <1>4, RowsTyped DEF ImagesInv, Drawn
<1>6. /\ tx'[c].pc = then /\ tx'[c].item = i /\ tx'[c].source = s.id /\ tx'[c].row = 0
      /\ tx'[c].listed = {} /\ tx'[c].bytes.size <= MaxSource
      /\ clock' = clock /\ itemPhotos' = itemPhotos
  BY <1>2, <1>3
<1>7. TxCurrent(c)'
  BY <1>1, <1>4, <1>5, <1>6 DEF TxCurrent
<1> QED
  BY <1>3, <1>7, TxOnly

LEMMA UploadKeeps ==
  ASSUME ImagesInv, NEW c \in Connections, NEW i \in Items, NEW type, NEW size \in Sizes, NEW valid,
         UploadAndAssociatePhoto(c, i, type, size, valid)
  PROVE  ImagesInv' \/ UNCHANGED vars
<1>1. PICK n \in Nat : n = EnforceMaxDimensions(IF type = "svg" THEN Vector ELSE size) /\ n <= MaxSource
  BY EnforceFits, ImagesAssumption DEF Vector
<1>2. PICK stored \in Bytes : stored = [upload |-> 0, size |-> n] /\ stored.size <= MaxSource
  <2>1. [upload |-> 0, size |-> n] \in Bytes /\ [upload |-> 0, size |-> n].size <= MaxSource
    BY <1>1 DEF Bytes
  <2> QED
    BY <2>1
<1>3. ASSUME SourceOf(i) = {},
             tx' = [tx EXCEPT ![c] = [Idle EXCEPT !.pc = "replacing", !.item = i, !.bytes = stored]],
             UNCHANGED <<instances, sources, scaled, itemPhotos, clock, browser, prune, raced>>
      PROVE  ImagesInv'
  <2>1. PICK v \in Tx : /\ v = [Idle EXCEPT !.pc = "replacing", !.item = i, !.bytes = stored]
                        /\ v.pc = "replacing" /\ v.source = 0 /\ v.row = 0 /\ v.listed = {}
                        /\ v.bytes = stored
    <3> DEFINE v == [Idle EXCEPT !.pc = "replacing", !.item = i, !.bytes = stored]
    <3>1. v \in Tx /\ v.pc = "replacing" /\ v.source = 0 /\ v.row = 0 /\ v.listed = {} /\ v.bytes = stored
      BY DEF Idle, Tx, Bytes
    <3> QED
      BY <3>1
  <2>2. tx' = [tx EXCEPT ![c] = v] /\ tx'[c] = v
    BY <1>3, <2>1 DEF ImagesInv, TypeOK
  <2>3. clock \in Nat /\ \A t \in sources : t.id # 0
    BY RowsTyped DEF ImagesInv, TypeOK, Drawn
  <2>4. \A r \in itemPhotos : r.source # 0
    BY <2>3 DEF ImagesInv, TypeOK
  <2>5. /\ tx'[c].pc = "replacing" /\ tx'[c].source = 0 /\ tx'[c].row = 0 /\ tx'[c].listed = {}
        /\ tx'[c].bytes.size <= MaxSource
        /\ clock' = clock /\ itemPhotos' = itemPhotos /\ sources' = sources
    BY <1>2, <1>3, <2>1, <2>2
  <2>6. TxCurrent(c)'
    BY <2>3, <2>4, <2>5 DEF TxCurrent
  <2>7. prune' \in [Connections -> Prune]
    BY <1>3 DEF ImagesInv, TypeOK
  <2> QED
    BY <1>3, <2>2, <2>6, <2>7, TxOnly
<1>4. ASSUME NEW s \in SourceOf(i), FindPhoto(c, i, s, "foundOld", stored) PROVE ImagesInv'
  BY <1>2, <1>4, FindPhotoKeeps
<1> QED
  BY <1>1, <1>2, <1>3, <1>4 DEF UploadAndAssociatePhoto, Refused

LEMMA DeletePhotoKeeps ==
  ASSUME ImagesInv, NEW c \in Connections, NEW who, NEW i \in Items, DeletePhoto(c, who, i)
  PROVE  ImagesInv' \/ UNCHANGED vars
<1>1. Idle.bytes \in Bytes /\ Idle.bytes.size <= MaxSource
  BY IdleTyped, ImagesAssumption
<1>2. ASSUME NEW s \in SourceOf(i), FindPhoto(c, i, s, "found", Idle.bytes) PROVE ImagesInv'
  BY <1>1, <1>2, FindPhotoKeeps
<1> QED
  BY <1>2 DEF DeletePhoto, Refused

LEMMA ScaledMissKeeps ==
  ASSUME ImagesInv, NEW c \in Connections, NEW who, NEW item \in Items, NEW request \in Boxes,
         ScaledMiss(c, who, item, request)
  PROVE  ImagesInv'
<1>1. PICK s \in SourceOf(item) :
        tx' = [tx EXCEPT ![c] = [Idle EXCEPT !.pc = "resized", !.item = item, !.source = s.id,
                 !.box = request, !.bytes = ScaledBytes(BytesOf(s.inst), Clipped(request, MaxPublic))]]
  BY DEF ScaledMiss
<1>2. s \in sources /\ s.id \in Nat /\ s.id <= clock /\ clock \in Nat
  BY SourceOwned DEF ImagesInv, TypeOK
<1>3. PICK i \in instances : i.id = s.inst /\ BytesOf(s.inst) = Stored(i)
  BY <1>2, SourceRead DEF ImagesInv
<1>4. request \in Nat /\ request # 0
  BY ImagesAssumption
<1>5. PICK b \in Bytes : b = Sent(Stored(i), request) /\ b.size <= i.size
  BY <1>4, StoredTyped, SentFits DEF ImagesInv
<1>6. b = ScaledBytes(BytesOf(s.inst), Clipped(request, MaxPublic))
  BY <1>3, <1>4, <1>5 DEF Sent
<1>7. b.size <= MaxSource
  <2>1. i.size <= MaxSource /\ i.size \in Nat /\ b.size \in Nat /\ MaxSource \in Nat
    BY StoredTyped, ImagesAssumption DEF ImagesInv, SizesWithinLimits, Bytes
  <2> QED
    BY <1>5, <2>1
<1>8. PICK v \in Tx : /\ v = [Idle EXCEPT !.pc = "resized", !.item = item, !.source = s.id,
                                        !.box = request, !.bytes = b]
                      /\ v.pc = "resized" /\ v.source = s.id /\ v.row = 0 /\ v.listed = {}
                      /\ v.bytes = b /\ v.box = request
  <2> DEFINE v == [Idle EXCEPT !.pc = "resized", !.item = item, !.source = s.id,
                               !.box = request, !.bytes = b]
  <2>1. /\ v \in Tx /\ v.pc = "resized" /\ v.source = s.id /\ v.row = 0 /\ v.listed = {}
        /\ v.bytes = b /\ v.box = request
    BY <1>2, <1>4 DEF Idle, Tx, Bytes
  <2> QED
    BY <2>1
<1>9. /\ tx' = [tx EXCEPT ![c] = v] /\ tx'[c] = v
      /\ UNCHANGED <<instances, sources, scaled, itemPhotos, clock, browser, raced>>
      /\ prune' \in [Connections -> Prune]
  BY <1>1, <1>6, <1>8 DEF ScaledMiss, ImagesInv, TypeOK
<1>10. ASSUME NEW t \in sources, NEW j \in instances, t.id = s.id, j.id = t.inst
       PROVE  b = Sent(Stored(j), request)
  <2>1. t = s
    BY <1>2, <1>10 DEF ImagesInv, UniqueOwners
  <2>2. j = i
    BY <1>3, <1>10, <2>1 DEF ImagesInv, UniqueOwners
  <2> QED
    BY <1>5, <2>2
<1>11. /\ tx'[c].pc = "resized" /\ tx'[c].source = s.id /\ tx'[c].row = 0 /\ tx'[c].listed = {}
       /\ tx'[c].bytes = b /\ tx'[c].box = request
       /\ clock' = clock /\ sources' = sources /\ instances' = instances
  BY <1>8, <1>9
<1>12. TxCurrent(c)'
  BY <1>2, <1>7, <1>10, <1>11 DEF TxCurrent, Stored
<1> QED
  BY <1>9, <1>12, TxOnly

\* Every owner's bytes were there before the next id.
LEMMA IdsDrawn ==
  ASSUME ImagesInv
  PROVE  /\ clock \in Nat
         /\ \A s \in sources : s.id \in Nat /\ s.inst \in Nat /\ s.id <= clock /\ s.inst <= clock
                               /\ s.id # 0 /\ s.updated = s.id /\ s.id = s.inst + 1
         /\ \A p \in scaled : p.inst \in Nat /\ p.source \in Nat /\ p.inst <= clock /\ p.source <= clock
         /\ \A r \in itemPhotos : r.source \in Nat /\ r.source <= clock /\ r.source # 0
         /\ \A i \in instances : i.id \in Nat /\ i.id <= clock
<1>1. clock \in Nat
  BY DEF ImagesInv, TypeOK
<1>2. \A i \in instances : i.id \in Nat /\ i.id <= clock
  BY RowsTyped DEF ImagesInv, Drawn
<1>3. \A s \in sources : s.id \in Nat /\ s.inst \in Nat /\ s.id <= clock /\ s.inst <= clock
                         /\ s.id # 0 /\ s.updated = s.id /\ s.id = s.inst + 1
  BY <1>1, RowsTyped DEF ImagesInv, Drawn
<1>4. ASSUME NEW p \in scaled
      PROVE  p.inst \in Nat /\ p.source \in Nat /\ p.inst <= clock /\ p.source <= clock
  <2>1. (\E i \in instances : i.id = p.inst) /\ (\E s \in sources : s.id = p.source)
    BY DEF ImagesInv, TypeOK
  <2> QED
    BY <1>2, <1>3, <2>1
<1>5. ASSUME NEW r \in itemPhotos PROVE r.source \in Nat /\ r.source <= clock /\ r.source # 0
  <2>1. \E s \in sources : s.id = r.source
    BY DEF ImagesInv, TypeOK
  <2> QED
    BY <1>3, <2>1
<1> QED
  BY <1>1, <1>2, <1>3, <1>4, <1>5

LEMMA IdleKeeps ==
  ASSUME ImagesInv, NEW c \in Connections, tx' = [tx EXCEPT ![c] = Idle],
         UNCHANGED <<instances, sources, scaled, itemPhotos, clock, browser, prune, raced>>
  PROVE  ImagesInv'
<1>1. tx'[c] = Idle /\ clock' = clock /\ clock \in Nat
  BY DEF ImagesInv, TypeOK
<1>2. TxCurrent(c)'
  BY <1>1, IdleTyped, ImagesAssumption DEF TxCurrent
<1>3. prune' \in [Connections -> Prune]
  BY DEF ImagesInv, TypeOK
<1> QED
  BY <1>2, <1>3, IdleTyped, TxOnly

\* A pruning goes on to another of its steps.
LEMMA PruningKeeps ==
  ASSUME ImagesInv, NEW c \in Connections, NEW v \in Tx, tx' = [tx EXCEPT ![c] = v],
         v.pc \in {"pruning", "shrinking", "picking"},
         v.source <= clock, v.row <= clock, v.bytes.size <= MaxSource, \A k \in v.listed : k <= clock,
         UNCHANGED <<instances, sources, scaled, itemPhotos, clock, browser, raced>>,
         prune' \in [Connections -> Prune]
  PROVE  ImagesInv'
<1>1. tx'[c] = v
  BY DEF ImagesInv, TypeOK
<1>2. TxCurrent(c)'
  BY <1>1 DEF TxCurrent
<1> QED
  BY <1>2, TxOnly

LEMMA PruningBegins ==
  ASSUME ImagesInv, NEW c \in Connections, NEW pc \in {"pruning", "shrinking"},
         tx' = [tx EXCEPT ![c] = [Idle EXCEPT !.pc = pc]],
         UNCHANGED <<instances, sources, scaled, itemPhotos, clock, browser, raced>>,
         prune' \in [Connections -> Prune]
  PROVE  ImagesInv'
<1>1. PICK v \in Tx : /\ v = [Idle EXCEPT !.pc = pc] /\ v.pc = pc /\ v.source = 0 /\ v.row = 0
                      /\ v.listed = {} /\ v.bytes.size = 0
  <2> DEFINE v == [Idle EXCEPT !.pc = pc]
  <2>1. v \in Tx /\ v.pc = pc /\ v.source = 0 /\ v.row = 0 /\ v.listed = {} /\ v.bytes.size = 0
    BY ImagesAssumption DEF Idle, Tx, Bytes
  <2> QED
    BY <2>1
<1>2. clock \in Nat /\ MaxSource \in Nat
  BY ImagesAssumption DEF ImagesInv, TypeOK
<1>3. /\ v.source <= clock /\ v.row <= clock /\ v.bytes.size <= MaxSource
      /\ \A k \in v.listed : k <= clock
  BY <1>1, <1>2
<1>4. tx' = [tx EXCEPT ![c] = v] /\ v.pc \in {"pruning", "shrinking", "picking"}
  BY <1>1
<1> QED
  BY <1>3, <1>4, PruningKeeps

LEMMA PruningContinues ==
  ASSUME ImagesInv, NEW c \in Connections, NEW pc \in {"shrinking", "picking"},
         tx' = [tx EXCEPT ![c].pc = pc],
         UNCHANGED <<instances, sources, scaled, itemPhotos, clock, browser, raced>>,
         prune' \in [Connections -> Prune]
  PROVE  ImagesInv'
<1>1. tx[c] \in Tx /\ TxCurrent(c)
  BY DEF ImagesInv, TypeOK
<1>2. PICK v \in Tx : /\ v = [tx[c] EXCEPT !.pc = pc] /\ v.pc = pc /\ v.source = tx[c].source
                      /\ v.row = tx[c].row /\ v.listed = tx[c].listed /\ v.bytes = tx[c].bytes
  <2> DEFINE v == [tx[c] EXCEPT !.pc = pc]
  <2>1. /\ v \in Tx /\ v.pc = pc /\ v.source = tx[c].source /\ v.row = tx[c].row
        /\ v.listed = tx[c].listed /\ v.bytes = tx[c].bytes
    BY <1>1 DEF Tx
  <2> QED
    BY <2>1
<1>3. tx' = [tx EXCEPT ![c] = v]
  BY <1>2 DEF ImagesInv, TypeOK
<1>4. /\ v.source <= clock /\ v.row <= clock /\ v.bytes.size <= MaxSource
      /\ \A k \in v.listed : k <= clock /\ v.pc \in {"pruning", "shrinking", "picking"}
  BY <1>1, <1>2 DEF TxCurrent
<1> QED
  BY <1>2, <1>3, <1>4, PruningKeeps

LEMMA PrunesTyped ==
  ASSUME ImagesInv, NEW c \in Connections, NEW picked \in SUBSET Scaled, NEW target \in Nat,
         NEW seen \in SUBSET Nat,
         prune' = [prune EXCEPT ![c] = [picked |-> picked, target |-> target, seen |-> seen]]
  PROVE  prune' \in [Connections -> Prune]
  BY DEF ImagesInv, TypeOK, Prune

LEMMA PruneRead ==
  ASSUME ImagesInv, NEW c \in Connections
  PROVE  /\ scaled \subseteq Scaled /\ Ids(scaled) \in SUBSET Nat
         /\ prune[c].picked \in SUBSET Scaled /\ prune[c].target \in Nat /\ prune[c].seen \in SUBSET Nat
         /\ prune[c] = [picked |-> prune[c].picked, target |-> prune[c].target, seen |-> prune[c].seen]
  BY DEF ImagesInv, TypeOK, Prune, Ids, Scaled

LEMMA ListOlderThanKeeps ==
  ASSUME ImagesInv, NEW c \in Connections, NEW cutoff, ListOlderThan(c, cutoff)
  PROVE  ImagesInv'
<1>1. {p \in scaled : p.used < cutoff} \in SUBSET Scaled /\ Ids(scaled) \in SUBSET Nat /\ 0 \in Nat
  BY PruneRead
<1>2. prune' \in [Connections -> Prune]
  BY <1>1, PrunesTyped DEF ListOlderThan
<1> QED
  BY <1>2, PruningBegins DEF ListOlderThan

LEMMA StartShrinkingKeeps ==
  ASSUME ImagesInv, NEW c \in Connections, NEW target \in Boxes, StartShrinking(c, target)
  PROVE  ImagesInv'
<1>1. {} \in SUBSET Scaled /\ Ids(scaled) \in SUBSET Nat /\ target \in Nat
  BY PruneRead, ImagesAssumption
<1>2. prune' \in [Connections -> Prune]
  BY <1>1, PrunesTyped DEF StartShrinking
<1> QED
  BY <1>2, PruningBegins DEF StartShrinking

LEMMA MeasureStorageKeeps ==
  ASSUME ImagesInv, NEW c \in Connections, MeasureStorage(c)
  PROVE  ImagesInv'
<1>1. CASE DropPicked(c)
  BY <1>1, DropKeeps
<1>2. ASSUME tx' = [tx EXCEPT ![c].pc = "picking"],
             UNCHANGED <<instances, sources, scaled, itemPhotos, clock, browser, prune, raced>>
      PROVE  ImagesInv'
  <2>1. prune' \in [Connections -> Prune]
    BY <1>2 DEF ImagesInv, TypeOK
  <2> QED
    BY <1>2, <2>1, PruningContinues
<1> QED
  BY <1>1, <1>2 DEF MeasureStorage

\* The picks so far and the copy unused for longest.
LEMMA PickOldestPicks ==
  ASSUME ImagesInv, NEW c \in Connections, NEW p \in scaled,
         prune' = [prune EXCEPT ![c].picked = @ \cup {p}]
  PROVE  /\ prune' \in [Connections -> Prune]
         /\ prune'[c].picked = prune[c].picked \cup {p} /\ prune'[c].seen = prune[c].seen
         /\ \A d \in Connections : d # c => prune'[d] = prune[d]
<1>1. p \in Scaled /\ prune[c] \in Prune
  BY DEF ImagesInv, TypeOK
<1> QED
  BY <1>1 DEF ImagesInv, TypeOK, Prune

LEMMA PickOldestKeeps ==
  ASSUME ImagesInv, NEW c \in Connections, PickOldest(c)
  PROVE  ImagesInv'
<1>1. CASE DropPicked(c)
  BY <1>1, DropKeeps
<1>2. ASSUME NEW p \in Visible(c), prune' = [prune EXCEPT ![c].picked = @ \cup {p}],
             tx' = [tx EXCEPT ![c].pc = "shrinking"],
             UNCHANGED <<instances, sources, scaled, itemPhotos, clock, browser, raced>>
      PROVE  ImagesInv'
  <2>1. prune' \in [Connections -> Prune]
    BY <1>2, PickOldestPicks DEF Visible
  <2> QED
    BY <1>2, <2>1, PruningContinues
<1> QED
  BY <1>1, <1>2 DEF PickOldest

\* What the cascade is to delete is listed.
LEMMA DeleteAssociationKeeps ==
  ASSUME ImagesInv, NEW c \in Connections, DeleteAssociation(c)
  PROVE  ImagesInv'
<1> DEFINE listed == {p.inst : p \in {q \in scaled : q.source = tx[c].source}}
                        \cup {s.inst : s \in {q \in sources : q.id = tx[c].source}}
<1>1. PICK row : /\ row = 0 \/ \E r \in itemPhotos : r.item = tx[c].item /\ r.source = row
                 /\ tx' = [tx EXCEPT ![c].pc = IF @ = "found" THEN "deleting" ELSE "replacing",
                                     ![c].row = row, ![c].listed = listed]
  <2>1. PICK row \in {r.source : r \in Rows(tx[c].item)} \cup
                     (IF \E r \in Rows(tx[c].item) : r.source = tx[c].source THEN {} ELSE {0}) :
          tx' = [tx EXCEPT ![c].pc = IF @ = "found" THEN "deleting" ELSE "replacing",
                           ![c].row = row, ![c].listed = listed]
    BY DEF DeleteAssociation
  <2>2. row = 0 \/ row \in {r.source : r \in Rows(tx[c].item)}
    OBVIOUS
  <2> HIDE DEF listed
  <2> QED
    BY <2>1, <2>2 DEF Rows
<1>2. PICK item \in Items, source \in Nat, bytes \in Bytes, box \in Nat :
        item = tx[c].item /\ source = tx[c].source /\ bytes = tx[c].bytes /\ box = tx[c].box
  BY TxTyped DEF ImagesInv
<1>3. row \in Nat /\ row <= clock /\ clock \in Nat
  BY <1>1, IdsDrawn
<1>4. ASSUME NEW k \in listed PROVE k \in Nat /\ k <= clock
  BY IdsDrawn
<1>5. PICK v \in Tx : /\ tx' = [tx EXCEPT ![c] = v] /\ tx'[c] = v
                      /\ v.pc \in {"deleting", "replacing"} /\ v.item = item /\ v.source = source
                      /\ v.row = row /\ v.listed = listed /\ v.bytes = bytes
  <2> DEFINE pc == IF tx[c].pc = "found" THEN "deleting" ELSE "replacing"
             v == [tx[c] EXCEPT !.pc = pc, !.row = row, !.listed = listed]
  <2>1. tx[c] \in Tx /\ tx \in [Connections -> Tx]
    BY DEF ImagesInv, TypeOK
  <2>2. listed \in SUBSET Nat
    BY <1>4
  <2>3. tx' = [tx EXCEPT ![c] = v]
    BY <1>1, <2>1
  <2>4. tx'[c] = v
    BY <2>1, <2>3
  <2> HIDE DEF listed
  <2>5. /\ v \in Tx /\ v.pc \in {"deleting", "replacing"} /\ v.item = item /\ v.source = source
        /\ v.row = row /\ v.listed = listed /\ v.bytes = bytes
    BY <1>2, <1>3, <2>1, <2>2 DEF Tx
  <2> QED
    BY <2>3, <2>4, <2>5
<1>6. /\ UNCHANGED <<instances, sources, scaled, itemPhotos, clock, browser, raced>>
      /\ prune' \in [Connections -> Prune]
  BY DEF DeleteAssociation, ImagesInv, TypeOK
<1>7. source <= clock /\ bytes.size <= MaxSource
      /\ \A r \in itemPhotos : r.source = source => r.item = item
  BY <1>2 DEF ImagesInv, TxCurrent, DeleteAssociation
<1>8. \A r \in itemPhotos : r.source = row => r.item = item
  BY <1>1, <1>2, IdsDrawn DEF ImagesInv, UniqueOwners
<1>9. ASSUME NEW s \in sources PROVE s.id = source <=> s.inst \in listed
  <2>1. ASSUME s.inst \in listed PROVE s.id = source
    <3>1. PICK t \in sources : t.id = source /\ t.inst = s.inst
      BY <1>2, <2>1 DEF ImagesInv, UniqueOwners
    <3> QED
      BY <3>1, IdsDrawn
  <2> QED
    BY <1>2, <2>1
<1>10. ASSUME NEW p \in scaled, p.inst \in listed PROVE p.source = source
  BY <1>2, <1>10 DEF ImagesInv, UniqueOwners
<1> HIDE DEF listed
<1>11. /\ tx'[c].pc \in {"deleting", "replacing"} /\ tx'[c].item = item /\ tx'[c].source = source
       /\ tx'[c].row = row /\ tx'[c].listed = listed /\ tx'[c].bytes = bytes
       /\ clock' = clock /\ itemPhotos' = itemPhotos /\ sources' = sources /\ scaled' = scaled
  BY <1>5, <1>6
<1>12. TxCurrent(c)'
  BY <1>3, <1>4, <1>7, <1>8, <1>9, <1>10, <1>11 DEF TxCurrent
<1> QED
  BY <1>5, <1>6, <1>12, TxOnly

\* The copy is inserted and sent, if its source is still there.
LEMMA CommitScaledKeeps ==
  ASSUME ImagesInv, NEW c \in Connections, CommitScaled(c)
  PROVE  ImagesInv'
<1>1. CASE UNCHANGED <<instances, sources, scaled, itemPhotos, clock, browser>>
  BY <1>1, IdleKeeps DEF CommitScaled
<1>2. ASSUME NEW s \in sources, s.id = tx[c].source,
             instances' = instances \cup
               {[id |-> clock + 1, upload |-> tx[c].bytes.upload, size |-> tx[c].bytes.size]},
             scaled' = scaled \cup
               {[id |-> clock + 2, source |-> s.id, inst |-> clock + 1,
                 box |-> Clipped(tx[c].box, MaxPublic), used |-> clock + 2]},
             clock' = clock + 2, Answer(<<tx[c].item, tx[c].box>>, s, tx[c].bytes),
             UNCHANGED <<sources, itemPhotos>>
      PROVE  ImagesInv'
  <2>1. PICK item \in Items, bytes \in Bytes, box \in Boxes :
          item = tx[c].item /\ bytes = tx[c].bytes /\ box = tx[c].box
    BY TxTyped DEF ImagesInv, TxCurrent, CommitScaled
  <2>2. bytes.size \in Nat /\ bytes.upload \in Nat /\ bytes.size <= MaxSource
    BY <2>1 DEF Bytes, ImagesInv, TxCurrent
  <2>3. box \in Nat /\ box # 0
    BY ImagesAssumption
  <2>4. PICK i \in instances : i.id = s.inst
    BY SourceRead DEF ImagesInv
  <2>5. bytes = Sent(Stored(i), box)
    BY <1>2, <2>1, <2>4 DEF ImagesInv, TxCurrent, CommitScaled
  <2>6. PICK k \in Nat : k = Clipped(box, MaxPublic)
    BY <2>3, ClippedFits, ImagesAssumption
  <2>7. bytes = ScaledBytes(Stored(i), k)
    BY <2>3, <2>5, <2>6 DEF Sent
  <2>8. clock \in Nat /\ s.id \in Nat /\ s.inst \in Nat
    BY IdsDrawn
  <2>9. PICK n \in Instance : /\ n = [id |-> clock + 1, upload |-> bytes.upload, size |-> bytes.size]
                              /\ n.id = clock + 1 /\ n.size = bytes.size /\ Stored(n) = bytes
    <3> DEFINE n == [id |-> clock + 1, upload |-> bytes.upload, size |-> bytes.size]
    <3>1. n \in Instance /\ n.id = clock + 1 /\ n.size = bytes.size /\ n.upload = bytes.upload
      BY <2>2, <2>8 DEF Instance
    <3>2. Stored(n) = bytes
      BY <2>2, <3>1 DEF Stored, Bytes
    <3> QED
      BY <3>1, <3>2
  <2>10. PICK q \in Scaled : /\ q = [id |-> clock + 2, source |-> s.id, inst |-> clock + 1, box |-> k,
                                     used |-> clock + 2]
                             /\ q.source = s.id /\ q.inst = clock + 1 /\ q.box = k /\ q.used = clock + 2
    <3> DEFINE q == [id |-> clock + 2, source |-> s.id, inst |-> clock + 1, box |-> k, used |-> clock + 2]
    <3>1. q \in Scaled /\ q.source = s.id /\ q.inst = clock + 1 /\ q.box = k /\ q.used = clock + 2
      BY <2>6, <2>8 DEF Scaled
    <3> QED
      BY <3>1
  <2>11. /\ instances' = instances \cup {n} /\ scaled' = scaled \cup {q} /\ clock' = clock + 2
         /\ tx' = [tx EXCEPT ![c] = Idle] /\ UNCHANGED <<sources, itemPhotos, prune, raced>>
    BY <1>2, <2>1, <2>6, <2>9, <2>10 DEF CommitScaled
  <2>12. PICK url \in Urls : url = <<item, box>> /\ url[2] = box
    BY UrlOf
  <2>13. Answer(url, s, bytes)
    BY <1>2, <2>1, <2>12
  <2>14. /\ browser' \in [Urls -> [etag : Nat, bytes : Bytes]]
         /\ BrowserCurrent'
         /\ \A u \in Urls : browser'[u].etag <= clock'
         /\ \A u \in Urls : u[2] # 0 => browser'[u].bytes.size <= MaxPublic
    <3>1. clock' \in Nat /\ clock' >= clock /\ sources' = sources
      BY <2>8, <2>11
    <3>2. \A j \in instances' : j \in instances \/ j.id = clock + 1
      BY <2>9, <2>11
    <3>3. bytes = Sent(Stored(i), url[2])
      BY <2>5, <2>12
    <3> QED
      BY <2>4, <2>13, <3>1, <3>2, <3>3, AnswerKeeps
  <2>15. /\ tx' \in [Connections -> Tx] /\ tx'[c] = Idle
         /\ \A d \in Connections : d # c => tx'[d] = tx[d]
    BY <2>11, IdleTyped DEF ImagesInv, TypeOK
  <2>16. TypeOK'
    <3>1. instances' \subseteq Instance /\ scaled' \subseteq Scaled
      BY <2>9, <2>10, <2>11 DEF ImagesInv, TypeOK
    <3>2. \A p \in scaled' : (\E j \in instances' : j.id = p.inst) /\ \E t \in sources : t.id = p.source
      BY <2>9, <2>10, <2>11 DEF ImagesInv, TypeOK
    <3>3. \A t \in sources : \E j \in instances' : j.id = t.inst
      BY <2>11 DEF ImagesInv, TypeOK
    <3> QED
      BY <2>8, <2>11, <2>14, <2>15, <3>1, <3>2, <3>3 DEF ImagesInv, TypeOK
  <2>17. UniqueOwners'
    <3>1. \A j1, j2 \in instances' : j1.id = j2.id => j1 = j2
      BY <2>9, <2>11, IdsDrawn DEF ImagesInv, UniqueOwners
    <3>2. \A p1, p2 \in scaled' : p1.inst = p2.inst => p1 = p2
      BY <2>10, <2>11, IdsDrawn DEF ImagesInv, UniqueOwners
    <3>3. \A p \in scaled', t \in sources : p.inst # t.inst
      BY <2>10, <2>11, IdsDrawn DEF ImagesInv, UniqueOwners
    <3> QED
      BY <2>11, <3>1, <3>2, <3>3 DEF ImagesInv, UniqueOwners
  <2>18. Drawn'
    <3>1. \A j \in instances' : j.id <= clock'
      BY <2>9, <2>11, IdsDrawn
    <3>2. \A t \in sources : t.id <= clock' /\ t.updated = t.id /\ t.id = t.inst + 1
      BY <2>11, IdsDrawn
    <3>3. \A p \in scaled : p.used \in Nat /\ p.used <= clock
      BY RowsTyped DEF ImagesInv, Drawn
    <3>4. \A p \in scaled' : p.used <= clock'
      BY <2>8, <2>10, <2>11, <3>3
    <3> QED
      BY <2>11, <2>14, <3>1, <3>2, <3>4 DEF Drawn
  <2>19. Contents'
    <3>1. ASSUME NEW t \in sources, NEW j \in instances', j.id = t.inst
          PROVE  j \in instances
      <4>1. t.inst \in Nat /\ t.inst <= clock /\ clock \in Nat
        BY IdsDrawn
      <4> QED
        BY <2>9, <2>11, <3>1, <4>1
    <3>2. ASSUME NEW p \in scaled', NEW t \in sources, NEW j1 \in instances', NEW j2 \in instances',
                 p.source = t.id, j1.id = p.inst, j2.id = t.inst
          PROVE  Stored(j1) = ScaledBytes(Stored(j2), p.box)
      <4>1. j2 \in instances
        BY <3>1, <3>2
      <4>2. CASE p = q
        <5>1. t = s
          BY <2>10, <3>2, <4>2 DEF ImagesInv, UniqueOwners
        <5>2. j2 = i
          BY <2>4, <3>2, <4>1, <5>1 DEF ImagesInv, UniqueOwners
        <5>3. j1 = n
          BY <2>9, <2>10, <2>11, <3>2, <4>2, IdsDrawn
        <5> QED
          BY <2>7, <2>9, <2>10, <4>2, <5>2, <5>3
      <4>3. CASE p \in scaled
        <5>1. p.inst \in Nat /\ p.inst <= clock /\ clock \in Nat
          BY <4>3, IdsDrawn
        <5>2. j1 \in instances
          BY <2>9, <2>11, <3>2, <5>1
        <5> QED
          BY <3>2, <4>1, <4>3, <5>2 DEF ImagesInv, Contents
      <4> QED
        BY <2>11, <4>2, <4>3
    <3>3. \A t \in sources, j \in instances' : j.id = t.inst => j.upload = j.id
      BY <3>1 DEF ImagesInv, Contents
    <3> QED
      BY <2>11, <3>2, <3>3 DEF Contents, Stored
  <2>20. ASSUME NEW d \in Connections PROVE TxCurrent(d)'
    <3>1. CASE d = c
      BY <2>8, <2>11, <2>15, <3>1, IdleTyped, ImagesAssumption DEF TxCurrent
    <3>2. CASE d # c
      <4>1. tx[d].source \in Nat /\ tx[d].row \in Nat /\ tx[d].listed \subseteq Nat
        BY TxTyped DEF ImagesInv
      <4>2. TxCurrent(d) /\ tx'[d] = tx[d]
        BY <2>15, <3>2 DEF ImagesInv
      <4>3. tx[d].source <= clock' /\ tx[d].row <= clock' /\ \A m \in tx[d].listed : m <= clock'
        BY <2>8, <2>11, <4>1, <4>2 DEF TxCurrent
      <4>4. clock + 1 \notin tx[d].listed
        BY <2>8, <4>1, <4>2 DEF TxCurrent
      <4>5. ASSUME NEW t \in sources, NEW j \in instances', j.id = t.inst
            PROVE  j \in instances
        <5>1. t.inst \in Nat /\ t.inst <= clock /\ clock \in Nat
          BY IdsDrawn
        <5> QED
          BY <2>9, <2>11, <4>5, <5>1
      <4>6. \A p \in scaled' : p.inst \in tx[d].listed => p \in scaled
        BY <2>10, <2>11, <4>4
      <4> QED
        BY <2>11, <4>2, <4>3, <4>5, <4>6 DEF TxCurrent, Stored
    <3> QED
      BY <3>1, <3>2
  <2>21. SizesWithinLimits'
    BY <2>2, <2>9, <2>11, <2>14 DEF ImagesInv, SizesWithinLimits
  <2>22. OrphansOnlyByOverlap'
    <3>1. ASSUME NEW j \in instances'
          PROVE  (\E t \in sources : t.inst = j.id) \/ (\E p \in scaled' : p.inst = j.id) \/ j.upload + 1 \in raced
      BY <2>9, <2>10, <2>11 DEF ImagesInv, OrphansOnlyByOverlap
    <3> QED
      BY <2>11, <3>1 DEF ImagesInv, OrphansOnlyByOverlap
  <2> QED
    BY <2>14, <2>16, <2>17, <2>18, <2>19, <2>20, <2>21, <2>22 DEF ImagesInv
<1> QED
  BY <1>1, <1>2 DEF CommitScaled

LEMMA OverlapsAreIds ==
  ASSUME ImagesInv, NEW c \in Connections
  PROVE  Overlapped(c) \subseteq Nat
<1>1. tx[c].source \in Nat /\ tx[c].row \in Nat
  BY TxTyped DEF ImagesInv
<1> QED
  BY <1>1 DEF Overlapped

\* What a delete leaves is whole: every row still has the rows it refers to, and
\* what has lost its owner was overlapped.
LEMMA DeletedIsWhole ==
  ASSUME ImagesInv, NEW c \in Connections, tx[c].pc \in {"deleting", "replacing"},
         NEW I, NEW S, NEW P, NEW R,
         I = Deleted(c).instances, S = Deleted(c).sources, P = Deleted(c).scaled, R = Deleted(c).itemPhotos
  PROVE  /\ I \subseteq instances /\ S \subseteq sources /\ P \subseteq scaled /\ R \subseteq itemPhotos
         /\ \A r \in R : \E s \in S : s.id = r.source
         /\ \A s \in S : \E i \in I : i.id = s.inst
         /\ \A p \in P : (\E i \in I : i.id = p.inst) /\ \E s \in S : s.id = p.source
         /\ \A s \in S : (\E r \in R : r.source = s.id) \/ s.id \in raced \cup Overlapped(c)
         /\ \A i \in I : \/ \E s \in S : s.inst = i.id
                         \/ \E p \in P : p.inst = i.id
                         \/ i.upload + 1 \in raced \cup Overlapped(c)
         /\ Overlapped(c) \subseteq Nat
<1>1. PICK source \in Nat, row \in Nat, listed \in SUBSET Nat :
        source = tx[c].source /\ row = tx[c].row /\ listed = tx[c].listed
  BY TxTyped DEF ImagesInv
<1>2. /\ I = {i \in instances : i.id \notin listed} /\ S = {s \in sources : s.id # source}
      /\ P = {p \in scaled : p.source # source} /\ R = {r \in itemPhotos : r.source \notin {source, row}}
  BY <1>1 DEF Deleted
<1>3. /\ \A s \in sources : s.id = source <=> s.inst \in listed
      /\ \A p \in scaled : p.inst \in listed => p.source = source
  BY <1>1 DEF ImagesInv, TxCurrent
<1>4. \A r \in R : \E s \in S : s.id = r.source
  BY <1>2 DEF ImagesInv, TypeOK
<1>5. \A s \in S : \E i \in I : i.id = s.inst
  BY <1>2, <1>3 DEF ImagesInv, TypeOK
<1>6. \A p \in P : (\E i \in I : i.id = p.inst) /\ \E s \in S : s.id = p.source
  BY <1>2, <1>3 DEF ImagesInv, TypeOK
<1>7. ASSUME NEW s \in S PROVE (\E r \in R : r.source = s.id) \/ s.id \in raced \cup Overlapped(c)
  <2>1. s \in sources /\ s.id # source
    BY <1>2
  <2>2. CASE s.id = row
    BY <1>1, <2>1, <2>2 DEF Overlapped
  <2>3. CASE s.id # row
    BY <1>2, <2>1, <2>3 DEF ImagesInv, OrphansOnlyByOverlap
  <2> QED
    BY <2>2, <2>3
<1>8. ASSUME NEW i \in I
      PROVE  \/ \E s \in S : s.inst = i.id
             \/ \E p \in P : p.inst = i.id
             \/ i.upload + 1 \in raced \cup Overlapped(c)
  <2>1. i \in instances /\ i.id \notin listed
    BY <1>2
  <2>2. ASSUME NEW p \in scaled, p.inst = i.id, p.source = source
        PROVE  i.upload + 1 \in Overlapped(c)
    <3>1. PICK s \in sources : s.id = source
      BY <2>2 DEF ImagesInv, TypeOK
    <3>2. PICK j \in instances : j.id = s.inst
      BY DEF ImagesInv, TypeOK
    <3>3. Stored(i) = ScaledBytes(Stored(j), p.box) /\ j.upload = j.id
      BY <2>1, <2>2, <3>1, <3>2 DEF ImagesInv, Contents
    <3>4. Stored(j) \in Bytes /\ p.box \in Nat
      BY StoredTyped, RowsTyped DEF ImagesInv
    <3>5. Stored(i).upload = Stored(j).upload
      BY <3>3, <3>4, ScaledFits
    <3>6. i.upload = s.inst
      BY <2>1, <3>2, <3>3, <3>5, StoredTyped DEF ImagesInv
    <3>7. i.upload + 1 = source
      BY <3>1, <3>6, IdsDrawn
    <3>8. source \in Overlapped(c)
      BY <1>1, <2>1, <2>2 DEF Overlapped
    <3> QED
      BY <3>7, <3>8
  <2> QED
    BY <1>2, <1>3, <2>1, <2>2 DEF ImagesInv, OrphansOnlyByOverlap
<1>9. Overlapped(c) \subseteq Nat
  BY <1>1 DEF Overlapped
<1> QED
  BY <1>2, <1>4, <1>5, <1>6, <1>7, <1>8, <1>9

LEMMA CommitDeleteKeeps ==
  ASSUME ImagesInv, NEW c \in Connections, CommitDelete(c)
  PROVE  ImagesInv'
<1>1. /\ instances' \subseteq instances /\ sources' \subseteq sources
      /\ scaled' \subseteq scaled /\ itemPhotos' \subseteq itemPhotos
      /\ \A r \in itemPhotos' : \E s \in sources' : s.id = r.source
      /\ \A s \in sources' : \E i \in instances' : i.id = s.inst
      /\ \A p \in scaled' : (\E i \in instances' : i.id = p.inst) /\ \E s \in sources' : s.id = p.source
      /\ \A s \in sources' : (\E r \in itemPhotos' : r.source = s.id) \/ s.id \in raced \cup Overlapped(c)
      /\ \A i \in instances' : \/ \E s \in sources' : s.inst = i.id
                               \/ \E p \in scaled' : p.inst = i.id
                               \/ i.upload + 1 \in raced \cup Overlapped(c)
      /\ Overlapped(c) \subseteq Nat
  BY DeletedIsWhole DEF CommitDelete
<1>2. /\ tx' \in [Connections -> Tx] /\ tx'[c] = Idle /\ \A d \in Connections : d # c => tx'[d] = tx[d]
  BY IdleTyped DEF CommitDelete, ImagesInv, TypeOK
<1>3. raced' = raced \cup Overlapped(c) /\ UNCHANGED <<clock, browser, prune>>
  BY DEF CommitDelete
<1>4. TypeOK'
  BY <1>1, <1>2, <1>3 DEF ImagesInv, TypeOK
<1>5. UniqueOwners' /\ Drawn' /\ Contents' /\ BrowserCurrent'
  BY <1>1, <1>3 DEF ImagesInv, UniqueOwners, Drawn, Contents, BrowserCurrent, Stored
<1>6. ASSUME NEW d \in Connections PROVE TxCurrent(d)'
  <2>1. CASE d = c
    BY <1>2, <1>3, <2>1, IdleTyped, ImagesAssumption DEF TxCurrent, ImagesInv, TypeOK
  <2>2. CASE d # c
    BY <1>1, <1>2, <1>3, <2>2 DEF TxCurrent, ImagesInv, Stored
  <2> QED
    BY <2>1, <2>2
<1>7. SizesWithinLimits'
  BY <1>1, <1>3 DEF ImagesInv, SizesWithinLimits
<1>8. OrphansOnlyByOverlap'
  BY <1>1, <1>3 DEF OrphansOnlyByOverlap
<1> QED
  BY <1>4, <1>5, <1>6, <1>7, <1>8 DEF ImagesInv

\* The old photo goes and the new one comes in one transaction.
LEMMA CommitUploadKeeps ==
  ASSUME ImagesInv, NEW c \in Connections, CommitUpload(c)
  PROVE  ImagesInv'
<1>1. CASE UNCHANGED <<instances, sources, scaled, itemPhotos, clock, raced>>
  BY <1>1, IdleKeeps DEF CommitUpload
<1>2. PICK I, S, P, R : /\ I = Deleted(c).instances /\ S = Deleted(c).sources
                        /\ P = Deleted(c).scaled /\ R = Deleted(c).itemPhotos
  OBVIOUS
<1>3. ASSUME \A r \in R : r.item # tx[c].item,
             instances' = I \cup {[id |-> clock + 1, upload |-> clock + 1, size |-> tx[c].bytes.size]},
             sources' = S \cup {[id |-> clock + 2, inst |-> clock + 1, updated |-> FreshStamp(c)]},
             scaled' = P,
             itemPhotos' = R \cup {[item |-> tx[c].item, source |-> clock + 2]},
             clock' = clock + 2, raced' = raced \cup Overlapped(c)
      PROVE  ImagesInv'
  <2>1. /\ I \subseteq instances /\ S \subseteq sources /\ P \subseteq scaled /\ R \subseteq itemPhotos
        /\ \A r \in R : \E s \in S : s.id = r.source
        /\ \A s \in S : \E i \in I : i.id = s.inst
        /\ \A p \in P : (\E i \in I : i.id = p.inst) /\ \E s \in S : s.id = p.source
        /\ \A s \in S : (\E r \in R : r.source = s.id) \/ s.id \in raced \cup Overlapped(c)
        /\ \A i \in I : \/ \E s \in S : s.inst = i.id
                        \/ \E p \in P : p.inst = i.id
                        \/ i.upload + 1 \in raced \cup Overlapped(c)
        /\ Overlapped(c) \subseteq Nat
    BY <1>2, DeletedIsWhole DEF CommitUpload
  <2>2. PICK item \in Items, size \in Nat : item = tx[c].item /\ size = tx[c].bytes.size /\ size <= MaxSource
    BY TxTyped DEF ImagesInv, TxCurrent
  <2>3. clock \in Nat
    BY IdsDrawn
  <2>4. PICK n \in Instance : /\ n = [id |-> clock + 1, upload |-> clock + 1, size |-> size]
                              /\ n.id = clock + 1 /\ n.upload = clock + 1 /\ n.size = size
    <3> DEFINE n == [id |-> clock + 1, upload |-> clock + 1, size |-> size]
    <3>1. n \in Instance /\ n.id = clock + 1 /\ n.upload = clock + 1 /\ n.size = size
      BY <2>3 DEF Instance
    <3> QED
      BY <3>1
  <2>5. PICK t \in Source : /\ t = [id |-> clock + 2, inst |-> clock + 1, updated |-> FreshStamp(c)]
                            /\ t.id = clock + 2 /\ t.inst = clock + 1 /\ t.updated = clock + 2
    <3> DEFINE t == [id |-> clock + 2, inst |-> clock + 1, updated |-> FreshStamp(c)]
    <3>1. t \in Source /\ t.id = clock + 2 /\ t.inst = clock + 1 /\ t.updated = clock + 2
      BY <2>3 DEF Source, FreshStamp
    <3> QED
      BY <3>1
  <2>6. PICK a \in [item : Items, source : Nat] : /\ a = [item |-> item, source |-> clock + 2]
                                                  /\ a.item = item /\ a.source = clock + 2
    <3> DEFINE a == [item |-> item, source |-> clock + 2]
    <3>1. a \in [item : Items, source : Nat] /\ a.item = item /\ a.source = clock + 2
      BY <2>3
    <3> QED
      BY <3>1
  <2>7. /\ instances' = I \cup {n} /\ sources' = S \cup {t} /\ scaled' = P /\ itemPhotos' = R \cup {a}
        /\ clock' = clock + 2 /\ raced' = raced \cup Overlapped(c) /\ browser' = browser
        /\ prune' = prune
        /\ tx' = [tx EXCEPT ![c] = Idle] /\ \A r \in R : r.item # item
    BY <1>3, <2>2, <2>4, <2>5, <2>6 DEF CommitUpload
  <2>8. /\ tx' \in [Connections -> Tx] /\ tx'[c] = Idle /\ \A d \in Connections : d # c => tx'[d] = tx[d]
    BY <2>7, IdleTyped DEF ImagesInv, TypeOK
  <2>9. TypeOK'
    <3>1. /\ instances' \subseteq Instance /\ sources' \subseteq Source /\ scaled' \subseteq Scaled
          /\ itemPhotos' \subseteq [item : Items, source : Nat]
      BY <2>1, <2>4, <2>5, <2>6, <2>7 DEF ImagesInv, TypeOK
    <3>2. \A r \in itemPhotos' : \E s \in sources' : s.id = r.source
      BY <2>1, <2>5, <2>6, <2>7
    <3>3. \A r, q \in itemPhotos' : r.item = q.item => r = q
      BY <2>1, <2>6, <2>7 DEF ImagesInv, TypeOK
    <3>4. \A s \in sources' : \E i \in instances' : i.id = s.inst
      BY <2>1, <2>4, <2>5, <2>7
    <3>5. \A p \in scaled' : (\E i \in instances' : i.id = p.inst) /\ \E s \in sources' : s.id = p.source
      BY <2>1, <2>7
    <3>6. clock' \in Nat /\ raced' \subseteq Nat
      <4>1. raced \subseteq Nat
        BY DEF ImagesInv, TypeOK
      <4>2. Overlapped(c) \subseteq Nat
        BY OverlapsAreIds
      <4>3. clock' = clock + 2
        BY <1>3
      <4>4. raced' = raced \cup Overlapped(c)
        BY <1>3
      <4>5. raced' \subseteq Nat
        BY <4>1, <4>2, <4>4
      <4> QED
        BY <2>3, <4>3, <4>5
    <3>7. browser' \in [Urls -> [etag : Nat, bytes : Bytes]] /\ prune' \in [Connections -> Prune]
      BY <2>7 DEF ImagesInv, TypeOK
    <3> QED
      BY <2>8, <3>1, <3>2, <3>3, <3>4, <3>5, <3>6, <3>7 DEF TypeOK
  <2>10. UniqueOwners'
    <3>1. \A i, j \in instances' : i.id = j.id => i = j
      BY <2>1, <2>4, <2>7, IdsDrawn DEF ImagesInv, UniqueOwners
    <3>2. \A s, u \in sources' : s.id = u.id => s = u
      BY <2>1, <2>5, <2>7, IdsDrawn DEF ImagesInv, UniqueOwners
    <3>3. \A r, q \in itemPhotos' : r.source = q.source => r = q
      BY <2>1, <2>6, <2>7, IdsDrawn DEF ImagesInv, UniqueOwners
    <3>4. \A p \in scaled', s \in sources' : p.inst # s.inst
      BY <2>1, <2>5, <2>7, IdsDrawn DEF ImagesInv, UniqueOwners
    <3> QED
      BY <2>1, <2>7, <3>1, <3>2, <3>3, <3>4 DEF ImagesInv, UniqueOwners
  <2>11. Drawn'
    <3>1. \A i \in instances' : i.id <= clock'
      BY <2>1, <2>4, <2>7, IdsDrawn
    <3>2. \A s \in sources' : s.id <= clock' /\ s.updated = s.id /\ s.id = s.inst + 1
      BY <2>1, <2>5, <2>7, IdsDrawn
    <3>3. \A p \in scaled : p.used \in Nat /\ p.used <= clock
      BY RowsTyped DEF ImagesInv, Drawn
    <3>4. \A u \in Urls : browser[u].etag \in Nat /\ browser[u].etag <= clock
      BY DEF ImagesInv, Drawn, TypeOK
    <3> QED
      BY <2>1, <2>3, <2>7, <3>1, <3>2, <3>3, <3>4 DEF Drawn
  \* The new rows are told from the old by their ids.
  <2>12. ASSUME NEW s \in S, NEW i \in instances', i.id = s.inst PROVE s \in sources /\ i \in instances
    <3>1. s \in sources /\ s.inst \in Nat /\ s.inst <= clock
      BY <2>1, IdsDrawn
    <3> QED
      BY <2>1, <2>3, <2>4, <2>7, <2>12, <3>1
  <2>13. Contents'
    <3>1. ASSUME NEW p \in P, NEW s \in sources', NEW i \in instances', NEW j \in instances',
                 p.source = s.id, i.id = p.inst, j.id = s.inst
          PROVE  Stored(i) = ScaledBytes(Stored(j), p.box)
      <4>1. p \in scaled /\ p.source \in Nat /\ p.source <= clock /\ p.inst \in Nat /\ p.inst <= clock
        BY <2>1, IdsDrawn
      <4>2. s \in S
        BY <2>3, <2>5, <2>7, <3>1, <4>1
      <4>3. i \in instances
        BY <2>1, <2>3, <2>4, <2>7, <3>1, <4>1
      <4>4. s \in sources /\ j \in instances
        BY <2>12, <3>1, <4>2
      <4> QED
        BY <3>1, <4>1, <4>3, <4>4 DEF ImagesInv, Contents
    <3>2. ASSUME NEW s \in sources', NEW i \in instances', i.id = s.inst PROVE i.upload = i.id
      <4>1. CASE s \in S
        BY <2>12, <3>2, <4>1 DEF ImagesInv, Contents
      <4>2. CASE s = t
        <5>1. i = n
          BY <2>1, <2>4, <2>5, <2>7, <3>2, <4>2, IdsDrawn
        <5> QED
          BY <2>4, <5>1
      <4> QED
        BY <2>7, <4>1, <4>2
    <3> QED
      BY <2>7, <3>1, <3>2 DEF Contents, Stored
  <2>14. BrowserCurrent'
    <3>1. ASSUME NEW u \in Urls, NEW s \in sources', NEW i \in instances', i.id = s.inst,
                 browser[u].etag = s.updated
          PROVE  browser[u].bytes = Sent(Stored(i), u[2])
      <4>1. browser[u].etag \in Nat /\ browser[u].etag <= clock
        BY DEF ImagesInv, Drawn, TypeOK
      <4>2. s \in S
        BY <2>3, <2>5, <2>7, <3>1, <4>1
      <4> QED
        BY <2>12, <3>1, <4>2 DEF ImagesInv, BrowserCurrent
    <3> QED
      BY <2>7, <3>1 DEF BrowserCurrent, Stored, Sent
  <2>15. ASSUME NEW d \in Connections PROVE TxCurrent(d)'
    <3>1. CASE d = c
      BY <2>3, <2>7, <2>8, <3>1, IdleTyped, ImagesAssumption DEF TxCurrent
    <3>2. CASE d # c
      <4>1. /\ tx[d].source \in Nat /\ tx[d].row \in Nat /\ tx[d].listed \subseteq Nat
        BY TxTyped DEF ImagesInv
      <4>2. TxCurrent(d) /\ tx'[d] = tx[d]
        BY <2>8, <3>2 DEF ImagesInv
      <4>3. /\ tx[d].source <= clock' /\ tx[d].row <= clock' /\ \A m \in tx[d].listed : m <= clock'
            /\ clock + 1 \notin tx[d].listed /\ clock + 2 \notin {tx[d].source, tx[d].row}
        BY <2>3, <2>7, <4>1, <4>2 DEF TxCurrent
      <4>4. ASSUME NEW s \in sources', NEW i \in instances', s.id = tx[d].source, i.id = s.inst
            PROVE  s \in sources /\ i \in instances
        <5>1. s \in S
          BY <2>5, <2>7, <4>3, <4>4
        <5> QED
          BY <2>12, <4>4, <5>1
      <4>5. \A r \in itemPhotos' : r.source \in {tx[d].source, tx[d].row} => r \in itemPhotos
        BY <2>1, <2>6, <2>7, <4>3
      <4>6. \A s \in sources' : s \in sources \/ (s.id # tx[d].source /\ s.inst \notin tx[d].listed)
        BY <2>1, <2>5, <2>7, <4>3
      <4> QED
        BY <2>1, <2>7, <4>2, <4>3, <4>4, <4>5, <4>6 DEF TxCurrent, Stored
    <3> QED
      BY <3>1, <3>2
  <2>16. SizesWithinLimits'
    BY <2>1, <2>2, <2>4, <2>7 DEF ImagesInv, SizesWithinLimits
  <2>17. OrphansOnlyByOverlap'
    <3>1. \A s \in sources' : (\E r \in itemPhotos' : r.source = s.id) \/ s.id \in raced'
      BY <2>1, <2>5, <2>6, <2>7
    <3>2. \A i \in instances' : \/ \E s \in sources' : s.inst = i.id
                                \/ \E p \in scaled' : p.inst = i.id
                                \/ i.upload + 1 \in raced'
      BY <2>1, <2>4, <2>5, <2>7
    <3> QED
      BY <3>1, <3>2 DEF OrphansOnlyByOverlap
  <2> QED
    BY <2>9, <2>10, <2>11, <2>13, <2>14, <2>15, <2>16, <2>17 DEF ImagesInv
<1> QED
  BY <1>1, <1>2, <1>3 DEF CommitUpload

-------------------------------------------------------------------------------
(* The theorems *)

LEMMA ImagesNext == ImagesInv /\ [Next]_vars => ImagesInv'
<1> SUFFICES ASSUME ImagesInv, [Next]_vars PROVE ImagesInv'
  OBVIOUS
<1>1. CASE UNCHANGED vars
  <2>1. UNCHANGED <<instances, sources, scaled, itemPhotos, tx, clock, browser, prune, raced>>
    BY <1>1 DEF vars
  <2>2. TypeOK' /\ UniqueOwners' /\ Drawn' /\ Contents' /\ BrowserCurrent'
    BY <2>1 DEF ImagesInv, TypeOK, UniqueOwners, Drawn, Contents, BrowserCurrent, Stored
  <2>3. SizesWithinLimits' /\ OrphansOnlyByOverlap' /\ \A d \in Connections : TxCurrent(d)'
    BY <2>1 DEF ImagesInv, SizesWithinLimits, OrphansOnlyByOverlap, TxCurrent
  <2> QED
    BY <2>2, <2>3 DEF ImagesInv
<1>2. ASSUME NEW c \in Connections, NEW i \in Items, NEW who \in Callers,
             NEW type \in Types, NEW size \in Sizes, NEW valid \in BOOLEAN,
             PostUploadPhoto(c, who, i, type, size, valid)
      PROVE  ImagesInv'
  BY <1>1, <1>2, UploadKeeps DEF PostUploadPhoto, Refused
<1>3. ASSUME NEW c \in Connections, NEW type \in Types, NEW size \in Sizes, NEW valid \in BOOLEAN,
             PostUploadUserPhoto(c, type, size, valid)
      PROVE  ImagesInv'
  BY <1>1, <1>3, UploadKeeps, ImagesAssumption DEF PostUploadUserPhoto, Refused
<1>4. ASSUME NEW c \in Connections, NEW i \in Items, NEW who \in Callers,
             DeletePhoto(c, who, i) \/ GetPhoto(c, who, i)
      PROVE  ImagesInv'
  BY <1>1, <1>4, DeletePhotoKeeps, GetPhotoKeeps
<1>5. ASSUME NEW c \in Connections, NEW i \in Items, NEW who \in Callers, NEW box \in Boxes,
             ScaledHit(c, who, i, box) \/ ScaledVector(c, who, i, box) \/ ScaledMiss(c, who, i, box)
      PROVE  ImagesInv'
  BY <1>5, ScaledHitKeeps, ScaledVectorKeeps, ScaledMissKeeps
<1>6. ASSUME NEW c \in Connections, DeleteAssociation(c) \/ CommitUpload(c) \/ CommitDelete(c) \/ CommitScaled(c)
      PROVE  ImagesInv'
  BY <1>6, DeleteAssociationKeeps, CommitUploadKeeps, CommitDeleteKeeps, CommitScaledKeeps
<1>7. ASSUME NEW c \in Connections, NEW cutoff, ListOlderThan(c, cutoff) PROVE ImagesInv'
  BY <1>7, ListOlderThanKeeps
<1>8. ASSUME NEW c \in Connections, NEW target \in Boxes, StartShrinking(c, target) PROVE ImagesInv'
  BY <1>8, StartShrinkingKeeps
<1>9. ASSUME NEW c \in Connections, DeleteListed(c) \/ MeasureStorage(c) \/ PickOldest(c)
      PROVE  ImagesInv'
  BY <1>9, DropKeeps, MeasureStorageKeeps, PickOldestKeeps DEF DeleteListed
<1> QED
  BY <1>1, <1>2, <1>3, <1>4, <1>5, <1>6, <1>7, <1>8, <1>9 DEF Next

LEMMA ImagesAlways == Spec => []ImagesInv
  BY ImagesInit, ImagesNext, PTL DEF Spec

\* Whatever the number of connections, rows, sizes and boxes, a 304 never stands for
\* bytes other than the item's present photo has, and nothing beyond the maxima is
\* kept or sent (get_scaled_photo.cpp:163, get_photo.cpp:85, image_helper.cpp:228).
THEOREM PhotosServedAreCurrent == Spec => []ServedIsCurrent
  BY ImagesAlways, ServedFollows, PTL

\* Sources and bytes lose their owner only where a copy was made or a photo replaced
\* while the source was being deleted (image_helper.cpp:297, scaled_photos.cpp:104).
THEOREM PhotosKeepOwners == Spec => []OrphansOnlyByOverlap
<1>1. ImagesInv => OrphansOnlyByOverlap
  BY DEF ImagesInv
<1> QED
  BY <1>1, ImagesAlways, PTL

\* Only the two commits touch sources and associations.
LEMMA OthersKeepPhotos ==
  ASSUME Next, \A c \in Connections : ~CommitUpload(c) /\ ~CommitDelete(c)
  PROVE  sources' = sources /\ itemPhotos' = itemPhotos
<1>1. ASSUME NEW c \in Connections, NEW i, NEW type, NEW size, NEW valid,
             UploadAndAssociatePhoto(c, i, type, size, valid)
      PROVE  sources' = sources /\ itemPhotos' = itemPhotos
  BY <1>1 DEF UploadAndAssociatePhoto, FindPhoto, Refused, vars
<1>2. ASSUME NEW c \in Connections, NEW i \in Items, NEW who \in Callers,
             NEW type \in Types, NEW size \in Sizes, NEW valid \in BOOLEAN,
             PostUploadPhoto(c, who, i, type, size, valid) \/ PostUploadUserPhoto(c, type, size, valid)
      PROVE  sources' = sources /\ itemPhotos' = itemPhotos
  BY <1>1, <1>2 DEF PostUploadPhoto, PostUploadUserPhoto, Refused, vars
<1>3. ASSUME NEW c \in Connections, NEW i \in Items, NEW who \in Callers,
             DeletePhoto(c, who, i) \/ GetPhoto(c, who, i)
      PROVE  sources' = sources /\ itemPhotos' = itemPhotos
  BY <1>3 DEF DeletePhoto, GetPhoto, FindPhoto, Refused, vars
<1>4. ASSUME NEW c \in Connections, NEW i \in Items, NEW who \in Callers, NEW box \in Boxes,
             ScaledHit(c, who, i, box) \/ ScaledVector(c, who, i, box) \/ ScaledMiss(c, who, i, box)
      PROVE  sources' = sources /\ itemPhotos' = itemPhotos
  BY <1>4 DEF ScaledHit, ScaledVector, ScaledMiss
<1>5. ASSUME NEW c \in Connections, DeleteAssociation(c) \/ CommitScaled(c)
      PROVE  sources' = sources /\ itemPhotos' = itemPhotos
  BY <1>5 DEF DeleteAssociation, CommitScaled
<1>6. ASSUME NEW c \in Connections, NEW k,
             \/ ListOlderThan(c, k) \/ StartShrinking(c, k)
             \/ DeleteListed(c) \/ MeasureStorage(c) \/ PickOldest(c)
      PROVE  sources' = sources /\ itemPhotos' = itemPhotos
  BY <1>6 DEF ListOlderThan, StartShrinking, DeleteListed, MeasureStorage, PickOldest, DropPicked
<1> QED
  BY <1>2, <1>3, <1>4, <1>5, <1>6, ImagesAssumption DEF Next, Callers

\* A delete takes photos of the transaction's own item only.
LEMMA OthersPhotosStay ==
  ASSUME ImagesInv, NEW c \in Connections, tx[c].pc \in {"deleting", "replacing"},
         NEW i \in Items, i # tx[c].item, NEW s \in SourceOf(i)
  PROVE  s \in Deleted(c).sources /\ \E r \in Deleted(c).itemPhotos : r.item = i /\ r.source = s.id
<1>1. PICK r \in itemPhotos : s \in sources /\ r.item = i /\ r.source = s.id
  BY SourceOfIsSource
<1>2. r.source \notin {tx[c].source, tx[c].row}
  BY <1>1 DEF ImagesInv, TxCurrent
<1> QED
  BY <1>1, <1>2 DEF Deleted

LEMMA ReplaceStep ==
  ASSUME ImagesInv, [Next]_vars, NEW i \in Items, SourceOf(i) # {}, SourceOf(i)' = {}
  PROVE  \E c \in Connections : tx[c].pc = "deleting" /\ tx[c].item = i
<1>1. PICK s \in SourceOf(i) : TRUE
  OBVIOUS
<1>2. CASE sources' = sources /\ itemPhotos' = itemPhotos
  BY <1>2 DEF SourceOf
<1>3. ASSUME NEW c \in Connections, CommitDelete(c) PROVE tx[c].pc = "deleting" /\ tx[c].item = i
  <2>1. tx[c].pc = "deleting" /\ sources' = Deleted(c).sources /\ itemPhotos' = Deleted(c).itemPhotos
    BY <1>3 DEF CommitDelete
  <2>2. CASE tx[c].item # i
    BY <2>1, <2>2, OthersPhotosStay DEF SourceOf
  <2> QED
    BY <2>1, <2>2
<1>4. ASSUME NEW c \in Connections, CommitUpload(c), ~(sources' = sources /\ itemPhotos' = itemPhotos)
      PROVE  FALSE
  <2>1. /\ tx[c].pc = "replacing"
        /\ sources' = Deleted(c).sources \cup {[id |-> clock + 2, inst |-> clock + 1, updated |-> FreshStamp(c)]}
        /\ itemPhotos' = Deleted(c).itemPhotos \cup {[item |-> tx[c].item, source |-> clock + 2]}
    BY <1>4 DEF CommitUpload
  <2>2. CASE tx[c].item # i
    BY <2>1, <2>2, OthersPhotosStay DEF SourceOf
  <2>3. CASE tx[c].item = i
    <3> DEFINE new == [id |-> clock + 2, inst |-> clock + 1, updated |-> FreshStamp(c)]
               row == [item |-> tx[c].item, source |-> clock + 2]
    <3>a. new \in sources' /\ new.id = clock + 2
      BY <2>1
    <3>b. row \in itemPhotos' /\ row.item = i /\ row.source = clock + 2
      BY <2>1, <2>3
    <3> HIDE DEF new, row
    <3>1. PICK t \in sources' : t.id = clock + 2
      BY <3>a
    <3>2. PICK r \in itemPhotos' : r.item = i /\ r.source = clock + 2
      BY <3>b
    <3> QED
      BY <3>1, <3>2 DEF SourceOf
  <2> QED
    BY <2>2, <2>3
<1> QED
  BY <1>2, <1>3, <1>4, OthersKeepPhotos DEF vars

-------------------------------------------------------------------------------
(* Pruning *)

\* A copy a pruning has picked had, when it was picked, been unused for at least as
\* long as any other copy it had seen; uses since then only add to the difference.
PruneCurrent(c) ==
  /\ \A k \in prune[c].seen : k <= clock
  /\ \A r \in prune[c].picked :
       /\ r.used <= clock
       /\ \A q \in scaled : q.id \in prune[c].seen /\ q.id \notin Ids(prune[c].picked) => r.used <= q.used

PruneInv ==
  /\ \A p \in scaled : p.id <= clock
  /\ \A c \in Connections : PruneCurrent(c)

\* Copies are only used later, or made with ids no pruning under way has seen.
LEMMA PruneKept ==
  ASSUME ImagesInv, ImagesInv', PruneInv, clock <= clock',
         \A q \in scaled' : /\ q.id <= clock'
                            /\ q.id > clock \/ \E x \in scaled : x.id = q.id /\ x.used <= q.used,
         \A d \in Connections : prune'[d] = prune[d] \/ PruneCurrent(d)'
  PROVE  PruneInv'
<1>1. clock \in Nat /\ clock' \in Nat /\ scaled \subseteq Scaled /\ scaled' \subseteq Scaled
  BY DEF ImagesInv, TypeOK
<1>2. ASSUME NEW d \in Connections, prune'[d] = prune[d] PROVE PruneCurrent(d)'
  <2>1. /\ prune[d].picked \subseteq Scaled /\ prune[d].seen \subseteq Nat
        /\ prune'[d].picked = prune[d].picked /\ prune'[d].seen = prune[d].seen
    BY <1>2, PruneRead
  <2>2. PruneCurrent(d)
    BY DEF PruneInv
  <2>3. \A k \in prune[d].seen : k <= clock'
    BY <1>1, <2>1, <2>2 DEF PruneCurrent
  <2>4. ASSUME NEW r \in prune[d].picked PROVE r.used \in Nat /\ r.used <= clock /\ r.used <= clock'
    BY <1>1, <2>1, <2>2 DEF PruneCurrent, Scaled
  <2>5. ASSUME NEW r \in prune[d].picked, NEW q \in scaled',
               q.id \in prune[d].seen, q.id \notin Ids(prune[d].picked)
        PROVE  r.used <= q.used
    <3>1. q.id \in Nat /\ q.id <= clock
      BY <2>1, <2>2, <2>5 DEF PruneCurrent
    <3>2. PICK x \in scaled : x.id = q.id /\ x.used <= q.used
      BY <1>1, <3>1
    <3>3. r.used <= x.used
      BY <2>2, <2>5, <3>2 DEF PruneCurrent
    <3>4. r.used \in Nat /\ x.used \in Nat /\ q.used \in Nat
      BY <1>1, <2>4 DEF Scaled
    <3> QED
      BY <3>2, <3>3, <3>4
  <2>6. Ids(prune[d].picked)' = Ids(prune[d].picked)
    BY <2>1 DEF Ids
  <2> QED
    BY <2>1, <2>3, <2>4, <2>5, <2>6 DEF PruneCurrent
<1> QED
  BY <1>2 DEF PruneInv

\* No copy is used, made or pruned.
LEMMA PruneIdle ==
  ASSUME ImagesInv, ImagesInv', PruneInv, clock <= clock', scaled' \subseteq scaled,
         \A d \in Connections : prune'[d] = prune[d] \/ PruneCurrent(d)'
  PROVE  PruneInv'
<1>1. clock \in Nat /\ clock' \in Nat /\ scaled \subseteq Scaled
  BY DEF ImagesInv, TypeOK
<1>2. ASSUME NEW q \in scaled' PROVE q \in scaled /\ q.id <= clock' /\ q.used <= q.used
  BY <1>1 DEF PruneInv, Scaled
<1> QED
  BY <1>2, PruneKept

\* The steps that leave the prunings alone and take copies only with their source.
LEMMA OthersPrune ==
  ASSUME ImagesInv, Next,
         \A c \in Connections : /\ ~DeleteListed(c) /\ ~MeasureStorage(c) /\ ~PickOldest(c)
                                /\ ~CommitScaled(c)
                                /\ \A cutoff \in 1 .. clock : ~ListOlderThan(c, cutoff)
                                /\ \A target \in Boxes : ~StartShrinking(c, target)
                                /\ \A who \in Callers, i \in Items, box \in Boxes : ~ScaledHit(c, who, i, box)
  PROVE  /\ prune' = prune /\ clock <= clock' /\ scaled' \subseteq scaled
         /\ sources' = sources => scaled' = scaled
<1> DEFINE Kept == /\ prune' = prune /\ clock <= clock' /\ scaled' \subseteq scaled
                   /\ sources' = sources => scaled' = scaled
           Same == UNCHANGED <<prune, clock, scaled, sources>>
<1>1. clock \in Nat
  BY DEF ImagesInv, TypeOK
<1>2. ASSUME NEW c \in Connections, NEW i, NEW type, NEW size, NEW valid,
             UploadAndAssociatePhoto(c, i, type, size, valid)
      PROVE  Same
  BY <1>2 DEF UploadAndAssociatePhoto, FindPhoto, Refused, vars
<1>3. ASSUME NEW c \in Connections, NEW i \in Items, NEW who \in Callers,
             NEW type \in Types, NEW size \in Sizes, NEW valid \in BOOLEAN,
             PostUploadPhoto(c, who, i, type, size, valid) \/ PostUploadUserPhoto(c, type, size, valid)
      PROVE  Same
  BY <1>2, <1>3 DEF PostUploadPhoto, PostUploadUserPhoto, Refused, vars
<1>4. ASSUME NEW c \in Connections, NEW i \in Items, NEW who \in Callers,
             DeletePhoto(c, who, i) \/ GetPhoto(c, who, i)
      PROVE  Same
  BY <1>4 DEF DeletePhoto, GetPhoto, FindPhoto, Refused, vars
<1>5. ASSUME NEW c \in Connections, NEW i \in Items, NEW who \in Callers, NEW box \in Boxes,
             ScaledVector(c, who, i, box) \/ ScaledMiss(c, who, i, box)
      PROVE  Same
  BY <1>5 DEF ScaledVector, ScaledMiss
<1>6. ASSUME NEW c \in Connections, DeleteAssociation(c) PROVE Same
  BY <1>6 DEF DeleteAssociation
<1>7. ASSUME NEW c \in Connections, CommitDelete(c) PROVE Kept
  <2>1. /\ sources' = {s \in sources : s.id # tx[c].source} /\ scaled' = {p \in scaled : p.source # tx[c].source}
        /\ clock' = clock /\ prune' = prune
    BY <1>7 DEF CommitDelete, Deleted
  <2>2. \A p \in scaled : \E s \in sources : s.id = p.source
    BY DEF ImagesInv, TypeOK
  <2> QED
    BY <1>1, <2>1, <2>2
<1>8. ASSUME NEW c \in Connections, CommitUpload(c) PROVE Kept
  <2> DEFINE new == [id |-> clock + 2, inst |-> clock + 1, updated |-> FreshStamp(c)]
  <2>1. /\ prune' = prune /\ (clock' = clock \/ clock' = clock + 2)
        /\ scaled' = scaled \/ new \in sources'
        /\ scaled' = scaled \/ scaled' = {p \in scaled : p.source # tx[c].source}
    BY <1>8 DEF CommitUpload, Deleted
  <2>2. new.id = clock + 2
    OBVIOUS
  <2> HIDE DEF new
  <2>3. new \notin sources
    BY <2>2, IdsDrawn
  <2> QED
    BY <1>1, <2>1, <2>3
<1>a. Same => Kept
  BY <1>1
<1> HIDE DEF Kept, Same
<1>b. ASSUME NEW c \in Connections, NEW i \in Items, NEW who \in Callers
      PROVE  /\ \A type \in Types, size \in Sizes, valid \in BOOLEAN :
                  PostUploadPhoto(c, who, i, type, size, valid) => Same
             /\ DeletePhoto(c, who, i) \/ GetPhoto(c, who, i) => Same
             /\ \A box \in Boxes : ScaledVector(c, who, i, box) \/ ScaledMiss(c, who, i, box) => Same
  BY <1>3, <1>4, <1>5
<1>c. ASSUME NEW c \in Connections, NEW type \in Types, NEW size \in Sizes, NEW valid \in BOOLEAN,
             PostUploadUserPhoto(c, type, size, valid)
      PROVE  Same
  BY <1>3, <1>c, ImagesAssumption DEF Callers
<1>9. Kept
  BY <1>a, <1>b, <1>c, <1>6, <1>7, <1>8 DEF Next
<1> QED
  BY <1>9 DEF Kept

LEMMA PruneInit == Init => PruneInv
  BY DEF Init, PruneInv, PruneCurrent, NoPrune

\* What a pruning picks when it begins and on the way.
LEMMA PicksAreOldest ==
  ASSUME ImagesInv, ImagesInv', PruneInv, NEW c \in Connections,
         scaled' = scaled, clock' = clock,
         \/ \E cutoff \in 1 .. clock : ListOlderThan(c, cutoff)
         \/ \E target \in Boxes : StartShrinking(c, target)
         \/ \E p \in Visible(c) : /\ \A q \in Visible(c) : p.used <= q.used
                                  /\ prune' = [prune EXCEPT ![c].picked = @ \cup {p}]
  PROVE  PruneCurrent(c)' /\ \A d \in Connections : d # c => prune'[d] = prune[d]
<1>1. /\ clock \in Nat /\ prune \in [Connections -> Prune]
      /\ \A p \in scaled : p.id \in Nat /\ p.used \in Nat /\ p.id <= clock /\ p.used <= clock
  BY DEF ImagesInv, TypeOK, Drawn, Scaled, PruneInv
<1>2. \A k \in Ids(scaled) : k <= clock
  BY <1>1 DEF Ids
<1>3. ASSUME NEW cutoff \in 1 .. clock, ListOlderThan(c, cutoff)
      PROVE  PruneCurrent(c)' /\ \A d \in Connections : d # c => prune'[d] = prune[d]
  <2> DEFINE older == {p \in scaled : p.used < cutoff}
  <2>1. /\ prune'[c].picked = older /\ prune'[c].seen = Ids(scaled)
        /\ \A d \in Connections : d # c => prune'[d] = prune[d]
    BY <1>1, <1>3 DEF ListOlderThan
  <2>2. ASSUME NEW r \in older, NEW q \in scaled, q.id \notin Ids(older) PROVE r.used <= q.used
    <3>1. q \notin older /\ cutoff \in Nat /\ r \in scaled
      BY <1>1, <2>2 DEF Ids
    <3> QED
      BY <1>1, <2>2, <3>1
  <2>3. \A r \in older : r.used <= clock
    BY <1>1
  <2> HIDE DEF older
  <2>4. Ids(prune[c].picked)' = Ids(older)
    BY <2>1 DEF Ids
  <2> QED
    BY <1>2, <2>1, <2>2, <2>3, <2>4 DEF PruneCurrent
<1>4. ASSUME NEW target \in Boxes, StartShrinking(c, target)
      PROVE  PruneCurrent(c)' /\ \A d \in Connections : d # c => prune'[d] = prune[d]
  <2>1. /\ prune'[c].picked = {} /\ prune'[c].seen = Ids(scaled)
        /\ \A d \in Connections : d # c => prune'[d] = prune[d]
    BY <1>1, <1>4 DEF StartShrinking
  <2> QED
    BY <1>2, <2>1 DEF PruneCurrent
<1>5. ASSUME NEW p \in Visible(c), \A q \in Visible(c) : p.used <= q.used,
             prune' = [prune EXCEPT ![c].picked = @ \cup {p}]
      PROVE  PruneCurrent(c)' /\ \A d \in Connections : d # c => prune'[d] = prune[d]
  <2>1. /\ prune'[c].picked = prune[c].picked \cup {p} /\ prune'[c].seen = prune[c].seen
        /\ \A d \in Connections : d # c => prune'[d] = prune[d]
    BY <1>5, PickOldestPicks DEF Visible
  <2>2. p \in scaled /\ PruneCurrent(c)
    BY <1>5 DEF Visible, PruneInv
  <2>3. Ids(prune[c].picked)' = Ids(prune[c].picked) \cup {p.id}
    BY <2>1 DEF Ids
  <2>4. ASSUME NEW q \in scaled, q.id \notin Ids(prune[c].picked)' PROVE q \in Visible(c) /\ p.used <= q.used
    BY <1>5, <2>3, <2>4 DEF Visible
  <2> QED
    BY <1>1, <2>1, <2>2, <2>3, <2>4 DEF PruneCurrent
<1> QED
  BY <1>3, <1>4, <1>5

LEMMA PruneNext == ImagesInv /\ ImagesInv' /\ PruneInv /\ [Next]_vars => PruneInv'
<1> SUFFICES ASSUME ImagesInv, ImagesInv', PruneInv, [Next]_vars PROVE PruneInv'
  OBVIOUS
<1>1. clock \in Nat /\ scaled \subseteq Scaled
  BY DEF ImagesInv, TypeOK
<1>2. CASE UNCHANGED vars
  <2>1. clock <= clock' /\ scaled' \subseteq scaled /\ prune' = prune
    BY <1>1, <1>2 DEF vars
  <2> QED
    BY <2>1, PruneIdle
<1>3. ASSUME NEW c \in Connections, DropPicked(c) PROVE PruneInv'
  <2>1. clock <= clock' /\ scaled' \subseteq scaled /\ \A d \in Connections : d # c => prune'[d] = prune[d]
    BY <1>1, <1>3 DEF DropPicked, ImagesInv, TypeOK
  <2>2. prune'[c].picked = {} /\ prune'[c].seen = {}
    BY <1>3 DEF DropPicked, NoPrune, ImagesInv, TypeOK
  <2>3. PruneCurrent(c)'
    BY <2>2 DEF PruneCurrent
  <2> QED
    BY <2>1, <2>3, PruneIdle
<1>4. ASSUME NEW c \in Connections, scaled' = scaled, clock' = clock,
             \/ \E cutoff \in 1 .. clock : ListOlderThan(c, cutoff)
             \/ \E target \in Boxes : StartShrinking(c, target)
             \/ \E p \in Visible(c) : /\ \A q \in Visible(c) : p.used <= q.used
                                      /\ prune' = [prune EXCEPT ![c].picked = @ \cup {p}]
      PROVE  PruneInv'
  <2>1. PruneCurrent(c)' /\ \A d \in Connections : d # c => prune'[d] = prune[d]
    BY <1>4, PicksAreOldest
  <2> QED
    BY <1>1, <1>4, <2>1, PruneIdle
<1>5. ASSUME NEW c \in Connections, NEW cutoff \in 1 .. clock, ListOlderThan(c, cutoff) PROVE PruneInv'
  BY <1>4, <1>5 DEF ListOlderThan
<1>6. ASSUME NEW c \in Connections, NEW target \in Boxes, StartShrinking(c, target) PROVE PruneInv'
  BY <1>4, <1>6 DEF StartShrinking
<1>7. ASSUME NEW c \in Connections, MeasureStorage(c) PROVE PruneInv'
  <2>1. CASE DropPicked(c)
    BY <1>3, <2>1
  <2>2. CASE UNCHANGED <<scaled, clock, prune>>
    BY <1>1, <2>2, PruneIdle
  <2> QED
    BY <1>7, <2>1, <2>2 DEF MeasureStorage
<1>8. ASSUME NEW c \in Connections, PickOldest(c) PROVE PruneInv'
  <2>1. CASE DropPicked(c)
    BY <1>3, <2>1
  <2> QED
    BY <1>4, <1>8, <2>1 DEF PickOldest
<1>9. ASSUME NEW c \in Connections, NEW who, NEW i, NEW box, ScaledHit(c, who, i, box) PROVE PruneInv'
  <2>1. PICK p \in scaled : scaled' = (scaled \ {p}) \cup {[p EXCEPT !.used = clock + 1]}
    BY <1>9 DEF ScaledHit, CachedFor
  <2>2. clock' = clock + 1 /\ prune' = prune
    BY <1>9 DEF ScaledHit
  <2>3. PICK w : w = [p EXCEPT !.used = clock + 1] /\ w.id = p.id /\ w.used = clock + 1
    <3>1. [p EXCEPT !.used = clock + 1].id = p.id /\ [p EXCEPT !.used = clock + 1].used = clock + 1
      BY <1>1 DEF Scaled
    <3> QED
      BY <3>1
  <2>4. \A x \in scaled : x.used \in Nat /\ x.id \in Nat /\ x.used <= clock /\ x.id <= clock
    BY <1>1 DEF ImagesInv, Drawn, PruneInv, Scaled
  <2>5. ASSUME NEW q \in scaled'
        PROVE  q.id <= clock' /\ \E x \in scaled : x.id = q.id /\ x.used <= q.used
    <3>1. CASE q \in scaled
      BY <1>1, <2>2, <2>4, <3>1
    <3>2. CASE q = w
      BY <1>1, <2>2, <2>3, <2>4, <3>2
    <3> QED
      BY <2>1, <2>3, <3>1, <3>2
  <2> QED
    BY <1>1, <2>2, <2>5, PruneKept
<1>10. ASSUME NEW c \in Connections, CommitScaled(c) PROVE PruneInv'
  <2>1. CASE UNCHANGED <<scaled, clock>>
    BY <1>1, <1>10, <2>1, PruneIdle DEF CommitScaled
  <2>2. CASE ~UNCHANGED <<scaled, clock>>
    <3>1. PICK w : /\ scaled' = scaled \cup {w} /\ w.id = clock + 2 /\ clock' = clock + 2 /\ prune' = prune
      <4>1. PICK s \in sources :
              /\ scaled' = scaled \cup
                   {[id |-> clock + 2, source |-> s.id, inst |-> clock + 1,
                     box |-> Clipped(tx[c].box, MaxPublic), used |-> clock + 2]}
              /\ clock' = clock + 2
        BY <1>10, <2>2 DEF CommitScaled
      <4>2. prune' = prune
        BY <1>10 DEF CommitScaled
      <4> QED
        BY <4>1, <4>2
    <3>2. \A x \in scaled : x.used \in Nat /\ x.id \in Nat /\ x.id <= clock
      BY <1>1 DEF PruneInv, Scaled
    <3>3. \A q \in scaled' : /\ q.id <= clock'
                             /\ q.id > clock \/ \E x \in scaled : x.id = q.id /\ x.used <= q.used
      BY <1>1, <3>1, <3>2
    <3> QED
      BY <1>1, <3>1, <3>3, PruneKept
  <2> QED
    BY <2>1, <2>2
<1>11. ASSUME Next, \A c \in Connections :
                /\ ~DeleteListed(c) /\ ~MeasureStorage(c) /\ ~PickOldest(c) /\ ~CommitScaled(c)
                /\ \A cutoff \in 1 .. clock : ~ListOlderThan(c, cutoff)
                /\ \A target \in Boxes : ~StartShrinking(c, target)
                /\ \A who \in Callers, i \in Items, box \in Boxes : ~ScaledHit(c, who, i, box)
       PROVE  PruneInv'
  <2>1. prune' = prune /\ clock <= clock' /\ scaled' \subseteq scaled
    BY <1>11, OthersPrune
  <2> QED
    BY <2>1, PruneIdle
<1>12. ASSUME NEW c \in Connections, DeleteListed(c) PROVE PruneInv'
  BY <1>3, <1>12 DEF DeleteListed
<1> QED
  BY <1>2, <1>5, <1>6, <1>7, <1>8, <1>9, <1>10, <1>11, <1>12

LEMMA PruneAlways == Spec => [](ImagesInv /\ PruneInv)
<1>1. ImagesInv /\ PruneInv /\ [Next]_vars => (ImagesInv /\ PruneInv)'
  BY ImagesNext, PruneNext
<1> QED
  BY <1>1, ImagesInit, PruneInit, PTL DEF Spec

\* A copy goes while its source stays only in a pruning that had picked it.
LEMMA PruneStep ==
  ASSUME ImagesInv, PruneInv, [Next]_vars, sources' = sources,
         NEW p \in scaled, p.id \notin Ids(scaled')
  PROVE  \E c \in Connections : \E r \in prune[c].picked :
           /\ r.id = p.id
           /\ \A q \in scaled' : q.id \in prune[c].seen => r.used <= q.used
<1>1. p \notin scaled'
  BY DEF Ids
<1>2. ASSUME NEW c \in Connections, DropPicked(c)
      PROVE  \E r \in prune[c].picked : /\ r.id = p.id
                                        /\ \A q \in scaled' : q.id \in prune[c].seen => r.used <= q.used
  <2>1. scaled' = scaled \ (scaled \ Visible(c))
    BY <1>2 DEF DropPicked
  <2>2. PICK r \in prune[c].picked : r.id = p.id
    BY <1>1, <2>1 DEF Visible, Ids
  <2>3. \A q \in scaled' : q \in scaled /\ q.id \notin Ids(prune[c].picked)
    BY <2>1 DEF Visible
  <2> QED
    BY <2>2, <2>3 DEF PruneInv, PruneCurrent
<1>3. CASE scaled \subseteq scaled'
  BY <1>1, <1>3
<1>4. ASSUME NEW c \in Connections, NEW who, NEW i, NEW box, ScaledHit(c, who, i, box) PROVE FALSE
  <2>1. PICK x \in scaled : scaled' = (scaled \ {x}) \cup {[x EXCEPT !.used = clock + 1]}
    BY <1>4 DEF ScaledHit, CachedFor
  <2>2. x \in Scaled
    BY DEF ImagesInv, TypeOK
  <2>3. [x EXCEPT !.used = clock + 1].id = x.id
    BY <2>2 DEF Scaled
  <2>4. x.id \in Ids(scaled')
    BY <2>1, <2>3 DEF Ids
  <2> QED
    BY <1>1, <2>1, <2>4
<1>5. ASSUME NEW c \in Connections, NEW k,
             ListOlderThan(c, k) \/ StartShrinking(c, k) \/ CommitScaled(c)
      PROVE  scaled \subseteq scaled'
  BY <1>5 DEF ListOlderThan, StartShrinking, CommitScaled
<1>6. ASSUME NEW c \in Connections, DeleteListed(c) \/ MeasureStorage(c) \/ PickOldest(c)
      PROVE  DropPicked(c) \/ scaled \subseteq scaled'
  BY <1>6 DEF DeleteListed, MeasureStorage, PickOldest
<1>7. ASSUME Next, \A c \in Connections :
                /\ ~DeleteListed(c) /\ ~MeasureStorage(c) /\ ~PickOldest(c) /\ ~CommitScaled(c)
                /\ \A cutoff \in 1 .. clock : ~ListOlderThan(c, cutoff)
                /\ \A target \in Boxes : ~StartShrinking(c, target)
                /\ \A who \in Callers, i \in Items, box \in Boxes : ~ScaledHit(c, who, i, box)
      PROVE  scaled \subseteq scaled'
  BY <1>7, OthersPrune
<1>8. CASE UNCHANGED vars
  BY <1>3, <1>8 DEF vars
<1> QED
  BY <1>2, <1>3, <1>4, <1>5, <1>6, <1>7, <1>8

\* A replacement is one transaction, so only a delete leaves an item without its photo,
\* and a copy that pruning drops had, when it was picked, been unused for at least as
\* long as any copy there at the start that is kept (image_helper.cpp:250, :517-580).
THEOREM PhotosAlwaysSurvive == Spec => PhotosSurvive
<1> DEFINE Replaced(i) == SourceOf(i) # {} /\ SourceOf(i)' = {} =>
                            \E c \in Connections : tx[c].pc = "deleting" /\ tx[c].item = i
           Pruned == sources' = sources =>
                       \A p \in scaled : p.id \notin Ids(scaled') =>
                         \E c \in Connections : \E r \in prune[c].picked :
                           /\ r.id = p.id
                           /\ \A q \in scaled' : q.id \in prune[c].seen => r.used <= q.used
<1>1. ImagesInv /\ [Next]_vars => [\A i \in Items : Replaced(i)]_vars
  BY ReplaceStep
<1>2. ImagesInv /\ PruneInv /\ [Next]_vars => [Pruned]_vars
  BY PruneStep
<1>3. Spec => [][\A i \in Items : Replaced(i)]_vars
  BY <1>1, ImagesAlways, PTL DEF Spec
<1>4. Spec => [][Pruned]_vars
  BY <1>2, PruneAlways, PTL DEF Spec
<1> QED
  BY <1>3, <1>4 DEF PhotosSurvive, ReplaceKeepsAPhoto, RecentlyUsedSurvive

-------------------------------------------------------------------------------
(* The studio's look                                                        *)

\* The numbers are well-founded.
LEMMA LeastNumber ==
  ASSUME NEW T \in SUBSET Nat, T # {}
  PROVE  \E x \in T : \A y \in T : x <= y
<1>1. PICK x \in T : \A y \in T : ~(<<y, x>> \in OpToRel(<, Nat))
  BY WFMin, NatLessThanWellFounded
<1>2. \A y \in T : ~(y < x)
  BY <1>1 DEF OpToRel
<1> QED
  BY <1>2

-------------------------------------------------------------------------------
(* Order *)

\* E puts the members of S one after another.
StrictOrder(S, E) ==
  /\ \A x \in S : <<x, x>> \notin E
  /\ \A x, y, z \in S : <<x, y>> \in E /\ <<y, z>> \in E => <<x, z>> \in E
  /\ \A x, y \in S : x # y => <<x, y>> \in E \/ <<y, x>> \in E

\* Sorted enumerates a finite set: the k-th member is the one with k members up to it.
LEMMA SortedExists ==
  ASSUME NEW S, IsFiniteSet(S), NEW E, StrictOrder(S, E)
  PROVE  /\ Sorted(S, E) \in [1 .. Cardinality(S) -> S]
         /\ \A i, j \in 1 .. Cardinality(S) : i < j => <<Sorted(S, E)[i], Sorted(S, E)[j]>> \in E
<1> DEFINE N == Cardinality(S)
           upTo(i) == {m \in S : m = i \/ <<m, i>> \in E}
           rank == [i \in S |-> Cardinality(upTo(i))]
<1>0. USE DEF StrictOrder
<1>1. N \in Nat
  BY FS_CardinalityType
<1>2. ASSUME NEW i \in S PROVE rank[i] \in 1 .. N
  <2>1. IsFiniteSet(upTo(i)) /\ Cardinality(upTo(i)) <= N
    BY FS_Subset
  <2>2. i \in upTo(i)
    OBVIOUS
  <2>3. PICK U : U = upTo(i) /\ U # {}
    BY <2>2
  <2>4. IsFiniteSet(U) /\ Cardinality(U) <= N
    BY <2>1, <2>3
  <2>5. Cardinality(U) \in Nat
    BY <2>4, FS_CardinalityType
  <2>6. Cardinality(U) # 0
    BY <2>3, <2>4, FS_EmptySet
  <2> QED
    BY <1>1, <2>3, <2>4, <2>5, <2>6
<1>3. ASSUME NEW i \in S, NEW j \in S, <<i, j>> \in E PROVE rank[i] < rank[j]
  <2>1. upTo(i) \in SUBSET upTo(j) /\ upTo(i) # upTo(j)
    <3>1. j \notin upTo(i) /\ j \in upTo(j)
      BY <1>3
    <3>2. \A m \in upTo(i) : m \in upTo(j)
      BY <1>3
    <3> QED
      BY <3>1, <3>2
  <2>2. IsFiniteSet(upTo(j))
    BY FS_Subset
  <2>3. Cardinality(upTo(i)) <= Cardinality(upTo(j)) /\ Cardinality(upTo(i)) # Cardinality(upTo(j))
    BY <2>1, <2>2, FS_Subset
  <2> QED
    BY <1>2, <2>3
<1> HIDE DEF rank, N
<1>4. ASSUME NEW k \in 1 .. N PROVE \E i \in S : rank[i] = k
  <2> SUFFICES ASSUME \A i \in S : rank[i] # k PROVE FALSE
    OBVIOUS
  <2> DEFINE I == 1 .. N
             T == I \ {k}
  <2>1. IsFiniteSet(I) /\ Cardinality(I) = N /\ k \in I
    BY <1>1, FS_Interval
  <2>2. rank \in [S -> T]
    BY <1>2 DEF rank
  <2> HIDE DEF I
  <2>3. IsFiniteSet(T) /\ Cardinality(T) = N - 1
    BY <2>1, FS_RemoveElement
  <2>4. Cardinality(T) < Cardinality(S)
    BY <1>1, <2>3 DEF N
  <2> HIDE DEF T
  <2>5. PICK x \in S, y \in S : x # y /\ rank[x] = rank[y]
    BY <2>2, <2>3, <2>4, FS_PigeonHole
  <2>6. <<x, y>> \in E \/ <<y, x>> \in E
    BY <2>5
  <2> QED
    BY <1>2, <1>3, <2>5, <2>6
<1> DEFINE f == [k \in 1 .. N |-> CHOOSE i \in S : rank[i] = k]
<1>5. \A k \in 1 .. N : f[k] \in S /\ rank[f[k]] = k
  BY <1>4
<1>6. f \in [1 .. N -> S]
  BY <1>5
<1> HIDE DEF f
<1>7. ASSUME NEW k \in 1 .. N, NEW m \in 1 .. N, k < m PROVE <<f[k], f[m]>> \in E
  <2>1. PICK x \in S, y \in S : x = f[k] /\ y = f[m] /\ rank[x] = k /\ rank[y] = m
    BY <1>5
  <2>2. x # y /\ <<y, x>> \notin E
    BY <1>3, <1>7, <2>1
  <2> QED
    BY <2>1, <2>2
<1> QED
  BY <1>6, <1>7 DEF Sorted, N

\* All members, each once, in an order.
Enumerates(q, n, S, E) ==
  /\ q \in [1 .. n -> S]
  /\ \A i, j \in 1 .. n : i < j => <<q[i], q[j]>> \in E
  /\ \A i, j \in 1 .. n : q[i] = q[j] => i = j
  /\ \A x \in S : \E i \in 1 .. n : q[i] = x

\* Every member has its place, and one only.
LEMMA SortedEnumerates ==
  ASSUME NEW S, IsFiniteSet(S), NEW E, StrictOrder(S, E)
  PROVE  Cardinality(S) \in Nat /\ Enumerates(Sorted(S, E), Cardinality(S), S, E)
<1> DEFINE N == Cardinality(S)
           q == Sorted(S, E)
<1>1. N \in Nat
  BY FS_CardinalityType
<1>2. q \in [1 .. N -> S] /\ \A i, j \in 1 .. N : i < j => <<q[i], q[j]>> \in E
  BY SortedExists
<1> HIDE DEF q
<1>3. ASSUME NEW i \in 1 .. N, NEW j \in 1 .. N, q[i] = q[j] PROVE i = j
  <2>0. N \in Nat
    BY <1>1
  <2> HIDE DEF N
  <2>1. i < j \/ j < i \/ i = j
    BY <2>0
  <2>2. q[i] \in S /\ <<q[i], q[i]>> \notin E
    BY <1>2 DEF StrictOrder
  <2> QED
    BY <1>2, <1>3, <2>1, <2>2
<1>4. ASSUME NEW x \in S PROVE \E i \in 1 .. N : q[i] = x
  <2> SUFFICES ASSUME \A i \in 1 .. N : q[i] # x PROVE FALSE
    OBVIOUS
  <2> DEFINE I == 1 .. N
             T == S \ {x}
  <2>1. IsFiniteSet(I) /\ Cardinality(I) = N
    BY <1>1, FS_Interval
  <2>2. IsFiniteSet(T) /\ Cardinality(T) = N - 1
    BY FS_RemoveElement
  <2>3. q \in [I -> T]
    BY <1>2
  <2>4. Cardinality(T) < Cardinality(I)
    BY <1>1, <2>1, <2>2
  <2> HIDE DEF I, T
  <2>5. PICK i \in I, j \in I : i # j /\ q[i] = q[j]
    BY <2>1, <2>2, <2>3, <2>4, FS_PigeonHole
  <2> USE DEF I
  <2> QED
    BY <1>3, <2>5
<1>5. Enumerates(q, N, S, E)
  <2> HIDE DEF N
  <2> QED
    BY ONLY <1>2, <1>3, <1>4 DEF Enumerates
<1> QED
  BY ONLY <1>1, <1>5 DEF q, N

-------------------------------------------------------------------------------
(* Sequences *)

\* A list has a length and its positions.
LEMMA ListedDomain ==
  ASSUME NEW q, Listed(q)
  PROVE  Len(q) \in Nat /\ DOMAIN q = 1 .. Len(q) /\ q = [i \in 1 .. Len(q) |-> q[i]]
BY DEF Listed

\* A function on the first n numbers is a list.
LEMMA MakeListed ==
  ASSUME NEW q, NEW n \in Nat, q = [i \in 1 .. n |-> q[i]]
  PROVE  Listed(q) /\ Len(q) = n
<1>1. \A i \in 1 .. n : q[i] \in ToSet(q)
  BY DEF ToSet
<1>2. q \in Seq(ToSet(q))
  BY <1>1
<1> QED
  BY <1>2 DEF Listed

\* One more entry at the end.
LEMMA AppendListed ==
  ASSUME NEW q, Listed(q), NEW x
  PROVE  /\ Listed(Append(q, x)) /\ Len(Append(q, x)) = Len(q) + 1
         /\ \A i \in 1 .. Len(q) : Append(q, x)[i] = q[i]
         /\ Append(q, x)[Len(q) + 1] = x
         /\ ToSet(Append(q, x)) = ToSet(q) \cup {x}
<1> DEFINE T == ToSet(q) \cup {x}
           a == Append(q, x)
<1>0. Len(q) \in Nat /\ DOMAIN q = 1 .. Len(q)
  BY ListedDomain
<1>1. q \in Seq(T) /\ x \in T
  BY DEF Listed, ToSet
<1>2. /\ a \in Seq(T) /\ Len(a) = Len(q) + 1 /\ DOMAIN a = 1 .. Len(q) + 1
      /\ \A i \in 1 .. Len(q) : a[i] = q[i]
      /\ a[Len(q) + 1] = x
  BY <1>1
<1> HIDE DEF a, T
<1>3. a = [i \in 1 .. Len(q) + 1 |-> a[i]]
  BY <1>2
<1>4. Listed(a)
  BY <1>0, <1>3, MakeListed
<1>5. ToSet(a) = ToSet(q) \cup {x}
  <2>1. \A i \in 1 .. Len(q) + 1 : i \in 1 .. Len(q) \/ i = Len(q) + 1
    BY <1>0
  <2>2. Len(q) + 1 \in 1 .. Len(q) + 1 /\ 1 .. Len(q) \subseteq 1 .. Len(q) + 1
    BY <1>0
  <2> QED
    BY <1>0, <1>2, <2>1, <2>2 DEF ToSet
<1> QED
  BY <1>2, <1>4, <1>5 DEF a

\* Positions up to n are finitely many.
LEMMA PositionsFinite ==
  ASSUME NEW n \in Nat, NEW P \in SUBSET (1 .. n)
  PROVE  IsFiniteSet(P) /\ Cardinality(P) \in Nat
<1> DEFINE I == 1 .. n
<1>1. IsFiniteSet(I)
  BY FS_Interval
<1> HIDE DEF I
<1>2. IsFiniteSet(P)
  BY <1>1, FS_Subset DEF I
<1> QED
  BY <1>2, FS_CardinalityType

\* The positions in P, counted from the first.
Place(P) == Sorted(P, Ascending(P))

\* Place goes through the positions upwards, each once.
LEMMA PlaceAscends ==
  ASSUME NEW n \in Nat, NEW P \in SUBSET (1 .. n)
  PROVE  /\ Cardinality(P) \in Nat
         /\ Place(P) \in [1 .. Cardinality(P) -> P]
         /\ \A i, j \in 1 .. Cardinality(P) : i < j => Place(P)[i] < Place(P)[j]
         /\ \A i, j \in 1 .. Cardinality(P) : Place(P)[i] = Place(P)[j] => i = j
         /\ \A p \in P : \E i \in 1 .. Cardinality(P) : Place(P)[i] = p
<1> DEFINE E == Ascending(P)
           N == Cardinality(P)
           at == Place(P)
<1>1. IsFiniteSet(P) /\ N \in Nat
  BY PositionsFinite
<1>2. P \subseteq Nat /\ \A x, y \in P : <<x, y>> \in E <=> x < y
  BY DEF Ascending
<1>3. StrictOrder(P, E)
  <2> HIDE DEF E
  <2> QED
    BY <1>2 DEF StrictOrder
<1> HIDE DEF E
<1>4. /\ at \in [1 .. N -> P]
      /\ \A i, j \in 1 .. N : i < j => <<at[i], at[j]>> \in E
      /\ \A i, j \in 1 .. N : at[i] = at[j] => i = j
      /\ \A x \in P : \E i \in 1 .. N : at[i] = x
  <2>1. Enumerates(at, N, P, E)
    BY <1>1, <1>3, SortedEnumerates DEF Place, E
  <2> HIDE DEF at, N
  <2> QED
    BY ONLY <2>1 DEF Enumerates
<1> HIDE DEF at, N
<1>5. \A i, j \in 1 .. N : i < j => at[i] < at[j]
  BY <1>2, <1>4
<1> QED
  BY <1>1, <1>4, <1>5 DEF N, at

\* ChosenAt keeps what stands at the positions, in its order.
LEMMA ChosenKeeps ==
  ASSUME NEW q, NEW n \in Nat, NEW P \in SUBSET (1 .. n)
  PROVE  /\ Listed(ChosenAt(q, P)) /\ Len(ChosenAt(q, P)) = Cardinality(P)
         /\ DOMAIN ChosenAt(q, P) = 1 .. Cardinality(P)
         /\ \A i \in 1 .. Cardinality(P) : ChosenAt(q, P)[i] = q[Place(P)[i]]
<1> DEFINE N == Cardinality(P)
           c == ChosenAt(q, P)
<1>1. N \in Nat
  BY PlaceAscends
<1>2. c = [k \in 1 .. N |-> q[Place(P)[k]]]
  BY DEF ChosenAt, SortedAt, Place
<1> HIDE DEF c, N
<1>3. c = [k \in 1 .. N |-> c[k]]
  BY <1>2
<1>4. Listed(c) /\ Len(c) = N
  BY <1>1, <1>3, MakeListed
<1>5. DOMAIN c = 1 .. N /\ \A i \in 1 .. N : c[i] = q[Place(P)[i]]
  BY <1>2
<1> QED
  BY <1>4, <1>5 DEF c, N

\* Everything in c stands in q at a position in P.
ComesFrom(c, q, P) == \A i \in DOMAIN c : \E p \in P : c[i] = q[p]

\* What is kept is what stands at the positions.
LEMMA ChosenMembers ==
  ASSUME NEW q, NEW n \in Nat, NEW P \in SUBSET (1 .. n)
  PROVE  /\ \A i \in P : q[i] \in ToSet(ChosenAt(q, P))
         /\ \A x \in ToSet(ChosenAt(q, P)) : \E i \in P : x = q[i]
         /\ ComesFrom(ChosenAt(q, P), q, P)
<1> DEFINE c == ChosenAt(q, P)
           N == Cardinality(P)
           at == Place(P)
<1>1. at \in [1 .. N -> P] /\ \A p \in P : \E i \in 1 .. N : at[i] = p
  BY PlaceAscends
<1>2. DOMAIN c = 1 .. N /\ \A i \in 1 .. N : c[i] = q[at[i]]
  BY ChosenKeeps
<1> HIDE DEF c, N, at
<1>3. \A i \in 1 .. N : at[i] \in P /\ c[i] = q[at[i]]
  BY <1>1, <1>2
<1>4. \A p \in P : \E i \in 1 .. N : c[i] = q[p]
  BY <1>1, <1>2
<1>5. ToSet(c) = {c[i] : i \in 1 .. N}
  BY <1>2 DEF ToSet
<1>6. \A x \in ToSet(c) : \E i \in P : x = q[i]
  BY <1>3, <1>5
<1>7. \A i \in P : q[i] \in ToSet(c)
  BY <1>4, <1>5
<1> QED
  BY <1>2, <1>3, <1>6, <1>7 DEF c, ComesFrom

\* No member stands twice in q.
Once(q) == \A i, j \in 1 .. Len(q) : q[i] = q[j] => i = j

\* Two lists without a common member, one after the other.
LEMMA ConcatListed ==
  ASSUME NEW a, NEW b, Listed(a), Listed(b), Once(a), Once(b), ToSet(a) \cap ToSet(b) = {}
  PROVE  /\ Listed(a \o b) /\ Once(a \o b)
         /\ ToSet(a \o b) = ToSet(a) \cup ToSet(b)
<1> DEFINE T == ToSet(a) \cup ToSet(b)
           c == a \o b
           m == Len(a)
           n == Len(b)
<1>1. /\ m \in Nat /\ DOMAIN a = 1 .. m /\ n \in Nat /\ DOMAIN b = 1 .. n
  BY ListedDomain
<1>2. a \in Seq(T) /\ b \in Seq(T)
  BY DEF Listed
<1>3. /\ c \in Seq(T) /\ Len(c) = m + n /\ DOMAIN c = 1 .. m + n
      /\ \A i \in 1 .. m + n : c[i] = IF i <= m THEN a[i] ELSE b[i - m]
  BY <1>2
<1>4. ToSet(a) = {a[i] : i \in 1 .. m} /\ ToSet(b) = {b[i] : i \in 1 .. n}
  BY <1>1 DEF ToSet
<1> HIDE DEF c, m, n, T
<1>5. c = [i \in 1 .. m + n |-> c[i]]
  BY <1>3
<1>6. Listed(c)
  BY <1>1, <1>5, MakeListed
<1>7. \A i \in 1 .. m + n : \/ i \in 1 .. m /\ c[i] = a[i] /\ c[i] \in ToSet(a)
                            \/ i - m \in 1 .. n /\ c[i] = b[i - m] /\ c[i] \in ToSet(b)
  BY <1>1, <1>3, <1>4
<1>8. Once(c)
  <2> SUFFICES ASSUME NEW i \in 1 .. m + n, NEW j \in 1 .. m + n, c[i] = c[j] PROVE i = j
    BY <1>3 DEF Once
  <2>1. \/ i \in 1 .. m /\ j \in 1 .. m /\ a[i] = a[j]
        \/ i - m \in 1 .. n /\ j - m \in 1 .. n /\ b[i - m] = b[j - m]
    BY <1>7
  <2>2. (i \in 1 .. m /\ j \in 1 .. m /\ a[i] = a[j]) => i = j
    BY DEF Once, m
  <2>3. (i - m \in 1 .. n /\ j - m \in 1 .. n /\ b[i - m] = b[j - m]) => i - m = j - m
    BY DEF Once, n
  <2>4. i - m = j - m => i = j
    BY <1>1
  <2> QED
    BY <2>1, <2>2, <2>3, <2>4
<1>9. ToSet(c) = {c[i] : i \in 1 .. m + n}
  BY <1>3 DEF ToSet
<1>10. ToSet(c) \subseteq T
  BY <1>7, <1>9 DEF T
<1>11. T \subseteq ToSet(c)
  <2>1. ASSUME NEW i \in 1 .. m PROVE a[i] \in ToSet(c)
    <3>1. i \in 1 .. m + n /\ c[i] = a[i]
      BY <1>1, <1>3
    <3> QED
      BY <1>9, <3>1
  <2>2. ASSUME NEW i \in 1 .. n PROVE b[i] \in ToSet(c)
    <3>1. i + m \in 1 .. m + n /\ ~(i + m <= m) /\ (i + m) - m = i
      BY <1>1
    <3>2. c[i + m] = b[i]
      BY <1>3, <3>1
    <3> QED
      BY <1>9, <3>1, <3>2
  <2> QED
    BY <1>4, <2>1, <2>2 DEF T
<1> QED
  BY <1>6, <1>8, <1>10, <1>11 DEF c, T

OnceAt(q, P) == \A i, j \in P : q[i] = q[j] => i = j

\* What stands once is kept once.
LEMMA ChosenOnce ==
  ASSUME NEW q, NEW n \in Nat, NEW P \in SUBSET (1 .. n), OnceAt(q, P)
  PROVE  Once(ChosenAt(q, P))
<1> DEFINE c == ChosenAt(q, P)
           N == Cardinality(P)
           at == Place(P)
<1>1. at \in [1 .. N -> P] /\ \A i, j \in 1 .. N : at[i] = at[j] => i = j
  BY PlaceAscends
<1>2. Len(c) = N
  BY ChosenKeeps
<1>2a. DOMAIN c = 1 .. N /\ \A i \in 1 .. N : c[i] = q[at[i]]
  BY ChosenKeeps
<1> HIDE DEF c, N, at
<1>3. ASSUME NEW i \in 1 .. N, NEW j \in 1 .. N, c[i] = c[j] PROVE i = j
  <2>1. at[i] \in P /\ at[j] \in P /\ q[at[i]] = q[at[j]]
    BY <1>1, <1>2a, <1>3
  <2> QED
    BY <1>1, <2>1 DEF OnceAt
<1> QED
  BY <1>2, <1>3 DEF Once, c

\* A list without repetition is as long as the set of its members.
LEMMA OnceCounts ==
  ASSUME NEW q, Listed(q), Once(q)
  PROVE  IsFiniteSet(ToSet(q)) /\ Cardinality(ToSet(q)) = Len(q)
<1> DEFINE I == 1 .. Len(q)
           T == ToSet(q)
<1>1. Len(q) \in Nat /\ DOMAIN q = I /\ q = [i \in I |-> q[i]]
  BY ListedDomain
<1>2. IsFiniteSet(I) /\ Cardinality(I) = Len(q)
  BY <1>1, FS_Interval
<1>3. T = {q[i] : i \in I}
  BY <1>1 DEF ToSet
<1>4. \A i, j \in I : q[i] = q[j] => i = j
  BY DEF Once
<1> HIDE DEF I, T
<1>5. q \in [I -> T]
  BY <1>1, <1>3
<1>6. \A t \in T : \E i \in I : q[i] = t
  BY <1>3
<1>7. q \in Surjection(I, T)
  BY <1>5, <1>6 DEF Surjection
<1>8. q \in Injection(I, T)
  BY <1>4, <1>5 DEF Injection, IsInjective
<1>9. IsFiniteSet(T) /\ Cardinality(T) = Cardinality(I)
  BY <1>2, <1>7, <1>8, FS_Surjection
<1> QED
  BY <1>2, <1>9 DEF T

\* A list has finitely many members.
LEMMA ListedFinite ==
  ASSUME NEW q, Listed(q)
  PROVE  IsFiniteSet(ToSet(q))
<1> DEFINE I == 1 .. Len(q)
           T == ToSet(q)
<1>1. Len(q) \in Nat /\ DOMAIN q = I /\ q = [i \in I |-> q[i]]
  BY ListedDomain
<1>2. IsFiniteSet(I)
  BY <1>1, FS_Interval
<1>3. T = {q[i] : i \in I}
  BY <1>1 DEF ToSet
<1> HIDE DEF I, T
<1>4. q \in [I -> T] /\ \A t \in T : \E i \in I : q[i] = t
  BY <1>1, <1>3
<1>5. q \in Surjection(I, T)
  BY <1>4 DEF Surjection
<1>6. IsFiniteSet(T)
  BY <1>2, <1>5, FS_Surjection
<1> QED
  BY <1>6 DEF T

\* The last position of a set.
LEMMA LastPosition ==
  ASSUME NEW n \in Nat, NEW P \in SUBSET (1 .. n), P # {}
  PROVE  Max(P) \in P /\ \A i \in P : i <= Max(P)
<1> DEFINE T == {n - i : i \in P}
<1>1. T \in SUBSET Nat /\ T # {}
  OBVIOUS
<1> HIDE DEF T
<1>2. PICK x \in T : \A y \in T : x <= y
  BY <1>1, LeastNumber
<1>3. PICK m \in P : x = n - m
  BY DEF T
<1>4. \A i \in P : n - m <= n - i
  BY <1>2, <1>3 DEF T
<1>5. \A i \in P : m >= i
  BY <1>4
<1>6. Max(P) \in P /\ \A i \in P : Max(P) >= i
  BY <1>5 DEF Max
<1> QED
  BY <1>6

-------------------------------------------------------------------------------
(* Storing a list of families *)

RowsFit(s) == Listed(s.rows) /\ Once(s.rows) /\ ToSet(s.rows) = DOMAIN s.fonts

NamesOf(list) == {list[i].family : i \in DOMAIN list}
LastOf(list, f) == Max({i \in DOMAIN list : list[i].family = f})

\* The last entry of a name that is listed.
LEMMA LastOfIs ==
  ASSUME NEW list, Listed(list), NEW f \in NamesOf(list)
  PROVE  /\ LastOf(list, f) \in DOMAIN list /\ list[LastOf(list, f)].family = f
         /\ \A i \in DOMAIN list : list[i].family = f => i <= LastOf(list, f)
<1> DEFINE P == {i \in DOMAIN list : list[i].family = f}
<1>1. Len(list) \in Nat /\ P \in SUBSET (1 .. Len(list))
  BY ListedDomain
<1>2. P # {}
  BY DEF NamesOf
<1> HIDE DEF P
<1>3. Max(P) \in P /\ \A i \in P : i <= Max(P)
  BY <1>1, <1>2, LastPosition
<1> QED
  BY <1>3 DEF P, LastOf

\* Each family has one row, the rows that stay keep their place, and the last entry
\* of a name is the one stored.
LEMMA FamiliesStored ==
  ASSUME NEW s, RowsFit(s), NEW list, Listed(list), NEW keep \in BOOLEAN, NEW row
  PROVE  LET st == StoreFamilies(s, list, keep, row) IN
         /\ st.fonts = [f \in (IF keep THEN DOMAIN s.fonts ELSE {}) \cup NamesOf(list) |->
                          IF f \in NamesOf(list) THEN row[LastOf(list, f)] ELSE s.fonts[f]]
         /\ RowsFit(st)
<1> DEFINE st == StoreFamilies(s, list, keep, row)
           D == DOMAIN s.fonts
           names == NamesOf(list)
           old == IF keep THEN D ELSE D \cap names
           nm == [i \in DOMAIN list |-> list[i].family]
           added == {i \in DOMAIN list : /\ list[i].family \notin D
                                         /\ \A j \in 1 .. i - 1 : list[j].family # list[i].family}
           kept == {i \in DOMAIN s.rows : s.rows[i] \in old}
           a == ChosenAt(s.rows, kept)
           b == ChosenAt(nm, added)
<1>1. st.fonts = [f \in old \cup names |-> IF f \in names THEN row[LastOf(list, f)] ELSE s.fonts[f]]
  BY DEF StoreFamilies, NamesOf, LastOf
<1>2. st.rows = a \o b
  BY DEF StoreFamilies, NamesOf
<1>3. old \cup names = (IF keep THEN D ELSE {}) \cup names
  OBVIOUS
<1>4. /\ Len(s.rows) \in Nat /\ DOMAIN s.rows = 1 .. Len(s.rows)
      /\ Len(list) \in Nat /\ DOMAIN list = 1 .. Len(list)
  BY ListedDomain DEF RowsFit
<1>5. kept \in SUBSET (1 .. Len(s.rows)) /\ added \in SUBSET (1 .. Len(list))
  BY <1>4
<1>6. OnceAt(s.rows, kept)
  BY <1>5 DEF OnceAt, RowsFit, Once
<1>7. OnceAt(nm, added)
  <2> SUFFICES ASSUME NEW i \in added, NEW j \in added, nm[i] = nm[j] PROVE i = j
    BY DEF OnceAt
  <2>1. list[i].family = list[j].family
    OBVIOUS
  <2>2. i \in Nat /\ j \in Nat /\ i >= 1 /\ j >= 1
    BY <1>4
  <2>3. ~(i < j) /\ ~(j < i)
    <3>1. i < j => i \in 1 .. j - 1
      BY <2>2
    <3>2. j < i => j \in 1 .. i - 1
      BY <2>2
    <3> QED
      BY <2>1, <3>1, <3>2
  <2> QED
    BY <2>2, <2>3
<1>8. Listed(a) /\ Once(a) /\ Listed(b) /\ Once(b)
  <2>1. Listed(a) /\ Once(a)
    <3> HIDE DEF kept
    <3> QED
      BY <1>4, <1>5, <1>6, ChosenKeeps, ChosenOnce
  <2>2. Listed(b) /\ Once(b)
    <3> HIDE DEF added, nm
    <3> QED
      BY <1>4, <1>5, <1>7, ChosenKeeps, ChosenOnce
  <2> QED
    BY <2>1, <2>2
<1>9. ToSet(a) = old
  <2>1. /\ \A i \in kept : s.rows[i] \in ToSet(a)
        /\ \A x \in ToSet(a) : \E i \in kept : x = s.rows[i]
    <3> HIDE DEF kept
    <3> QED
      BY <1>4, <1>5, ChosenMembers
  <2>2. \A x \in D : \E i \in DOMAIN s.rows : s.rows[i] = x
    BY DEF RowsFit, ToSet
  <2>3. \A x \in old : \E i \in kept : s.rows[i] = x
    BY <2>2
  <2> QED
    BY <2>1, <2>3
<1>10. ToSet(b) = names \ D
  <2>1. /\ \A i \in added : nm[i] \in ToSet(b)
        /\ \A x \in ToSet(b) : \E i \in added : x = nm[i]
    <3> HIDE DEF added, nm
    <3> QED
      BY <1>4, <1>5, ChosenMembers
  <2>2. \A i \in added : nm[i] \in names \ D
    BY DEF NamesOf
  <2>3. ASSUME NEW x \in names \ D PROVE \E i \in added : nm[i] = x
    <3> DEFINE P == {i \in DOMAIN list : list[i].family = x}
    <3>1. P \in SUBSET Nat /\ P # {}
      BY <1>4, <2>3 DEF NamesOf
    <3> HIDE DEF P
    <3>2. PICK i \in P : \A j \in P : i <= j
      BY <3>1, LeastNumber
    <3>3. i \in DOMAIN list /\ list[i].family = x /\ i \in Nat
      BY <1>4 DEF P
    <3>4. \A j \in 1 .. i - 1 : j \in DOMAIN list /\ ~(i <= j)
      BY <1>4, <3>3
    <3>5. \A j \in 1 .. i - 1 : list[j].family # x
      BY <3>2, <3>4 DEF P
    <3>6. i \in added
      BY <2>3, <3>3, <3>5
    <3> QED
      BY <3>3, <3>6
  <2> HIDE DEF added, nm, names, D
  <2> QED
    BY <2>1, <2>2, <2>3
<1> HIDE DEF a, b, added, kept, nm, names
<1>11. ToSet(a) \cap ToSet(b) = {}
  BY <1>9, <1>10
<1>12. Listed(st.rows) /\ Once(st.rows) /\ ToSet(st.rows) = old \cup (names \ D)
  BY <1>2, <1>8, <1>9, <1>10, <1>11, ConcatListed
<1>13. DOMAIN st.fonts = old \cup names
  BY <1>1
<1>14. old \cup names = old \cup (names \ D)
  OBVIOUS
<1>15. RowsFit(st)
  BY <1>12, <1>13, <1>14 DEF RowsFit
<1> QED
  BY <1>1, <1>3, <1>15 DEF names

-------------------------------------------------------------------------------
(* The invariant of a look *)

FontsFit(fonts) ==
  /\ fonts = [f \in DOMAIN fonts |-> fonts[f]] /\ DOMAIN fonts \subseteq Families
  /\ \A f \in DOMAIN fonts : fonts[f] \in Font

\* Only a family of a service has one, and it is there.
Served(font, services) ==
  /\ font.service \in services \cup {NoService}
  /\ font.kind # "cdn" => font.service = NoService

SiteInv(s) ==
  /\ s = [slots |-> s.slots, role |-> s.role, services |-> s.services,
          fonts |-> s.fonts, rows |-> s.rows, assets |-> s.assets]
  /\ s.slots = [k \in Slots |-> s.slots[k]]
  /\ \A k \in Slots : StoredValue(s.slots[k]) /\ (k # Logo => ValidateSlotValue(s.slots[k]))
  /\ s.role \in Families \cup {""}
  /\ s.services \subseteq Services /\ IsFiniteSet(s.services)
  /\ FontsFit(s.fonts) /\ RowsFit(s)
  /\ \A f \in DOMAIN s.fonts : Served(s.fonts[f], s.services)
  /\ s.assets = [n \in DOMAIN s.assets |-> "image"]

BrandingInv ==
  /\ storage \in BOOLEAN
  /\ answer \in {"none", "saved", "saved in part", "checked", "refused"}
  /\ SiteInv(site)

\* Listing families and services keeps the look together.
LEMMA StoreKeepsSite ==
  ASSUME NEW s, SiteInv(s), NEW list, Listed(list), NamesOf(list) \subseteq Families,
         NEW keep \in BOOLEAN, NEW row, NEW V \in SUBSET Services, IsFiniteSet(V),
         keep => s.services \subseteq V,
         \A i \in DOMAIN list : row[i] \in Font /\ Served(row[i], V),
         NEW new, new = [s EXCEPT !.services = V,
                                  !.fonts = StoreFamilies(s, list, keep, row).fonts,
                                  !.rows = StoreFamilies(s, list, keep, row).rows]
  PROVE  SiteInv(new)
<1> DEFINE st == StoreFamilies(s, list, keep, row)
           names == NamesOf(list)
           D == DOMAIN s.fonts
<1>1. RowsFit(s)
  BY DEF SiteInv
<1>2. /\ st.fonts = [f \in (IF keep THEN D ELSE {}) \cup names |->
                       IF f \in names THEN row[LastOf(list, f)] ELSE s.fonts[f]]
      /\ RowsFit(st)
  BY <1>1, FamiliesStored
<1>3. new = [slots |-> s.slots, role |-> s.role, services |-> V,
             fonts |-> st.fonts, rows |-> st.rows, assets |-> s.assets]
  BY DEF SiteInv
<1>4. \A f \in names : LastOf(list, f) \in DOMAIN list
  BY LastOfIs
<1> HIDE DEF st, names
<1>5. \A f \in names : row[LastOf(list, f)] \in Font /\ Served(row[LastOf(list, f)], V)
  BY <1>4
<1>6. \A f \in D : s.fonts[f] \in Font /\ Served(s.fonts[f], s.services) /\ f \in Families
  BY DEF SiteInv, FontsFit
<1>7. keep => \A f \in D : Served(s.fonts[f], V)
  BY <1>6 DEF Served
<1>8. FontsFit(st.fonts) /\ \A f \in DOMAIN st.fonts : Served(st.fonts[f], V)
  <2>1. DOMAIN st.fonts = (IF keep THEN D ELSE {}) \cup names
    BY <1>2
  <2>2. \A f \in DOMAIN st.fonts : st.fonts[f] = IF f \in names THEN row[LastOf(list, f)] ELSE s.fonts[f]
    BY <1>2
  <2>3. \A f \in DOMAIN st.fonts : st.fonts[f] \in Font /\ Served(st.fonts[f], V)
    BY <2>1, <2>2, <1>5, <1>6, <1>7
  <2>4. DOMAIN st.fonts \subseteq Families
    BY <2>1, <1>6 DEF names
  <2>5. st.fonts = [f \in DOMAIN st.fonts |-> st.fonts[f]]
    BY <1>2
  <2> QED
    BY <2>3, <2>4, <2>5 DEF FontsFit
<1>9. /\ new.slots = s.slots /\ new.role = s.role /\ new.services = V /\ new.fonts = st.fonts
      /\ new.rows = st.rows /\ new.assets = s.assets
  BY ONLY <1>3
<1>10. RowsFit(new)
  BY <1>2, <1>9 DEF RowsFit
<1> QED
  BY <1>3, <1>8, <1>9, <1>10 DEF SiteInv

\* The keys of listed services are services, and finitely many.
LEMMA KeysFit ==
  ASSUME NEW q \in Seq([key : Services, valid : BOOLEAN])
  PROVE  /\ {q[i].key : i \in DOMAIN q} \subseteq Services
         /\ IsFiniteSet({q[i].key : i \in DOMAIN q})
<1> DEFINE k == [i \in 1 .. Len(q) |-> q[i].key]
<1>0. Len(q) \in Nat /\ DOMAIN q = 1 .. Len(q)
  OBVIOUS
<1>1. \A i \in 1 .. Len(q) : q[i].key \in Services
  <2> DEFINE R == [key : Services, valid : BOOLEAN]
  <2>1. \A x \in R : x.key \in Services
    OBVIOUS
  <2>0. q \in Seq(R)
    OBVIOUS
  <2> HIDE DEF R
  <2>2. \A i \in 1 .. Len(q) : q[i] \in R
    BY <2>0
  <2> QED
    BY <2>1, <2>2
<1>2. k = [i \in 1 .. Len(q) |-> k[i]] /\ DOMAIN k = 1 .. Len(q)
  OBVIOUS
<1>3. ToSet(k) = {q[i].key : i \in DOMAIN q}
  BY <1>0 DEF ToSet
<1> HIDE DEF k
<1>4. Listed(k)
  BY <1>0, <1>2, MakeListed
<1>5. IsFiniteSet(ToSet(k))
  BY <1>4, ListedFinite
<1> QED
  BY <1>0, <1>1, <1>3, <1>5

\* The names of listed families are families.
LEMMA NamesFit ==
  ASSUME NEW l, FontLists(l)
  PROVE  /\ Listed(l.families) /\ NamesOf(l.families) \subseteq Families
         /\ \A i \in DOMAIN l.families : BundleFamily(l.families[i])
BY DEF FontLists, NamesOf, BundleFamily, ToSet

-------------------------------------------------------------------------------
(* Saving the inventory *)

InventoryRow(s, keys, f, i) ==
  [kind |-> f.kind, ordinal |-> 10 * i,
   service |-> IF f.kind = "cdn" /\ f.service \in keys THEN f.service ELSE NoService,
   faces |-> IF f.family \in DOMAIN s.fonts THEN s.fonts[f.family].faces ELSE <<>>]

\* Saving the inventory keeps the look together and the faces of what stays.
LEMMA SaveInventoryResult ==
  ASSUME NEW s, SiteInv(s), NEW inv, FontLists(inv)
  PROVE  /\ SiteInv(SaveInventory(s, inv))
         /\ \A f \in DOMAIN s.fonts \cap DOMAIN SaveInventory(s, inv).fonts :
              SaveInventory(s, inv).fonts[f].faces = s.fonts[f].faces
<1> DEFINE keys == {inv.services[i].key : i \in DOMAIN inv.services}
           list == inv.families
           row == [i \in DOMAIN list |-> InventoryRow(s, keys, list[i], i)]
           st == StoreFamilies(s, list, FALSE, row)
           new == SaveInventory(s, inv)
           names == NamesOf(list)
<1>1. new = [s EXCEPT !.services = keys, !.fonts = st.fonts, !.rows = st.rows]
  BY DEF SaveInventory, InventoryRow
<1>2. keys \in SUBSET Services /\ IsFiniteSet(keys)
  BY KeysFit DEF FontLists
<1> HIDE DEF keys
<1>3. /\ Listed(list) /\ names \subseteq Families
      /\ \A i \in DOMAIN list : BundleFamily(list[i])
  BY NamesFit
<1>4. RowsFit(s) /\ \A f \in DOMAIN s.fonts : s.fonts[f] \in Font
  BY DEF SiteInv, FontsFit
<1>5. \A i \in DOMAIN list : row[i] \in Font /\ Served(row[i], keys)
  <2> SUFFICES ASSUME NEW i \in DOMAIN list PROVE row[i] \in Font /\ Served(row[i], keys)
    OBVIOUS
  <2>1. i \in Nat
    BY <1>3, ListedDomain
  <2>2. list[i].kind \in Kinds /\ list[i].family \in Families
    BY <1>3 DEF BundleFamily
  <2>3. \A f \in DOMAIN s.fonts : s.fonts[f].faces \in Seq(Face)
    BY <1>4 DEF Font
  <2>4. row[i] = InventoryRow(s, keys, list[i], i)
    OBVIOUS
  <2>5. 10 * i \in Nat
    BY <2>1
  <2> HIDE DEF row, list
  <2>6. InventoryRow(s, keys, list[i], i) \in Font
    BY <1>2, <2>2, <2>3, <2>5 DEF InventoryRow, Font
  <2>7. Served(InventoryRow(s, keys, list[i], i), keys)
    BY DEF InventoryRow, Served
  <2> QED
    BY <2>4, <2>6, <2>7
<1>6. SiteInv(new)
  <2> HIDE DEF row, new
  <2> QED
    BY <1>1, <1>2, <1>3, <1>5, StoreKeepsSite
<1>7. st.fonts = [f \in names |-> row[LastOf(list, f)]]
  <2>1. st.fonts = [f \in (IF FALSE THEN DOMAIN s.fonts ELSE {}) \cup names |->
                      IF f \in names THEN row[LastOf(list, f)] ELSE s.fonts[f]]
    <3> HIDE DEF row
    <3>1. PICK keep \in BOOLEAN : keep = FALSE
      OBVIOUS
    <3>2. StoreFamilies(s, list, keep, row).fonts =
            [f \in (IF keep THEN DOMAIN s.fonts ELSE {}) \cup names |->
               IF f \in names THEN row[LastOf(list, f)] ELSE s.fonts[f]]
      BY <1>3, <1>4, FamiliesStored
    <3> QED
      BY <3>1, <3>2
  <2> HIDE DEF row, st
  <2> QED
    BY <2>1
<1>8. new.fonts = st.fonts
  BY <1>1 DEF SiteInv
<1>9. ASSUME NEW f \in DOMAIN s.fonts, f \in DOMAIN new.fonts
      PROVE  new.fonts[f].faces = s.fonts[f].faces
  <2>1. f \in names
    BY <1>7, <1>8, <1>9
  <2>2. LastOf(list, f) \in DOMAIN list /\ list[LastOf(list, f)].family = f
    BY <1>3, <2>1, LastOfIs
  <2>3. new.fonts[f] = row[LastOf(list, f)]
    BY <1>7, <1>8, <2>1
  <2>4. row[LastOf(list, f)] = InventoryRow(s, keys, list[LastOf(list, f)], LastOf(list, f))
    BY <2>2
  <2> HIDE DEF row, new
  <2> QED
    BY <2>2, <2>3, <2>4 DEF InventoryRow
<1> QED
  BY <1>6, <1>9

-------------------------------------------------------------------------------
(* One setting or one face at a time *)

\* One slot more or less.
LEMMA SettingKeepsSite ==
  ASSUME NEW s, SiteInv(s), NEW k \in Slots, NEW v, StoredValue(v), ValidateSlotValue(v)
  PROVE  SiteInv([s EXCEPT !.slots[k] = v])
<1> DEFINE new == [s EXCEPT !.slots[k] = v]
           slots == [s.slots EXCEPT ![k] = v]
<1>1. s = [slots |-> s.slots, role |-> s.role, services |-> s.services,
           fonts |-> s.fonts, rows |-> s.rows, assets |-> s.assets]
  BY DEF SiteInv
<1>2. new = [slots |-> slots, role |-> s.role, services |-> s.services,
             fonts |-> s.fonts, rows |-> s.rows, assets |-> s.assets]
  BY ONLY <1>1
<1>3. s.slots = [j \in Slots |-> s.slots[j]] /\ \A j \in Slots : StoredValue(s.slots[j])
  BY DEF SiteInv
<1>4. slots = [j \in Slots |-> slots[j]] /\ \A j \in Slots : slots[j] = IF j = k THEN v ELSE s.slots[j]
  BY ONLY <1>3, k \in Slots
<1> HIDE DEF slots, new
<1>5. \A j \in Slots : StoredValue(slots[j])
  BY <1>3, <1>4
<1>6. /\ new.slots = slots /\ new.role = s.role /\ new.services = s.services /\ new.fonts = s.fonts
      /\ new.rows = s.rows /\ new.assets = s.assets
  BY ONLY <1>2
<1>7. RowsFit(new)
  BY <1>6 DEF SiteInv, RowsFit
<1>8. SiteInv(new)
  BY <1>2, <1>4, <1>5, <1>6, <1>7 DEF SiteInv
<1> QED
  BY <1>8 DEF new

\* Another family for the text.
LEMMA RoleKeepsSite ==
  ASSUME NEW s, SiteInv(s), NEW f \in Families \cup {""}
  PROVE  SiteInv([s EXCEPT !.role = f])
<1> DEFINE new == [s EXCEPT !.role = f]
<1>1. s = [slots |-> s.slots, role |-> s.role, services |-> s.services,
           fonts |-> s.fonts, rows |-> s.rows, assets |-> s.assets]
  BY DEF SiteInv
<1>2. new = [slots |-> s.slots, role |-> f, services |-> s.services,
             fonts |-> s.fonts, rows |-> s.rows, assets |-> s.assets]
  <2>1. new = [x \in DOMAIN s |-> IF x = "role" THEN f ELSE s[x]]
    BY ONLY <1>1
  <2> HIDE DEF new
  <2> QED
    BY ONLY <1>1, <2>1
<1> HIDE DEF new
<1>3. /\ new.slots = s.slots /\ new.role = f /\ new.services = s.services /\ new.fonts = s.fonts
      /\ new.rows = s.rows /\ new.assets = s.assets
  BY ONLY <1>2
<1>4. RowsFit(new)
  BY <1>3 DEF SiteInv, RowsFit
<1>5. SiteInv(new)
  BY <1>2, <1>3, <1>4 DEF SiteInv
<1> QED
  BY <1>5 DEF new

\* Other faces for a family.
LEMMA FacesKeepSite ==
  ASSUME NEW s, SiteInv(s), NEW f \in DOMAIN s.fonts, NEW faces \in Seq(Face)
  PROVE  SiteInv([s EXCEPT !.fonts[f].faces = faces])
<1> DEFINE new == [s EXCEPT !.fonts[f].faces = faces]
           font == [s.fonts[f] EXCEPT !.faces = faces]
           fonts == [s.fonts EXCEPT ![f] = font]
<1>1. s = [slots |-> s.slots, role |-> s.role, services |-> s.services,
           fonts |-> s.fonts, rows |-> s.rows, assets |-> s.assets]
  BY DEF SiteInv
<1>2. new = [slots |-> s.slots, role |-> s.role, services |-> s.services,
             fonts |-> fonts, rows |-> s.rows, assets |-> s.assets]
  BY ONLY <1>1
<1>3. FontsFit(s.fonts) /\ \A g \in DOMAIN s.fonts : Served(s.fonts[g], s.services)
  BY DEF SiteInv
<1>4. s.fonts[f] \in Font /\ Served(s.fonts[f], s.services)
  BY <1>3 DEF FontsFit
<1>5. font \in Font /\ font.kind = s.fonts[f].kind /\ font.service = s.fonts[f].service
  BY ONLY <1>4, faces \in Seq(Face) DEF Font
<1>6. Served(font, s.services)
  BY <1>4, <1>5 DEF Served
<1>7. /\ fonts = [g \in DOMAIN s.fonts |-> IF g = f THEN font ELSE s.fonts[g]]
  <2> HIDE DEF font
  <2>1. s.fonts = [g \in DOMAIN s.fonts |-> s.fonts[g]]
    BY <1>3 DEF FontsFit
  <2> QED
    BY ONLY <2>1, f \in DOMAIN s.fonts
<1> HIDE DEF font, fonts, new
<1>8. DOMAIN fonts = DOMAIN s.fonts /\ \A g \in DOMAIN fonts : fonts[g] \in Font /\ Served(fonts[g], s.services)
  BY <1>3, <1>5, <1>6, <1>7 DEF FontsFit
<1>9. fonts = [g \in DOMAIN fonts |-> fonts[g]]
  BY <1>7
<1>10. FontsFit(fonts)
  BY <1>3, <1>8, <1>9 DEF FontsFit
<1>11. /\ new.slots = s.slots /\ new.role = s.role /\ new.services = s.services /\ new.fonts = fonts
       /\ new.rows = s.rows /\ new.assets = s.assets
  BY ONLY <1>2
<1>12. RowsFit(new)
  BY <1>8, <1>11 DEF SiteInv, RowsFit
<1>13. SiteInv(new)
  BY <1>2, <1>8, <1>10, <1>11, <1>12 DEF SiteInv
<1> QED
  BY <1>13 DEF new

\* One face less.
LEMMA RemoveAtFits ==
  ASSUME NEW S, NEW q \in Seq(S), NEW i \in 1 .. Len(q)
  PROVE  RemoveAt(q, i) \in Seq(S)
<1>1. SubSeq(q, 1, i - 1) \in Seq(S)
  OBVIOUS
<1>2. SubSeq(q, i + 1, Len(q)) \in Seq(S)
  OBVIOUS
<1> QED
  BY <1>1, <1>2 DEF RemoveAt

-------------------------------------------------------------------------------
(* Recursions: a function defined by recursion on its index exists up to any  *)
(* bound, for the least bound without one would have one. The step is an      *)
(* operator, so each recursion has a lemma of its own.                        *)

\* What PruneSource leaves after n services.
SourcesUpTo(f, services, n) ==
  f = [i \in 0 .. n |-> IF i = 0 THEN NoneSeen ELSE PruneSource(f[i - 1], services[i])]

LEMMA SourcesExist ==
  ASSUME NEW services, NEW N \in Nat
  PROVE  \E f : SourcesUpTo(f, services, N)
<1> DEFINE Step(i, x) == PruneSource(x, services[i])
           P(f, n) == f = [i \in 0 .. n |-> IF i = 0 THEN NoneSeen ELSE Step(i, f[i - 1])]
           S == {n \in Nat : ~ \E f : P(f, n)}
<1>1. \A f, n : SourcesUpTo(f, services, n) <=> P(f, n)
  BY DEF SourcesUpTo
<1> HIDE DEF Step
<1>2. S = {} => \E f : SourcesUpTo(f, services, N)
  <2> HIDE DEF P
  <2> QED
    BY <1>1
<1> SUFFICES ASSUME S # {} PROVE FALSE
  <2> HIDE DEF S
  <2> QED
    BY <1>2
<1>3. PICK n \in S : \A m \in S : n <= m
  <2> HIDE DEF P
  <2>1. S \in SUBSET Nat
    OBVIOUS
  <2> HIDE DEF S
  <2> QED
    BY <2>1, LeastNumber
<1>4. n # 0
  <2>1. P([i \in 0 .. 0 |-> NoneSeen], 0)
    OBVIOUS
  <2> HIDE DEF P
  <2> QED
    BY <1>3, <2>1
<1>5. PICK f : P(f, n - 1)
  <2> HIDE DEF P
  <2>1. n - 1 \in Nat /\ ~(n <= n - 1)
    BY <1>3, <1>4
  <2>2. n - 1 \notin S
    BY <1>3, <2>1
  <2> QED
    BY <2>1, <2>2
<1> DEFINE g == [i \in 0 .. n |-> IF i = n THEN Step(n, f[n - 1]) ELSE f[i]]
<1>6. n \in Nat
  OBVIOUS
<1>7. \A i \in 0 .. n : g[i] = IF i = 0 THEN NoneSeen ELSE Step(i, g[i - 1])
  <2> TAKE i \in 0 .. n
  <2>1. CASE i = n
    <3>1. n - 1 \in 0 .. n /\ n - 1 # n
      BY <1>4, <1>6
    <3> QED
      BY <1>4, <2>1, <3>1
  <2>2. CASE i # n
    <3>1. i \in 0 .. n - 1 /\ (i # 0 => i - 1 \in 0 .. n /\ i - 1 # n)
      BY <1>6, <2>2
    <3>2. f[i] = IF i = 0 THEN NoneSeen ELSE Step(i, f[i - 1])
      BY <1>5, <3>1
    <3> QED
      BY <2>2, <3>1, <3>2
  <2> QED
    BY <2>1, <2>2
<1>8. P(g, n)
  <2>1. g = [i \in 0 .. n |-> g[i]]
    OBVIOUS
  <2> HIDE DEF g
  <2> QED
    BY <1>7, <2>1
<1> QED
  BY <1>3, <1>8

\* What PruneFamily leaves after n families.
KeptUpTo(f, b, keys, n) ==
  f = [i \in 0 .. n |-> IF i = 0 THEN NoneSeen ELSE PruneFamily(b, keys, f[i - 1], b.families[i])]

LEMMA KeptExist ==
  ASSUME NEW b, NEW keys, NEW N \in Nat
  PROVE  \E f : KeptUpTo(f, b, keys, N)
<1> DEFINE Step(i, x) == PruneFamily(b, keys, x, b.families[i])
           P(f, n) == f = [i \in 0 .. n |-> IF i = 0 THEN NoneSeen ELSE Step(i, f[i - 1])]
           S == {n \in Nat : ~ \E f : P(f, n)}
<1>1. \A f, n : KeptUpTo(f, b, keys, n) <=> P(f, n)
  BY DEF KeptUpTo
<1> HIDE DEF Step
<1>2. S = {} => \E f : KeptUpTo(f, b, keys, N)
  <2> HIDE DEF P
  <2> QED
    BY <1>1
<1> SUFFICES ASSUME S # {} PROVE FALSE
  <2> HIDE DEF S
  <2> QED
    BY <1>2
<1>3. PICK n \in S : \A m \in S : n <= m
  <2> HIDE DEF P
  <2>1. S \in SUBSET Nat
    OBVIOUS
  <2> HIDE DEF S
  <2> QED
    BY <2>1, LeastNumber
<1>4. n # 0
  <2>1. P([i \in 0 .. 0 |-> NoneSeen], 0)
    OBVIOUS
  <2> HIDE DEF P
  <2> QED
    BY <1>3, <2>1
<1>5. PICK f : P(f, n - 1)
  <2> HIDE DEF P
  <2>1. n - 1 \in Nat /\ ~(n <= n - 1)
    BY <1>3, <1>4
  <2>2. n - 1 \notin S
    BY <1>3, <2>1
  <2> QED
    BY <2>1, <2>2
<1> DEFINE g == [i \in 0 .. n |-> IF i = n THEN Step(n, f[n - 1]) ELSE f[i]]
<1>6. n \in Nat
  OBVIOUS
<1>7. \A i \in 0 .. n : g[i] = IF i = 0 THEN NoneSeen ELSE Step(i, g[i - 1])
  <2> TAKE i \in 0 .. n
  <2>1. CASE i = n
    <3>1. n - 1 \in 0 .. n /\ n - 1 # n
      BY <1>4, <1>6
    <3> QED
      BY <1>4, <2>1, <3>1
  <2>2. CASE i # n
    <3>1. i \in 0 .. n - 1 /\ (i # 0 => i - 1 \in 0 .. n /\ i - 1 # n)
      BY <1>6, <2>2
    <3>2. f[i] = IF i = 0 THEN NoneSeen ELSE Step(i, f[i - 1])
      BY <1>5, <3>1
    <3> QED
      BY <2>2, <3>1, <3>2
  <2> QED
    BY <2>1, <2>2
<1>8. P(g, n)
  <2>1. g = [i \in 0 .. n |-> g[i]]
    OBVIOUS
  <2> HIDE DEF g
  <2> QED
    BY <1>7, <2>1
<1> QED
  BY <1>3, <1>8

\* The files of n faces.
FacesUpTo(f, assets, f0, faces, n) ==
  f = [i \in 0 .. n |-> IF i = 0 THEN [assets |-> assets, faces |-> <<>>] ELSE ExportFace(f[i - 1], f0, faces[i])]

LEMMA FacesExist ==
  ASSUME NEW assets, NEW f0, NEW faces, NEW N \in Nat
  PROVE  \E f : FacesUpTo(f, assets, f0, faces, N)
<1> DEFINE Step(i, x) == ExportFace(x, f0, faces[i])
           P(f, n) == f = [i \in 0 .. n |-> IF i = 0 THEN [assets |-> assets, faces |-> <<>>] ELSE Step(i, f[i - 1])]
           S == {n \in Nat : ~ \E f : P(f, n)}
<1>1. \A f, n : FacesUpTo(f, assets, f0, faces, n) <=> P(f, n)
  BY DEF FacesUpTo
<1> HIDE DEF Step
<1>2. S = {} => \E f : FacesUpTo(f, assets, f0, faces, N)
  <2> HIDE DEF P
  <2> QED
    BY <1>1
<1> SUFFICES ASSUME S # {} PROVE FALSE
  <2> HIDE DEF S
  <2> QED
    BY <1>2
<1>3. PICK n \in S : \A m \in S : n <= m
  <2> HIDE DEF P
  <2>1. S \in SUBSET Nat
    OBVIOUS
  <2> HIDE DEF S
  <2> QED
    BY <2>1, LeastNumber
<1>4. n # 0
  <2>1. P([i \in 0 .. 0 |-> [assets |-> assets, faces |-> <<>>]], 0)
    OBVIOUS
  <2> HIDE DEF P
  <2> QED
    BY <1>3, <2>1
<1>5. PICK f : P(f, n - 1)
  <2> HIDE DEF P
  <2>1. n - 1 \in Nat /\ ~(n <= n - 1)
    BY <1>3, <1>4
  <2>2. n - 1 \notin S
    BY <1>3, <2>1
  <2> QED
    BY <2>1, <2>2
<1> DEFINE g == [i \in 0 .. n |-> IF i = n THEN Step(n, f[n - 1]) ELSE f[i]]
<1>6. n \in Nat
  OBVIOUS
<1>7. \A i \in 0 .. n : g[i] = IF i = 0 THEN [assets |-> assets, faces |-> <<>>] ELSE Step(i, g[i - 1])
  <2> TAKE i \in 0 .. n
  <2>1. CASE i = n
    <3>1. n - 1 \in 0 .. n /\ n - 1 # n
      BY <1>4, <1>6
    <3> QED
      BY <1>4, <2>1, <3>1
  <2>2. CASE i # n
    <3>1. i \in 0 .. n - 1 /\ (i # 0 => i - 1 \in 0 .. n /\ i - 1 # n)
      BY <1>6, <2>2
    <3>2. f[i] = IF i = 0 THEN [assets |-> assets, faces |-> <<>>] ELSE Step(i, f[i - 1])
      BY <1>5, <3>1
    <3> QED
      BY <2>2, <3>1, <3>2
  <2> QED
    BY <2>1, <2>2
<1>8. P(g, n)
  <2>1. g = [i \in 0 .. n |-> g[i]]
    OBVIOUS
  <2> HIDE DEF g
  <2> QED
    BY <1>7, <2>1
<1> QED
  BY <1>3, <1>8

\* The theme file after n families.
ExportedUpTo(f, fonts, order, pictures, n) ==
  f = [i \in 0 .. n |-> IF i = 0 THEN [assets |-> pictures, families |-> <<>>] ELSE ExportFamily(f[i - 1], order[i], fonts[order[i]])]

LEMMA ExportedExist ==
  ASSUME NEW fonts, NEW order, NEW pictures, NEW N \in Nat
  PROVE  \E f : ExportedUpTo(f, fonts, order, pictures, N)
<1> DEFINE Step(i, x) == ExportFamily(x, order[i], fonts[order[i]])
           P(f, n) == f = [i \in 0 .. n |-> IF i = 0 THEN [assets |-> pictures, families |-> <<>>] ELSE Step(i, f[i - 1])]
           S == {n \in Nat : ~ \E f : P(f, n)}
<1>1. \A f, n : ExportedUpTo(f, fonts, order, pictures, n) <=> P(f, n)
  BY DEF ExportedUpTo
<1> HIDE DEF Step
<1>2. S = {} => \E f : ExportedUpTo(f, fonts, order, pictures, N)
  <2> HIDE DEF P
  <2> QED
    BY <1>1
<1> SUFFICES ASSUME S # {} PROVE FALSE
  <2> HIDE DEF S
  <2> QED
    BY <1>2
<1>3. PICK n \in S : \A m \in S : n <= m
  <2> HIDE DEF P
  <2>1. S \in SUBSET Nat
    OBVIOUS
  <2> HIDE DEF S
  <2> QED
    BY <2>1, LeastNumber
<1>4. n # 0
  <2>1. P([i \in 0 .. 0 |-> [assets |-> pictures, families |-> <<>>]], 0)
    OBVIOUS
  <2> HIDE DEF P
  <2> QED
    BY <1>3, <2>1
<1>5. PICK f : P(f, n - 1)
  <2> HIDE DEF P
  <2>1. n - 1 \in Nat /\ ~(n <= n - 1)
    BY <1>3, <1>4
  <2>2. n - 1 \notin S
    BY <1>3, <2>1
  <2> QED
    BY <2>1, <2>2
<1> DEFINE g == [i \in 0 .. n |-> IF i = n THEN Step(n, f[n - 1]) ELSE f[i]]
<1>6. n \in Nat
  OBVIOUS
<1>7. \A i \in 0 .. n : g[i] = IF i = 0 THEN [assets |-> pictures, families |-> <<>>] ELSE Step(i, g[i - 1])
  <2> TAKE i \in 0 .. n
  <2>1. CASE i = n
    <3>1. n - 1 \in 0 .. n /\ n - 1 # n
      BY <1>4, <1>6
    <3> QED
      BY <1>4, <2>1, <3>1
  <2>2. CASE i # n
    <3>1. i \in 0 .. n - 1 /\ (i # 0 => i - 1 \in 0 .. n /\ i - 1 # n)
      BY <1>6, <2>2
    <3>2. f[i] = IF i = 0 THEN [assets |-> pictures, families |-> <<>>] ELSE Step(i, f[i - 1])
      BY <1>5, <3>1
    <3> QED
      BY <2>2, <3>1, <3>2
  <2> QED
    BY <2>1, <2>2
<1>8. P(g, n)
  <2>1. g = [i \in 0 .. n |-> g[i]]
    OBVIOUS
  <2> HIDE DEF g
  <2> QED
    BY <1>7, <2>1
<1> QED
  BY <1>3, <1>8

\* Induction up to a bound, over a set of indices.
LEMMA UpToBound ==
  ASSUME NEW N \in Nat, NEW T, 0 \in T, \A i \in 1 .. N : i - 1 \in T => i \in T
  PROVE  \A i \in 0 .. N : i \in T
<1> DEFINE S == {i \in 0 .. N : i \notin T}
<1> SUFFICES ASSUME S # {} PROVE FALSE
  OBVIOUS
<1>1. PICK i \in S : \A j \in S : i <= j
  <2>1. S \in SUBSET Nat
    OBVIOUS
  <2> HIDE DEF S
  <2> QED
    BY <2>1, LeastNumber
<1>2. i \in 1 .. N /\ i - 1 \in 0 .. N /\ ~(i <= i - 1)
  OBVIOUS
<1>3. i - 1 \in T
  BY <1>1, <1>2
<1> QED
  BY <1>2, <1>3

-------------------------------------------------------------------------------
(* Pruning *)

FontService == [key : Services, valid : BOOLEAN]

\* What is known after n services: the names seen are kept, and without a problem
\* everything is.
SourcesFit(services, n, x) ==
  /\ x = [seen |-> x.seen, kept |-> x.kept, problems |-> x.problems]
  /\ x.problems \in BOOLEAN
  /\ x.kept \in Seq(FontService)
  /\ \A k \in x.seen : \E j \in DOMAIN x.kept : x.kept[j].key = k
  /\ x.problems = FALSE => Len(x.kept) = n /\ \A j \in 1 .. n : x.kept[j] = services[j]

\* One service keeps what is known.
LEMMA PruneSourceFits ==
  ASSUME NEW services, NEW n \in Nat, NEW x, SourcesFit(services, n, x),
         NEW v, v = services[n + 1], v \in FontService
  PROVE  SourcesFit(services, n + 1, PruneSource(x, v))
<1> DEFINE y == PruneSource(x, v)
<1>1. CASE IsValidFontSource(v) /\ v.key \notin x.seen
  <2> DEFINE k == Append(x.kept, v)
             seen == x.seen \cup {v.key}
  <2>1. y = [seen |-> seen, kept |-> k, problems |-> x.problems]
    <3>1. y = [x EXCEPT !.seen = @ \cup {v.key}, !.kept = Append(@, v)]
      BY <1>1 DEF PruneSource
    <3>2. x = [seen |-> x.seen, kept |-> x.kept, problems |-> x.problems]
      BY DEF SourcesFit
    <3> HIDE DEF y
    <3> QED
      BY ONLY <3>1, <3>2
  <2>2. y.seen = seen /\ y.kept = k /\ y.problems = x.problems
    BY ONLY <2>1
  <2> HIDE DEF y
  <2>3. x.kept \in Seq(FontService) /\ Len(x.kept) \in Nat /\ DOMAIN x.kept = 1 .. Len(x.kept)
    BY DEF SourcesFit
  <2>4. k \in Seq(FontService) /\ Len(k) = Len(x.kept) + 1 /\ DOMAIN k = 1 .. Len(x.kept) + 1
        /\ (\A j \in 1 .. Len(x.kept) : k[j] = x.kept[j]) /\ k[Len(x.kept) + 1] = v
    BY <2>3
  <2> HIDE DEF k
  <2>5. \A a \in seen : \E j \in DOMAIN k : k[j].key = a
    <3>1. ASSUME NEW a \in x.seen PROVE \E j \in DOMAIN k : k[j].key = a
      <4>1. PICK j \in DOMAIN x.kept : x.kept[j].key = a
        BY DEF SourcesFit
      <4>2. j \in 1 .. Len(x.kept) /\ j \in 1 .. Len(x.kept) + 1
        BY <2>3, <4>1
      <4> QED
        BY <2>4, <4>1, <4>2
    <3>2. Len(x.kept) + 1 \in DOMAIN k
      BY <2>3, <2>4
    <3> QED
      BY <2>4, <3>1, <3>2
  <2>6. ASSUME x.problems = FALSE
        PROVE  Len(k) = n + 1 /\ \A j \in 1 .. n + 1 : k[j] = services[j]
    <3>1. Len(x.kept) = n /\ \A j \in 1 .. n : x.kept[j] = services[j]
      BY <2>6 DEF SourcesFit
    <3>2. \A j \in 1 .. n + 1 : j \in 1 .. n \/ j = n + 1
      OBVIOUS
    <3> QED
      BY <2>4, <3>1, <3>2
  <2>7. x.problems \in BOOLEAN
    BY DEF SourcesFit
  <2>8. SourcesFit(services, n + 1, y)
    BY <2>1, <2>2, <2>4, <2>5, <2>6, <2>7 DEF SourcesFit
  <2> QED
    BY <2>8 DEF y
<1>2. CASE ~(IsValidFontSource(v) /\ v.key \notin x.seen)
  <2>1. y = [seen |-> x.seen \ {v.key}, kept |-> x.kept, problems |-> TRUE]
    <3>1. y = [x EXCEPT !.seen = @ \ {v.key}, !.problems = TRUE]
      BY <1>2 DEF PruneSource
    <3>2. x = [seen |-> x.seen, kept |-> x.kept, problems |-> x.problems]
      BY DEF SourcesFit
    <3> HIDE DEF y
    <3> QED
      BY ONLY <3>1, <3>2
  <2>2. y.seen = x.seen \ {v.key} /\ y.kept = x.kept /\ y.problems = TRUE
    BY ONLY <2>1
  <2> HIDE DEF y
  <2>3. SourcesFit(services, n + 1, y)
    BY <2>1, <2>2 DEF SourcesFit
  <2> QED
    BY <2>3 DEF y
<1> QED
  BY <1>1, <1>2

\* All services.
LEMMA PruneSourcesResult ==
  ASSUME NEW services \in Seq(FontService)
  PROVE  SourcesFit(services, Len(services), PruneSources(services))
<1> DEFINE N == Len(services)
           g == CHOOSE f : SourcesUpTo(f, services, N)
<1>1. PruneSources(services) = g[N]
  BY DEF PruneSources, SourcesUpTo
<1>2. N \in Nat /\ \A i \in 1 .. N : services[i] \in FontService
  OBVIOUS
<1> HIDE DEF N
<1>3. SourcesUpTo(g, services, N)
  BY <1>2, SourcesExist
<1> HIDE DEF g
<1>4. \A i \in 0 .. N : g[i] = IF i = 0 THEN NoneSeen ELSE PruneSource(g[i - 1], services[i])
  BY <1>3 DEF SourcesUpTo
<1> DEFINE T == {i \in 0 .. N : SourcesFit(services, i, g[i])}
<1>5. 0 \in T
  <2>1. g[0] = NoneSeen /\ 0 \in 0 .. N
    BY <1>2, <1>4
  <2>2. SourcesFit(services, 0, NoneSeen)
    <3>1. /\ NoneSeen.seen = {} /\ NoneSeen.kept = <<>> /\ NoneSeen.problems = FALSE
          /\ NoneSeen = [seen |-> NoneSeen.seen, kept |-> NoneSeen.kept, problems |-> NoneSeen.problems]
      BY DEF NoneSeen
    <3>2. <<>> \in Seq(FontService) /\ Len(<<>>) = 0
      OBVIOUS
    <3>3. NoneSeen.kept \in Seq(FontService) /\ Len(NoneSeen.kept) = 0
      BY ONLY <3>1, <3>2
    <3>4. \A k \in NoneSeen.seen : \E j \in DOMAIN NoneSeen.kept : NoneSeen.kept[j].key = k
      BY <3>1
    <3>5. \A j \in 1 .. 0 : NoneSeen.kept[j] = services[j]
      OBVIOUS
    <3> QED
      BY <3>1, <3>3, <3>4, <3>5 DEF SourcesFit
  <2> QED
    BY <2>1, <2>2
<1>6. ASSUME NEW i \in 1 .. N, i - 1 \in T PROVE i \in T
  <2>1. i \in 0 .. N /\ i # 0 /\ i - 1 \in Nat /\ (i - 1) + 1 = i
    BY <1>2
  <2>2. PICK n, x : n = i - 1 /\ x = g[i - 1]
    OBVIOUS
  <2>3. n \in Nat /\ n + 1 = i /\ SourcesFit(services, n, x)
    BY <1>6, <2>1, <2>2
  <2>4. SourcesFit(services, n + 1, PruneSource(x, services[n + 1]))
    BY <1>2, <2>3, PruneSourceFits
  <2>5. g[i] = PruneSource(x, services[n + 1])
    BY <1>4, <2>1, <2>2, <2>3
  <2> QED
    BY <2>1, <2>3, <2>4, <2>5
<1> HIDE DEF T
<1>7. \A i \in 0 .. N : i \in T
  BY <1>2, <1>5, <1>6, UpToBound
<1>8. N \in T
  BY <1>2, <1>7
<1> QED
  BY <1>1, <1>8 DEF T, N

\* A family that may be stored.
Keepable(f, keys) ==
  /\ BundleFamily(f) /\ \A c \in ToSet(f.faces) : c.weight \in Weights
  /\ f.kind = "cdn" => f.service \in keys

\* What is known after n families: without a problem all of them were kept, under
\* different names, with every file.
FamiliesFit(b, keys, n, x) ==
  /\ x = [seen |-> x.seen, kept |-> x.kept, problems |-> x.problems]
  /\ x.problems \in BOOLEAN
  /\ Listed(x.kept)
  /\ \A j \in DOMAIN x.kept : Keepable(x.kept[j], keys)
  /\ x.problems = FALSE =>
       /\ Len(x.kept) = n
       /\ \A j \in 1 .. n :
            /\ x.kept[j] = b.families[j] /\ b.families[j].family \in x.seen
            /\ b.families[j].kind = "uploaded" => \A c \in ToSet(b.families[j].faces) : UsableFace(b, c)
       /\ \A i, j \in 1 .. n : b.families[i].family = b.families[j].family => i = j

\* Usable faces are faces of the family, and if nothing went all are usable.
LEMMA UsableFacesFit ==
  ASSUME NEW b, NEW faces, Listed(faces)
  PROVE  /\ Listed(UsableFaces(b, faces)) /\ ToSet(UsableFaces(b, faces)) \subseteq ToSet(faces)
         /\ \A c \in ToSet(UsableFaces(b, faces)) : UsableFace(b, c)
<1> DEFINE P == {j \in DOMAIN faces : UsableFace(b, faces[j])}
           u == UsableFaces(b, faces)
<1>1. Len(faces) \in Nat /\ DOMAIN faces = 1 .. Len(faces)
  BY ListedDomain
<1>2. P \in SUBSET (1 .. Len(faces)) /\ u = ChosenAt(faces, P)
  BY <1>1 DEF UsableFaces
<1>3. \A i \in P : faces[i] \in ToSet(faces) /\ UsableFace(b, faces[i])
  BY DEF ToSet
<1> HIDE DEF P, u
<1>4. Listed(u) /\ \A c \in ToSet(u) : \E i \in P : c = faces[i]
  BY <1>1, <1>2, ChosenKeeps, ChosenMembers
<1> QED
  BY <1>3, <1>4 DEF u

\* One family keeps what is known.
LEMMA PruneFamilyFits ==
  ASSUME NEW b, NEW keys, NEW n \in Nat, NEW x, FamiliesFit(b, keys, n, x),
         NEW f, f = b.families[n + 1], BundleFamily(f), \A c \in ToSet(f.faces) : c.weight \in Weights
  PROVE  FamiliesFit(b, keys, n + 1, PruneFamily(b, keys, x, f))
<1> DEFINE y == PruneFamily(b, keys, x, f)
           faces == IF f.kind = "uploaded" THEN UsableFaces(b, f.faces) ELSE f.faces
           usable == /\ IsValidFontFamily(f) /\ f.family \notin x.seen
                     /\ f.kind = "cdn" => f.service \in keys
                     /\ f.kind = "uploaded" => faces # <<>>
           g == [f EXCEPT !.faces = faces]
<1>0. PICK fs : fs = faces
  OBVIOUS
<1>1. y = IF usable
          THEN [seen |-> x.seen \cup {f.family}, kept |-> Append(x.kept, g), problems |-> x.problems \/ fs # f.faces]
          ELSE [x EXCEPT !.seen = @ \ {f.family}, !.problems = TRUE]
  BY <1>0 DEF PruneFamily
<1>2. /\ f = [family |-> f.family, kind |-> f.kind, valid |-> f.valid, service |-> f.service, faces |-> f.faces]
      /\ Listed(f.faces)
  BY DEF BundleFamily
<1>3. Listed(fs) /\ ToSet(fs) \subseteq ToSet(f.faces)
  BY <1>0, <1>2, UsableFacesFit
<1>4. f.kind = "uploaded" /\ fs = f.faces => \A c \in ToSet(f.faces) : UsableFace(b, c)
  BY <1>0, <1>2, UsableFacesFit
<1>5. CASE usable
  <2> DEFINE k == Append(x.kept, g)
             seen == x.seen \cup {f.family}
             pr == x.problems \/ fs # f.faces
  <2>1. y = [seen |-> seen, kept |-> k, problems |-> pr]
    BY <1>1, <1>5
  <2>2. y.seen = seen /\ y.kept = k /\ y.problems = pr
    BY ONLY <2>1
  <2>3. g = [family |-> f.family, kind |-> f.kind, valid |-> f.valid, service |-> f.service, faces |-> fs]
    <3>1. g = [f EXCEPT !.faces = fs]
      BY <1>0
    <3> HIDE DEF g
    <3>2. PICK a1, a2, a3, a4, a5 : a1 = f.family /\ a2 = f.kind /\ a3 = f.valid /\ a4 = f.service /\ a5 = f.faces
      OBVIOUS
    <3>3. f = [family |-> a1, kind |-> a2, valid |-> a3, service |-> a4, faces |-> a5]
      BY <1>2, <3>2
    <3>4. g = [family |-> a1, kind |-> a2, valid |-> a3, service |-> a4, faces |-> fs]
      BY ONLY <3>1, <3>3
    <3> QED
      BY ONLY <3>2, <3>4
  <2>4. g.family = f.family /\ g.kind = f.kind /\ g.valid = f.valid /\ g.service = f.service /\ g.faces = fs
    BY ONLY <2>3
  <2>5. f.kind = "cdn" => f.service \in keys
    BY <1>5
  <2>6. f.family \notin x.seen
    BY <1>5
  <2> HIDE DEF y, g, seen, pr, usable, faces
  <2>7. Keepable(g, keys)
    <3>1. \A c \in ToSet(fs) : c = [weight |-> c.weight, file |-> c.file] /\ c.weight \in Weights
      BY <1>3 DEF BundleFamily
    <3>2. g = [family |-> g.family, kind |-> g.kind, valid |-> g.valid, service |-> g.service, faces |-> g.faces]
      BY <2>3, <2>4
    <3>3. g.family \in Families /\ g.kind \in Kinds /\ g.valid \in BOOLEAN
      BY <2>4 DEF BundleFamily
    <3> QED
      BY <1>3, <2>4, <2>5, <3>1, <3>2, <3>3 DEF Keepable, BundleFamily
  <2>8. Listed(x.kept)
    BY DEF FamiliesFit
  <2>9. /\ Listed(k) /\ Len(k) = Len(x.kept) + 1 /\ k[Len(x.kept) + 1] = g
        /\ \A j \in 1 .. Len(x.kept) : k[j] = x.kept[j]
    BY <2>8, AppendListed
  <2>10. Len(x.kept) \in Nat /\ DOMAIN x.kept = 1 .. Len(x.kept)
    BY <2>8, ListedDomain
  <2> HIDE DEF k
  <2>11. DOMAIN k = 1 .. Len(x.kept) + 1
    BY <2>9, ListedDomain
  <2>12. \A j \in DOMAIN k : Keepable(k[j], keys)
    <3>1. \A j \in DOMAIN k : j \in 1 .. Len(x.kept) \/ j = Len(x.kept) + 1
      BY <2>10, <2>11
    <3>2. \A j \in 1 .. Len(x.kept) : Keepable(x.kept[j], keys)
      BY <2>10 DEF FamiliesFit
    <3> QED
      BY <2>7, <2>9, <3>1, <3>2
  <2>13. x.problems \in BOOLEAN
    BY DEF FamiliesFit
  <2>14. pr \in BOOLEAN
    BY DEF pr
  <2>15. ASSUME pr = FALSE
         PROVE  /\ Len(k) = n + 1
                /\ \A j \in 1 .. n + 1 :
                     /\ k[j] = b.families[j] /\ b.families[j].family \in seen
                     /\ b.families[j].kind = "uploaded" => \A c \in ToSet(b.families[j].faces) : UsableFace(b, c)
                /\ \A i, j \in 1 .. n + 1 : b.families[i].family = b.families[j].family => i = j
    <3>1. x.problems = FALSE /\ fs = f.faces
      BY <2>13, <2>15 DEF pr
    <3>2. /\ Len(x.kept) = n
          /\ \A j \in 1 .. n :
               /\ x.kept[j] = b.families[j] /\ b.families[j].family \in x.seen
               /\ b.families[j].kind = "uploaded" => \A c \in ToSet(b.families[j].faces) : UsableFace(b, c)
          /\ \A i, j \in 1 .. n : b.families[i].family = b.families[j].family => i = j
      BY <3>1 DEF FamiliesFit
    <3>3. g = f
      BY ONLY <1>2, <2>3, <3>1
    <3>4. \A j \in 1 .. n + 1 : j \in 1 .. n \/ j = n + 1
      OBVIOUS
    <3>5. f.kind = "uploaded" => \A c \in ToSet(f.faces) : UsableFace(b, c)
      BY <1>4, <3>1
    <3>6. \A j \in 1 .. n + 1 :
            /\ k[j] = b.families[j] /\ b.families[j].family \in seen
            /\ b.families[j].kind = "uploaded" => \A c \in ToSet(b.families[j].faces) : UsableFace(b, c)
      BY <2>9, <3>2, <3>3, <3>4, <3>5 DEF seen
    <3>7. \A i, j \in 1 .. n + 1 : b.families[i].family = b.families[j].family => i = j
      <4>1. \A i \in 1 .. n : b.families[i].family # b.families[n + 1].family
        BY <2>6, <3>2
      <4> QED
        BY <3>2, <3>4, <4>1
    <3> QED
      BY <2>9, <3>2, <3>6, <3>7
  <2>16. FamiliesFit(b, keys, n + 1, y)
    BY <2>1, <2>2, <2>9, <2>12, <2>14, <2>15 DEF FamiliesFit
  <2> QED
    BY <2>16 DEF y
<1>6. CASE ~usable
  <2>1. y = [seen |-> x.seen \ {f.family}, kept |-> x.kept, problems |-> TRUE]
    <3>1. y = [x EXCEPT !.seen = @ \ {f.family}, !.problems = TRUE]
      BY <1>1, <1>6
    <3>2. x = [seen |-> x.seen, kept |-> x.kept, problems |-> x.problems]
      BY DEF FamiliesFit
    <3> HIDE DEF y
    <3> QED
      BY ONLY <3>1, <3>2
  <2>2. y.seen = x.seen \ {f.family} /\ y.kept = x.kept /\ y.problems = TRUE
    BY ONLY <2>1
  <2> HIDE DEF y, usable, g, faces
  <2>3. FamiliesFit(b, keys, n + 1, y)
    BY <2>1, <2>2 DEF FamiliesFit
  <2> QED
    BY <2>3 DEF y
<1> QED
  BY <1>5, <1>6

\* All families.
LEMMA PruneFamiliesResult ==
  ASSUME NEW b, NEW keys, Listed(b.families),
         \A f \in ToSet(b.families) : BundleFamily(f) /\ \A c \in ToSet(f.faces) : c.weight \in Weights
  PROVE  FamiliesFit(b, keys, Len(b.families), PruneFamilies(b, keys))
<1> DEFINE N == Len(b.families)
           g == CHOOSE f : KeptUpTo(f, b, keys, N)
<1>1. PruneFamilies(b, keys) = g[N]
  BY DEF PruneFamilies, KeptUpTo
<1>2. N \in Nat /\ DOMAIN b.families = 1 .. N
  BY ListedDomain
<1>2a. \A i \in 1 .. N : BundleFamily(b.families[i]) /\ \A c \in ToSet(b.families[i].faces) : c.weight \in Weights
  BY <1>2 DEF ToSet
<1> HIDE DEF N
<1>3. KeptUpTo(g, b, keys, N)
  BY <1>2, KeptExist
<1> HIDE DEF g
<1>4. \A i \in 0 .. N : g[i] = IF i = 0 THEN NoneSeen ELSE PruneFamily(b, keys, g[i - 1], b.families[i])
  BY <1>3 DEF KeptUpTo
<1> DEFINE T == {i \in 0 .. N : FamiliesFit(b, keys, i, g[i])}
<1>5. 0 \in T
  <2>1. g[0] = NoneSeen /\ 0 \in 0 .. N
    BY <1>2, <1>4
  <2>2. FamiliesFit(b, keys, 0, NoneSeen)
    <3>1. /\ NoneSeen.seen = {} /\ NoneSeen.kept = <<>> /\ NoneSeen.problems = FALSE
          /\ NoneSeen = [seen |-> NoneSeen.seen, kept |-> NoneSeen.kept, problems |-> NoneSeen.problems]
      BY DEF NoneSeen
    <3>2. Listed(<<>>) /\ Len(<<>>) = 0 /\ DOMAIN <<>> = {}
      BY DEF Listed
    <3>3. Listed(NoneSeen.kept) /\ Len(NoneSeen.kept) = 0 /\ DOMAIN NoneSeen.kept = {}
      BY ONLY <3>1, <3>2
    <3>4. \A j \in 1 .. 0 : FALSE
      OBVIOUS
    <3> QED
      BY <3>1, <3>3, <3>4 DEF FamiliesFit
  <2> QED
    BY <2>1, <2>2
<1>6. ASSUME NEW i \in 1 .. N, i - 1 \in T PROVE i \in T
  <2>1. i \in 0 .. N /\ i # 0 /\ i - 1 \in Nat /\ (i - 1) + 1 = i
    BY <1>2
  <2>2. PICK n, x : n = i - 1 /\ x = g[i - 1]
    OBVIOUS
  <2>3. n \in Nat /\ n + 1 = i /\ FamiliesFit(b, keys, n, x)
    BY <1>6, <2>1, <2>2
  <2>4. FamiliesFit(b, keys, n + 1, PruneFamily(b, keys, x, b.families[n + 1]))
    BY <1>2a, <2>3, PruneFamilyFits
  <2>5. g[i] = PruneFamily(b, keys, x, b.families[n + 1])
    BY <1>4, <2>1, <2>2, <2>3
  <2> QED
    BY <2>1, <2>3, <2>4, <2>5
<1> HIDE DEF T
<1>7. \A i \in 0 .. N : i \in T
  BY <1>2, <1>5, <1>6, UpToBound
<1>8. N \in T
  BY <1>2, <1>7
<1> QED
  BY <1>1, <1>8 DEF T, N

-------------------------------------------------------------------------------
(* Import *)

\* A theme file whose faces all have a weight.
Weighed(b) ==
  /\ ThemeBundle(b)
  /\ \A f \in ToSet(b.families) : \A c \in ToSet(f.faces) : c.weight \in Weights

WeighedFace(c) == [c EXCEPT !.weight = IF @ = 0 THEN 400 ELSE @]
WeighedFamily(f) == [f EXCEPT !.faces = [j \in DOMAIN f.faces |-> WeighedFace(f.faces[j])]]

\* A face without a weight gets the regular one.
LEMMA WeighedFaceFits ==
  ASSUME NEW c, c = [weight |-> c.weight, file |-> c.file], c.weight \in Weights \cup {0}
  PROVE  /\ WeighedFace(c) = [weight |-> WeighedFace(c).weight, file |-> WeighedFace(c).file]
         /\ WeighedFace(c).weight \in Weights /\ WeighedFace(c).file = c.file
<1>1. PICK w, n : w = c.weight /\ n = c.file
  OBVIOUS
<1>2. c = [weight |-> w, file |-> n]
  BY <1>1
<1>3. PICK w2 : w2 = IF w = 0 THEN 400 ELSE w
  OBVIOUS
<1>4. WeighedFace(c) = [c EXCEPT !.weight = w2]
  BY <1>1, <1>3 DEF WeighedFace
<1>5. WeighedFace(c) = [weight |-> w2, file |-> n]
  BY ONLY <1>2, <1>4
<1>6. WeighedFace(c).weight = w2 /\ WeighedFace(c).file = n
  BY ONLY <1>5
<1>7. w2 \in Weights
  BY <1>1, <1>3, BrandingAssumption
<1> QED
  BY <1>1, <1>5, <1>6, <1>7

\* So do the faces of a family, of which nothing else changes.
LEMMA WeighedFamilyFits ==
  ASSUME NEW f, BundleFamily(f)
  PROVE  /\ BundleFamily(WeighedFamily(f))
         /\ \A c \in ToSet(WeighedFamily(f).faces) : c.weight \in Weights
         /\ WeighedFamily(f).family = f.family /\ WeighedFamily(f).kind = f.kind
         /\ WeighedFamily(f).service = f.service
         /\ Len(WeighedFamily(f).faces) = Len(f.faces)
<1> DEFINE g == WeighedFamily(f)
           q == [j \in DOMAIN f.faces |-> WeighedFace(f.faces[j])]
<1>1. PICK a1, a2, a3, a4, a5 : a1 = f.family /\ a2 = f.kind /\ a3 = f.valid /\ a4 = f.service /\ a5 = f.faces
  OBVIOUS
<1>2. f = [family |-> a1, kind |-> a2, valid |-> a3, service |-> a4, faces |-> a5]
  BY <1>1 DEF BundleFamily
<1>3. g = [f EXCEPT !.faces = q]
  BY DEF WeighedFamily
<1> HIDE DEF g, q
<1>4. g = [family |-> a1, kind |-> a2, valid |-> a3, service |-> a4, faces |-> q]
  BY ONLY <1>2, <1>3
<1>5. g.family = a1 /\ g.kind = a2 /\ g.valid = a3 /\ g.service = a4 /\ g.faces = q
  BY ONLY <1>4
<1>6. Len(f.faces) \in Nat /\ DOMAIN f.faces = 1 .. Len(f.faces)
  BY ListedDomain DEF BundleFamily
<1>7. q = [j \in 1 .. Len(f.faces) |-> q[j]] /\ DOMAIN q = 1 .. Len(f.faces)
  BY <1>6 DEF q
<1>8. Listed(q) /\ Len(q) = Len(f.faces)
  BY <1>6, <1>7, MakeListed
<1>9. \A j \in DOMAIN f.faces :
        /\ f.faces[j] = [weight |-> f.faces[j].weight, file |-> f.faces[j].file]
        /\ f.faces[j].weight \in Weights \cup {0}
  BY DEF BundleFamily, ToSet
<1>10. \A j \in DOMAIN f.faces :
        /\ q[j] = [weight |-> q[j].weight, file |-> q[j].file] /\ q[j].weight \in Weights
  <2> SUFFICES ASSUME NEW j \in DOMAIN f.faces
               PROVE q[j] = [weight |-> q[j].weight, file |-> q[j].file] /\ q[j].weight \in Weights
    OBVIOUS
  <2>1. q[j] = WeighedFace(f.faces[j])
    BY DEF q
  <2> QED
    BY <1>9, <2>1, WeighedFaceFits
<1>11. \A c \in ToSet(q) : c = [weight |-> c.weight, file |-> c.file] /\ c.weight \in Weights
  BY <1>6, <1>7, <1>10 DEF ToSet
<1>12. f.family \in Families /\ f.kind \in Kinds /\ f.valid \in BOOLEAN
  BY DEF BundleFamily
<1>13. BundleFamily(g)
  BY <1>1, <1>4, <1>5, <1>8, <1>11, <1>12 DEF BundleFamily
<1> QED
  BY <1>1, <1>5, <1>8, <1>11, <1>13 DEF g

\* And those of a file.
LEMMA ThemeBundleFromJsonFits ==
  ASSUME NEW b, ThemeBundle(b)
  PROVE  /\ Weighed(ThemeBundleFromJson(b))
         /\ ThemeBundleFromJson(b).assets = b.assets /\ ThemeBundleFromJson(b).content = b.content
         /\ ThemeBundleFromJson(b).role = b.role /\ ThemeBundleFromJson(b).services = b.services
         /\ Len(ThemeBundleFromJson(b).families) = Len(b.families)
         /\ \A i \in 1 .. Len(b.families) :
              ThemeBundleFromJson(b).families[i] = WeighedFamily(b.families[i])
<1> DEFINE p == ThemeBundleFromJson(b)
           q == [i \in DOMAIN b.families |-> WeighedFamily(b.families[i])]
<1>1. p = [b EXCEPT !.families = q]
  BY DEF ThemeBundleFromJson, WeighedFamily, WeighedFace
<1>2. PICK a1, a2, a3, a4, a5, a6, a7, a8 :
        /\ a1 = b.format /\ a2 = b.extra /\ a3 = b.section /\ a4 = b.content
        /\ a5 = b.role /\ a6 = b.services /\ a7 = b.families /\ a8 = b.assets
  OBVIOUS
<1>3. b = [format |-> a1, extra |-> a2, section |-> a3, content |-> a4,
           role |-> a5, services |-> a6, families |-> a7, assets |-> a8]
  BY <1>2 DEF ThemeBundle
<1> HIDE DEF p, q
<1>4. p = [format |-> a1, extra |-> a2, section |-> a3, content |-> a4,
           role |-> a5, services |-> a6, families |-> q, assets |-> a8]
  BY ONLY <1>1, <1>3
<1>5. /\ p.format = a1 /\ p.extra = a2 /\ p.section = a3 /\ p.content = a4
      /\ p.role = a5 /\ p.services = a6 /\ p.families = q /\ p.assets = a8
  BY ONLY <1>4
<1>6. Listed(b.families) /\ \A i \in DOMAIN b.families : BundleFamily(b.families[i])
  BY NamesFit DEF ThemeBundle
<1>7. Len(b.families) \in Nat /\ DOMAIN b.families = 1 .. Len(b.families)
  BY <1>6, ListedDomain
<1>8. q = [i \in 1 .. Len(b.families) |-> q[i]] /\ DOMAIN q = 1 .. Len(b.families)
      /\ \A i \in 1 .. Len(b.families) : q[i] = WeighedFamily(b.families[i])
  BY <1>7 DEF q
<1>9. Listed(q) /\ Len(q) = Len(b.families)
  BY <1>7, <1>8, MakeListed
<1>10. \A i \in DOMAIN q : BundleFamily(q[i]) /\ \A c \in ToSet(q[i].faces) : c.weight \in Weights
  BY <1>6, <1>7, <1>8, WeighedFamilyFits
<1>11. \A f \in ToSet(q) : BundleFamily(f) /\ \A c \in ToSet(f.faces) : c.weight \in Weights
  BY <1>10 DEF ToSet
<1>12. FontLists(p)
  BY <1>2, <1>5, <1>9, <1>11 DEF FontLists, ThemeBundle
<1>13. ThemeBundle(p)
  BY <1>2, <1>4, <1>5, <1>12 DEF ThemeBundle
<1>14. Weighed(p)
  BY <1>5, <1>11, <1>13 DEF Weighed
<1> QED
  BY <1>2, <1>5, <1>8, <1>9, <1>14 DEF p

\* No file in an unknown format: every face that is there can be stored.
LEMMA StoredFacesFit ==
  ASSUME NEW b, \A n \in DOMAIN b.assets : b.assets[n] \in Formats,
         NEW faces, Listed(faces), \A c \in ToSet(faces) : c.weight \in Weights
  PROVE  StoredFaces(b, faces) \in Seq(Face)
<1> DEFINE P == {j \in DOMAIN faces : faces[j].file \in DOMAIN b.assets}
           present == ChosenAt(faces, P)
           st == StoredFaces(b, faces)
<1>1. st = [j \in DOMAIN present |-> [weight |-> present[j].weight, bytes |-> b.assets[present[j].file]]]
  BY DEF StoredFaces
<1>2. Len(faces) \in Nat /\ DOMAIN faces = 1 .. Len(faces)
  BY ListedDomain
<1>3. P \in SUBSET (1 .. Len(faces))
  BY <1>2
<1>4. \A j \in P : faces[j].weight \in Weights /\ faces[j].file \in DOMAIN b.assets
  BY DEF ToSet
<1> HIDE DEF P
<1>5a. DOMAIN present = 1 .. Cardinality(P)
  BY <1>2, <1>3, ChosenKeeps
<1>5b. ComesFrom(present, faces, P)
  BY <1>2, <1>3, ChosenMembers
<1>5. DOMAIN present = 1 .. Cardinality(P) /\ \A j \in DOMAIN present : \E p \in P : present[j] = faces[p]
  BY <1>5a, <1>5b DEF ComesFrom
<1>6. Cardinality(P) \in Nat
  BY <1>2, <1>3, PositionsFinite
<1> HIDE DEF present, st
<1>7. \A j \in DOMAIN present : present[j].weight \in Weights /\ b.assets[present[j].file] \in Formats
  BY <1>4, <1>5
<1>8. \A j \in 1 .. Cardinality(P) : [weight |-> present[j].weight, bytes |-> b.assets[present[j].file]] \in Face
  BY <1>5, <1>7 DEF Face
<1>9. st = [j \in 1 .. Cardinality(P) |-> [weight |-> present[j].weight, bytes |-> b.assets[present[j].file]]]
  BY <1>1, <1>5
<1>10. st \in Seq(Face)
  BY <1>6, <1>8, <1>9
<1> QED
  BY <1>10 DEF st

ImportedRow(b, f, i) ==
  [kind |-> f.kind, ordinal |-> 10 * i,
   service |-> IF f.kind = "cdn" THEN f.service ELSE NoService,
   faces |-> StoredFaces(b, f.faces)]

\* Storing the fonts of a pruned file.
LEMMA ApplyFontsKeepsSite ==
  ASSUME NEW s, SiteInv(s), NEW b, b.services \in Seq(FontService), Listed(b.families),
         \A n \in DOMAIN b.assets : b.assets[n] \in Formats,
         NEW keys, \A j \in DOMAIN b.families : Keepable(b.families[j], keys),
         \A k \in keys : \E j \in DOMAIN b.services : b.services[j].key = k,
         NEW merge \in BOOLEAN
  PROVE  SiteInv(ApplyBundleFonts(s, b, merge))
<1> DEFINE V == {b.services[i].key : i \in DOMAIN b.services}
           list == b.families
           row == [i \in DOMAIN list |-> ImportedRow(b, list[i], i)]
           W == IF merge THEN s.services \cup V ELSE V
           st == StoreFamilies(s, list, merge, row)
           new == ApplyBundleFonts(s, b, merge)
<1>1. new = [s EXCEPT !.services = W, !.fonts = st.fonts, !.rows = st.rows]
  BY DEF ApplyBundleFonts, ImportedRow
<1>2. V \subseteq Services /\ IsFiniteSet(V)
  BY KeysFit DEF FontService
<1>3. s.services \subseteq Services /\ IsFiniteSet(s.services)
  BY DEF SiteInv
<1>4. W \in SUBSET Services /\ IsFiniteSet(W) /\ V \subseteq W /\ (merge => s.services \subseteq W)
  <2> HIDE DEF V
  <2> QED
    BY <1>2, <1>3, FS_Union
<1>5. keys \subseteq V
  OBVIOUS
<1>6. NamesOf(list) \subseteq Families
  <2> HIDE DEF V, row, W, st, new
  <2>1. ASSUME NEW i \in DOMAIN list PROVE list[i].family \in Families
    BY DEF Keepable, BundleFamily
  <2> QED
    BY ONLY <2>1 DEF NamesOf
<1>7. ASSUME NEW i \in DOMAIN list PROVE row[i] \in Font /\ Served(row[i], W)
  <2> PICK f : f = list[i]
    OBVIOUS
  <2>1. i \in Nat /\ 10 * i \in Nat
    BY ListedDomain
  <2>2. /\ f.kind \in Kinds /\ Listed(f.faces) /\ \A c \in ToSet(f.faces) : c.weight \in Weights
        /\ f.kind = "cdn" => f.service \in V
    BY <1>5 DEF Keepable, BundleFamily
  <2>3. StoredFaces(b, f.faces) \in Seq(Face)
    BY <2>2, StoredFacesFit
  <2>4. row[i] = ImportedRow(b, f, i)
    OBVIOUS
  <2> HIDE DEF row, V, W
  <2>5. V \subseteq Services
    BY <1>2
  <2>6. ImportedRow(b, f, i) \in Font
    BY <2>1, <2>2, <2>3, <2>5 DEF ImportedRow, Font
  <2>7. Served(ImportedRow(b, f, i), W)
    BY <1>4, <2>2 DEF ImportedRow, Served
  <2> QED
    BY <2>4, <2>6, <2>7
<1> HIDE DEF V, W, row, new
<1>8. SiteInv(new)
  BY <1>1, <1>4, <1>6, <1>7, StoreKeepsSite
<1> QED
  BY <1>8 DEF new

\* What pruning leaves can be stored.
Storable(p) ==
  /\ p.content = [k \in Slots |-> p.content[k]]
  /\ \A k \in Slots : p.content[k] = Absent \/ StoredValue(p.content[k]) \/ p.content[k][1] = "file"
  /\ \A k \in Slots \ {Logo} : ValidateSlotValue(p.content[k])
  /\ p.role \in Families \cup {"", "absent"}
  /\ p.services \in Seq(FontService) /\ Listed(p.families)
  /\ \A j \in DOMAIN p.families : Keepable(p.families[j], {p.services[i].key : i \in DOMAIN p.services})

\* The fields of a pruned file.
LEMMA PrunedFields ==
  ASSUME NEW b, ThemeBundle(b)
  PROVE  LET p == PruneUnusableBundleItems(b).bundle IN
         /\ p.content = [k \in Slots |-> PruneSlot(b, k)]
         /\ p.role = IF IsValidThemeTokenValue(b.role) THEN b.role ELSE "absent"
         /\ p.services = PruneSources(b.services).kept
         /\ p.families = PruneFamilies(b, PruneSources(b.services).seen).kept
         /\ p.assets = b.assets
<1> DEFINE p == PruneUnusableBundleItems(b).bundle
           c == [k \in Slots |-> PruneSlot(b, k)]
           r == IF IsValidThemeTokenValue(b.role) THEN b.role ELSE "absent"
           v == PruneSources(b.services).kept
           f == PruneFamilies(b, PruneSources(b.services).seen).kept
<1>1. p = [b EXCEPT !.content = c, !.role = r, !.services = v, !.families = f]
  BY DEF PruneUnusableBundleItems
<1>2. b = [format |-> b.format, extra |-> b.extra, section |-> b.section, content |-> b.content,
           role |-> b.role, services |-> b.services, families |-> b.families, assets |-> b.assets]
  BY DEF ThemeBundle
<1> HIDE DEF p, c, r, v, f
<1>3. p.content = c /\ p.role = r /\ p.services = v /\ p.families = f /\ p.assets = b.assets
  BY ONLY <1>1, <1>2
<1> QED
  BY <1>3 DEF p, c, r, v, f

\* Pruning leaves nothing that cannot be stored.
LEMMA PrunedStorable ==
  ASSUME NEW b, Weighed(b)
  PROVE  Storable(PruneUnusableBundleItems(b).bundle)
<1> DEFINE p == PruneUnusableBundleItems(b).bundle
           src == PruneSources(b.services)
           fam == PruneFamilies(b, src.seen)
<1>1. /\ p.content = [k \in Slots |-> PruneSlot(b, k)]
      /\ p.role = IF IsValidThemeTokenValue(b.role) THEN b.role ELSE "absent"
      /\ p.services = src.kept /\ p.families = fam.kept
  BY PrunedFields DEF Weighed
<1>2. b.services \in Seq(FontService) /\ Listed(b.families)
      /\ \A f \in ToSet(b.families) : BundleFamily(f) /\ \A c \in ToSet(f.faces) : c.weight \in Weights
  BY DEF Weighed, ThemeBundle, FontLists, FontService
<1>3. SourcesFit(b.services, Len(b.services), src)
  BY <1>2, PruneSourcesResult
<1>4. FamiliesFit(b, src.seen, Len(b.families), fam)
  BY <1>2, PruneFamiliesResult
<1> HIDE DEF p, src, fam
<1>5. p.services \in Seq(FontService) /\ \A k \in src.seen : \E j \in DOMAIN p.services : p.services[j].key = k
  BY <1>1, <1>3 DEF SourcesFit
<1>6. Listed(p.families) /\ \A j \in DOMAIN p.families : Keepable(p.families[j], src.seen)
  BY <1>1, <1>4 DEF FamiliesFit
<1>7. src.seen \subseteq {p.services[i].key : i \in DOMAIN p.services}
  BY <1>5
<1>8. \A j \in DOMAIN p.families : Keepable(p.families[j], {p.services[i].key : i \in DOMAIN p.services})
  BY <1>6, <1>7 DEF Keepable
<1>9. p.role \in Families \cup {"", "absent"}
  BY <1>1 DEF Weighed, ThemeBundle, IsValidThemeTokenValue
<1>10. \A k \in Slots : p.content[k] = PruneSlot(b, k)
  BY <1>1
<1>11. \A k \in Slots : p.content[k] = Absent \/ p.content[k] = b.content[k]
  BY <1>10 DEF PruneSlot
<1>11a. \A k \in Slots \ {Logo} : ValidateSlotValue(p.content[k])
  BY <1>10 DEF PruneSlot, ValidateSlotValue, Absent, Junk
<1>12. \A k \in Slots : b.content[k] = Absent \/ StoredValue(b.content[k]) \/ b.content[k][1] = "file"
  BY DEF Weighed, ThemeBundle
<1>13. p.content = [k \in Slots |-> p.content[k]]
  BY <1>1
<1> QED
  BY <1>5, <1>6, <1>8, <1>9, <1>11, <1>11a, <1>12, <1>13 DEF Storable, p

\* Storing a pruned file keeps the look together.
LEMMA ApplyKeepsSite ==
  ASSUME NEW s, SiteInv(s), NEW p, Storable(p), \A n \in DOMAIN p.assets : p.assets[n] \in Formats,
         NEW merge \in BOOLEAN
  PROVE  SiteInv(ApplyBundle(s, p, merge))
<1> DEFINE images == {n \in DOMAIN p.assets : FontFormatFromMagicBytes(p.assets[n]) = ""}
           assets == IF merge THEN DOMAIN s.assets \cup images ELSE images
           Slot(k) == LET v == p.content[k] IN
                      IF v # Absent THEN (IF IsBundleAssetReference(v) THEN <<"path", v[2]>> ELSE v)
                      ELSE IF merge THEN s.slots[k] ELSE Unset
           a == [n \in assets |-> "image"]
           c == [k \in Slots |-> Slot(k)]
           r == IF p.role # "absent" THEN p.role ELSE IF merge THEN s.role ELSE ""
           t == [s EXCEPT !.assets = a, !.slots = c, !.role = r]
<1>1. ApplyBundle(s, p, merge) = ApplyBundleFonts(t, p, merge)
  BY DEF ApplyBundle
<1>2. s = [slots |-> s.slots, role |-> s.role, services |-> s.services,
           fonts |-> s.fonts, rows |-> s.rows, assets |-> s.assets]
  BY DEF SiteInv
<1>3. ASSUME NEW k \in Slots PROVE StoredValue(Slot(k)) /\ (k # Logo => ValidateSlotValue(Slot(k)))
  <2>1. StoredValue(Unset) /\ StoredValue(s.slots[k])
    BY DEF StoredValue, Unset, SiteInv
  <2>2. p.content[k] = Absent \/ StoredValue(p.content[k]) \/ p.content[k][1] = "file"
    BY DEF Storable
  <2>3. StoredValue(<<"path", p.content[k][2]>>)
    BY DEF StoredValue
  <2>4. ValidateSlotValue(Unset) /\ ValidateSlotValue(<<"path", p.content[k][2]>>)
    BY DEF ValidateSlotValue, Unset, Junk
  <2>5. k # Logo => ValidateSlotValue(p.content[k]) /\ ValidateSlotValue(s.slots[k])
    BY DEF Storable, SiteInv
  <2> QED
    BY <2>1, <2>2, <2>3, <2>4, <2>5 DEF IsBundleAssetReference
<1>4. r \in Families \cup {""}
  BY DEF Storable, SiteInv
<1> HIDE DEF Slot, r, assets, images
<1>5. c = [k \in Slots |-> c[k]] /\ \A k \in Slots : StoredValue(c[k]) /\ (k # Logo => ValidateSlotValue(c[k]))
  BY <1>3
<1>6. a = [n \in DOMAIN a |-> "image"]
  OBVIOUS
<1> HIDE DEF a, c, t
<1>7a. t = [s EXCEPT !.assets = a, !.slots = c, !.role = r]
  BY DEF t
<1>7. t = [slots |-> c, role |-> r, services |-> s.services, fonts |-> s.fonts, rows |-> s.rows, assets |-> a]
  BY ONLY <1>2, <1>7a
<1>8. t.slots = c /\ t.role = r /\ t.services = s.services /\ t.fonts = s.fonts /\ t.rows = s.rows /\ t.assets = a
  BY ONLY <1>7
<1>9. RowsFit(t)
  BY <1>8 DEF SiteInv, RowsFit
<1>10. SiteInv(t)
  BY <1>4, <1>5, <1>6, <1>7, <1>8, <1>9 DEF SiteInv
<1> DEFINE keys == {p.services[i].key : i \in DOMAIN p.services}
<1>11. \A k \in keys : \E j \in DOMAIN p.services : p.services[j].key = k
  OBVIOUS
<1>12. /\ p.services \in Seq(FontService) /\ Listed(p.families)
       /\ \A j \in DOMAIN p.families : Keepable(p.families[j], keys)
  BY DEF Storable
<1> HIDE DEF keys
<1> QED
  BY <1>1, <1>10, <1>11, <1>12, ApplyFontsKeepsSite

\* An import keeps the look together, accepted or not.
LEMMA ImportKeepsSite ==
  ASSUME NEW s, SiteInv(s), NEW b, ThemeBundle(b), NEW merge \in BOOLEAN, NEW strict \in BOOLEAN
  PROVE  SiteInv(ImportThemeBundleJson(s, b, merge, strict).site)
<1> DEFINE done == ImportThemeBundleJson(s, b, merge, strict)
           p == PruneUnusableBundleItems(ThemeBundleFromJson(b)).bundle
<1>1. done.ok \in BOOLEAN /\ done.site = (IF done.ok THEN ApplyBundle(s, p, merge) ELSE s)
      /\ (done.ok => ~FindFatalBundleProblem(b))
  BY DEF ImportThemeBundleJson
<1>2. Weighed(ThemeBundleFromJson(b)) /\ ThemeBundleFromJson(b).assets = b.assets
  BY ThemeBundleFromJsonFits
<1>3. Storable(p)
  BY <1>2, PrunedStorable
<1>4. p.assets = b.assets
  BY <1>2, PrunedFields DEF Weighed
<1>5. ~FindFatalBundleProblem(b) => \A n \in DOMAIN b.assets : b.assets[n] \in Formats
  BY DEF FindFatalBundleProblem, ThemeBundle, FontFormatFromMagicBytes, ImageTypeFromMagicBytes, Formats
<1> HIDE DEF done, p
<1>6. done.ok => SiteInv(ApplyBundle(s, p, merge))
  BY <1>1, <1>3, <1>4, <1>5, ApplyKeepsSite
<1>7. SiteInv(done.site)
  BY <1>1, <1>6
<1> QED
  BY <1>7 DEF done

-------------------------------------------------------------------------------
(* Export *)

\* Positions in any order: what stands there, each once.
LEMMA SortedAtKeeps ==
  ASSUME NEW q, NEW n \in Nat, NEW P \in SUBSET (1 .. n), NEW E, StrictOrder(P, E)
  PROVE  /\ Listed(SortedAt(q, P, E)) /\ Len(SortedAt(q, P, E)) = Cardinality(P)
         /\ DOMAIN SortedAt(q, P, E) = 1 .. Cardinality(P) /\ ComesFrom(SortedAt(q, P, E), q, P)
<1> DEFINE N == Cardinality(P)
           c == SortedAt(q, P, E)
           at == Sorted(P, E)
<1>1. IsFiniteSet(P) /\ N \in Nat
  BY PositionsFinite
<1>2. at \in [1 .. N -> P]
  BY <1>1, SortedEnumerates DEF Enumerates
<1>3. c = [k \in 1 .. N |-> q[at[k]]]
  BY DEF SortedAt
<1> HIDE DEF c, N, at
<1>4. c = [k \in 1 .. N |-> c[k]]
  BY <1>3
<1>5. Listed(c) /\ Len(c) = N
  BY <1>1, <1>4, MakeListed
<1>6. DOMAIN c = 1 .. N /\ ComesFrom(c, q, P)
  BY <1>2, <1>3 DEF ComesFrom
<1> QED
  BY <1>5, <1>6 DEF c, N

\* No two faces of a family have one place in the order.
LEMMA LighterOrders ==
  ASSUME NEW faces \in Seq(Face), NEW E, \A i, j \in DOMAIN faces : <<i, j>> \in E <=> Lighter(faces, i, j)
  PROVE  StrictOrder(DOMAIN faces, E)
<1> DEFINE D == DOMAIN faces
<1>1. \A i \in D : i \in Nat /\ faces[i] \in Face
  OBVIOUS
<1>2. \A i \in D : faces[i].weight \in Nat
  BY <1>1, BrandingAssumption DEF Face
<1> HIDE DEF D
<1>4. \A i, j \in D : Lighter(faces, i, j) <=> (\/ faces[i].weight < faces[j].weight
                                               \/ (faces[i].weight = faces[j].weight /\ i < j))
  BY DEF Lighter
<1>5. PICK w : w = [i \in D |-> faces[i].weight]
  OBVIOUS
<1>6. \A i \in D : w[i] \in Nat /\ i \in Nat
  BY <1>1, <1>2, <1>5
<1>7. \A i, j \in D : <<i, j>> \in E <=> (w[i] < w[j] \/ (w[i] = w[j] /\ i < j))
  BY <1>4, <1>5 DEF D
<1>8. StrictOrder(D, E)
  <2>1. \A x \in D : <<x, x>> \notin E
    BY <1>6, <1>7
  <2>2. \A x, y, z \in D : <<x, y>> \in E /\ <<y, z>> \in E => <<x, z>> \in E
    BY <1>6, <1>7
  <2>3. \A x, y \in D : x # y => <<x, y>> \in E \/ <<y, x>> \in E
    BY <1>6, <1>7
  <2> QED
    BY <2>1, <2>2, <2>3 DEF StrictOrder
<1> QED
  BY <1>8 DEF D

\* GetFacesForFont lists the faces of the family.
LEMMA FacesInOrder ==
  ASSUME NEW faces \in Seq(Face)
  PROVE  /\ Listed(FacesForFont(faces)) /\ Len(FacesForFont(faces)) = Len(faces)
         /\ \A i \in 1 .. Len(FacesForFont(faces)) : FacesForFont(faces)[i] \in Face
         /\ ComesFrom(FacesForFont(faces), faces, DOMAIN faces)
<1> DEFINE n == Len(faces)
           D == DOMAIN faces
           E == {p \in D \X D : Lighter(faces, p[1], p[2])}
           q == FacesForFont(faces)
<1>1. n \in Nat /\ D = 1 .. n /\ \A i \in D : faces[i] \in Face
  OBVIOUS
<1>4. q = SortedAt(faces, D, E)
  BY DEF FacesForFont
<1>5. \A i, j \in D : <<i, j>> \in E <=> Lighter(faces, i, j)
  OBVIOUS
<1> HIDE DEF E
<1>6. StrictOrder(D, E)
  BY <1>5, LighterOrders
<1> HIDE DEF D, E, n, q
<1>7. D \in SUBSET (1 .. n)
  BY <1>1
<1>8. Cardinality(D) = n
  <2>1. Cardinality(1 .. n) = n
    BY <1>1, FS_Interval
  <2> QED
    BY <1>1, <2>1
<1>9. Listed(q) /\ Len(q) = Cardinality(D) /\ DOMAIN q = 1 .. Cardinality(D) /\ ComesFrom(q, faces, D)
  BY <1>1, <1>4, <1>6, <1>7, SortedAtKeeps
<1>10. \A i \in 1 .. n : q[i] \in Face
  BY <1>1, <1>8, <1>9 DEF ComesFrom
<1> QED
  BY <1>8, <1>9, <1>10 DEF q, n, D

\* GetAllFonts lists every family once.
LEMMA FontsInOrder ==
  ASSUME NEW s, RowsFit(s), \A f \in DOMAIN s.fonts : s.fonts[f].ordinal \in Nat
  PROVE  /\ Listed(AllFonts(s)) /\ Once(AllFonts(s)) /\ ToSet(AllFonts(s)) = DOMAIN s.fonts
<1> DEFINE D == DOMAIN s.fonts
           N == Cardinality(D)
           E == {p \in D \X D : Earlier(s, p[1], p[2])}
           q == AllFonts(s)
           r == s.rows
<1>1. Len(r) \in Nat /\ DOMAIN r = 1 .. Len(r) /\ D = ToSet(r) /\ IsFiniteSet(D)
  BY ListedDomain, ListedFinite DEF RowsFit
<1>2. \A i, j \in 1 .. Len(r) : r[i] = r[j] => i = j
  BY DEF RowsFit, Once
<1>3. \A f \in D : \E i \in 1 .. Len(r) : r[i] = f
  BY <1>1 DEF ToSet
<1>4. PICK at : at = [f \in D |-> CHOOSE i \in 1 .. Len(r) : r[i] = f]
  OBVIOUS
<1>5. \A f \in D : at[f] \in 1 .. Len(r) /\ r[at[f]] = f
  BY <1>3, <1>4
<1>6. \A f, g \in D : <<f, g>> \in E <=> Earlier(s, f, g)
  OBVIOUS
<1>7. q = Sorted(D, E)
  BY DEF AllFonts
<1>7a. \A f \in D : s.fonts[f].ordinal \in Nat
  OBVIOUS
<1> HIDE DEF D, E, q, r
<1>8. \A f, g \in D : Earlier(s, f, g) <=> \/ s.fonts[f].ordinal < s.fonts[g].ordinal
                                           \/ s.fonts[f].ordinal = s.fonts[g].ordinal /\ at[f] < at[g]
  <2> SUFFICES ASSUME NEW f \in D, NEW g \in D
               PROVE  (\E i, j \in DOMAIN r : i < j /\ r[i] = f /\ r[j] = g) <=> at[f] < at[g]
    BY DEF Earlier, r
  <2>1. \A i \in DOMAIN r : r[i] = f => i = at[f]
    BY <1>1, <1>2, <1>5
  <2>2. \A i \in DOMAIN r : r[i] = g => i = at[g]
    BY <1>1, <1>2, <1>5
  <2> QED
    BY <1>1, <1>5, <2>1, <2>2
<1>9. StrictOrder(D, E)
  <2>0. \A f \in D : at[f] \in Nat
    BY <1>1, <1>5
  <2>1. \A x \in D : <<x, x>> \notin E
    BY <1>6, <1>7a, <1>8, <2>0
  <2>2. \A x, y, z \in D : <<x, y>> \in E /\ <<y, z>> \in E => <<x, z>> \in E
    BY <1>6, <1>7a, <1>8, <2>0
  <2>3. \A x, y \in D : x # y => at[x] # at[y]
    BY <1>5
  <2>4. \A x, y \in D : x # y => <<x, y>> \in E \/ <<y, x>> \in E
    BY <1>6, <1>7a, <1>8, <2>0, <2>3
  <2> QED
    BY <2>1, <2>2, <2>4 DEF StrictOrder
<1>10. /\ N \in Nat /\ q \in [1 .. N -> D]
       /\ \A i, j \in 1 .. N : q[i] = q[j] => i = j
       /\ \A x \in D : \E i \in 1 .. N : q[i] = x
  BY <1>1, <1>7, <1>9, SortedEnumerates DEF Enumerates
<1> HIDE DEF N
<1>11. q = [i \in 1 .. N |-> q[i]] /\ DOMAIN q = 1 .. N
  BY <1>10
<1>12. Listed(q) /\ Len(q) = N
  BY <1>10, <1>11, MakeListed
<1>13. ToSet(q) = D
  BY <1>10, <1>11 DEF ToSet
<1> QED
  BY <1>10, <1>12, <1>13 DEF q, D, Once

\* A finite set of services can be listed.
LEMMA ServicesInOrder ==
  ASSUME NEW S, IsFiniteSet(S)
  PROVE  SetToSeq(S) \in [1 .. Cardinality(S) -> S] /\ Cardinality(S) \in Nat
<1>1. Cardinality(S) \in Nat /\ ExistsBijection(1 .. Cardinality(S), S)
  BY FS_CardinalityType
<1>2. PICK f : f \in [1 .. Cardinality(S) -> S] /\ IsInjective(f)
  BY <1>1 DEF ExistsBijection, Bijection, Injection, IsInjective
<1> QED
  BY <1>1, <1>2 DEF SetToSeq

\* The faces of a family, exported so far.
FacesDone(x) ==
  /\ x = [assets |-> x.assets, faces |-> x.faces]
  /\ x.assets = [n \in DOMAIN x.assets |-> x.assets[n]]
  /\ \A n \in DOMAIN x.assets : x.assets[n] \in Formats
  /\ Listed(x.faces)
  /\ \A c \in ToSet(x.faces) : c = [weight |-> c.weight, file |-> c.file] /\ c.weight \in Weights

\* One face more.
LEMMA ExportFaceFits ==
  ASSUME NEW x, FacesDone(x), NEW f, NEW c \in Face
  PROVE  FacesDone(ExportFace(x, f, c))
<1> DEFINE y == ExportFace(x, f, c)
<1>1. PICK name : name = ClaimAssetName(DOMAIN x.assets, f, c.weight)
  OBVIOUS
<1> DEFINE a == [n \in DOMAIN x.assets \cup {name} |-> IF n = name THEN c.bytes ELSE x.assets[n]]
           e == [weight |-> c.weight, file |-> name]
           q == Append(x.faces, e)
<1>2. y = [assets |-> a, faces |-> q]
  BY <1>1 DEF ExportFace
<1>3. e = [weight |-> e.weight, file |-> e.file] /\ e.weight \in Weights /\ c.bytes \in Formats
  BY DEF Face
<1>4. a = [n \in DOMAIN a |-> a[n]] /\ \A n \in DOMAIN a : a[n] \in Formats
  BY <1>3 DEF FacesDone
<1> HIDE DEF e, a
<1>5. Listed(q) /\ ToSet(q) = ToSet(x.faces) \cup {e}
  BY AppendListed DEF FacesDone
<1> HIDE DEF q, y
<1>6. y.assets = a /\ y.faces = q
  BY ONLY <1>2
<1>7. \A z \in ToSet(q) : z = [weight |-> z.weight, file |-> z.file] /\ z.weight \in Weights
  BY <1>3, <1>5 DEF FacesDone
<1>8. FacesDone(y)
  BY <1>2, <1>4, <1>5, <1>6, <1>7 DEF FacesDone
<1> QED
  BY <1>8 DEF y

\* All faces of a family.
LEMMA ExportFacesResult ==
  ASSUME NEW assets, assets = [n \in DOMAIN assets |-> assets[n]], \A n \in DOMAIN assets : assets[n] \in Formats,
         NEW f0, NEW faces, Listed(faces), \A i \in 1 .. Len(faces) : faces[i] \in Face
  PROVE  FacesDone(ExportFaces(assets, f0, faces))
<1> DEFINE N == Len(faces)
           First == [assets |-> assets, faces |-> <<>>]
           g == CHOOSE f : FacesUpTo(f, assets, f0, faces, N)
<1>1. ExportFaces(assets, f0, faces) = g[N]
  BY DEF ExportFaces, FacesUpTo
<1>2. N \in Nat /\ \A i \in 1 .. N : faces[i] \in Face
  BY ListedDomain
<1> HIDE DEF N
<1>3. FacesUpTo(g, assets, f0, faces, N)
  BY <1>2, FacesExist
<1> HIDE DEF g
<1>4. \A i \in 0 .. N : g[i] = IF i = 0 THEN First ELSE ExportFace(g[i - 1], f0, faces[i])
  BY <1>3 DEF FacesUpTo
<1> DEFINE T == {i \in 0 .. N : FacesDone(g[i])}
<1>5. 0 \in T
  <2>1a. 0 \in 0 .. N
    BY <1>2
  <2>1b. g[0] = IF 0 = 0 THEN First ELSE ExportFace(g[0 - 1], f0, faces[0])
    BY ONLY <1>4, <2>1a
  <2>1. g[0] = First /\ 0 \in 0 .. N
    BY ONLY <2>1a, <2>1b
  <2>2. First = [assets |-> First.assets, faces |-> First.faces] /\ First.assets = assets /\ First.faces = <<>>
    OBVIOUS
  <2> HIDE DEF First
  <2>3. Listed(<<>>) /\ ToSet(<<>>) = {}
    BY DEF Listed, ToSet
  <2>3a. Listed(First.faces) /\ ToSet(First.faces) = {}
    BY ONLY <2>2, <2>3
  <2>4. FacesDone(First)
    BY <2>2, <2>3a DEF FacesDone
  <2> QED
    BY <2>1, <2>4
<1>6. ASSUME NEW i \in 1 .. N, i - 1 \in T PROVE i \in T
  <2>1. i \in 0 .. N /\ i # 0
    BY <1>2
  <2>2. FacesDone(g[i - 1])
    BY <1>6
  <2>3. g[i] = ExportFace(g[i - 1], f0, faces[i])
    BY <1>4, <2>1
  <2>4. FacesDone(ExportFace(g[i - 1], f0, faces[i]))
    BY <1>2, <2>2, ExportFaceFits
  <2> QED
    BY <2>1, <2>3, <2>4
<1> HIDE DEF T
<1>7. \A i \in 0 .. N : i \in T
  BY <1>2, <1>5, <1>6, UpToBound
<1>8. N \in T
  BY <1>2, <1>7
<1> QED
  BY <1>1, <1>8 DEF T

\* The families exported so far.
FamiliesDone(x) ==
  /\ x = [assets |-> x.assets, families |-> x.families]
  /\ x.assets = [n \in DOMAIN x.assets |-> x.assets[n]]
  /\ \A n \in DOMAIN x.assets : x.assets[n] \in Formats
  /\ Listed(x.families) /\ \A f \in ToSet(x.families) : BundleFamily(f)

\* One family more.
LEMMA ExportFamilyFits ==
  ASSUME NEW x, FamiliesDone(x), NEW f \in Families, NEW font \in Font
  PROVE  FamiliesDone(ExportFamily(x, f, font))
<1> DEFINE y == ExportFamily(x, f, font)
           q == FacesForFont(font.faces)
<1>1. PICK done : done = ExportFaces(x.assets, f, q)
  OBVIOUS
<1> DEFINE e == [family |-> f, kind |-> font.kind, valid |-> TRUE, faces |-> done.faces,
                 service |-> IF font.kind = "cdn" THEN font.service ELSE NoService]
           l == Append(x.families, e)
<1>2. y = [assets |-> done.assets, families |-> l]
  BY <1>1 DEF ExportFamily
<1>3. font.faces \in Seq(Face) /\ font.kind \in Kinds
  BY DEF Font
<1>4. Listed(q) /\ \A i \in 1 .. Len(q) : q[i] \in Face
  BY <1>3, FacesInOrder
<1> HIDE DEF q
<1>5. FacesDone(done)
  BY <1>1, <1>4, ExportFacesResult DEF FamiliesDone
<1>6. /\ e = [family |-> e.family, kind |-> e.kind, valid |-> e.valid, service |-> e.service, faces |-> e.faces]
      /\ e.family = f /\ e.kind = font.kind /\ e.valid = TRUE /\ e.faces = done.faces
  OBVIOUS
<1> HIDE DEF e
<1>7. Listed(l) /\ ToSet(l) = ToSet(x.families) \cup {e}
  BY AppendListed DEF FamiliesDone
<1> HIDE DEF l, y
<1>8. BundleFamily(e)
  BY <1>3, <1>5, <1>6 DEF BundleFamily, FacesDone
<1>9. y.assets = done.assets /\ y.families = l
  BY ONLY <1>2
<1>10. FamiliesDone(y)
  BY <1>2, <1>5, <1>7, <1>8, <1>9 DEF FamiliesDone, FacesDone
<1> QED
  BY <1>10 DEF y

\* All families.
LEMMA ExportFamiliesResult ==
  ASSUME NEW fonts, \A f \in DOMAIN fonts : fonts[f] \in Font, DOMAIN fonts \subseteq Families,
         NEW order, Listed(order), ToSet(order) \subseteq DOMAIN fonts,
         NEW pictures, pictures = [n \in DOMAIN pictures |-> pictures[n]],
         \A n \in DOMAIN pictures : pictures[n] \in Formats
  PROVE  FamiliesDone(ExportFamilies(fonts, order, pictures))
<1> DEFINE N == Len(order)
           First == [assets |-> pictures, families |-> <<>>]
           g == CHOOSE f : ExportedUpTo(f, fonts, order, pictures, N)
<1>1. ExportFamilies(fonts, order, pictures) = g[N]
  BY DEF ExportFamilies, ExportedUpTo
<1>2. N \in Nat /\ \A i \in 1 .. N : order[i] \in DOMAIN fonts
  BY ListedDomain DEF ToSet
<1> HIDE DEF N
<1>3. ExportedUpTo(g, fonts, order, pictures, N)
  BY <1>2, ExportedExist
<1> HIDE DEF g
<1>4. \A i \in 0 .. N : g[i] = IF i = 0 THEN First ELSE ExportFamily(g[i - 1], order[i], fonts[order[i]])
  BY <1>3 DEF ExportedUpTo
<1> DEFINE T == {i \in 0 .. N : FamiliesDone(g[i])}
<1>5. 0 \in T
  <2>1a. 0 \in 0 .. N
    BY <1>2
  <2>1b. g[0] = IF 0 = 0 THEN First ELSE ExportFamily(g[0 - 1], order[0], fonts[order[0]])
    BY ONLY <1>4, <2>1a
  <2>1. g[0] = First /\ 0 \in 0 .. N
    BY ONLY <2>1a, <2>1b
  <2>2. First = [assets |-> First.assets, families |-> First.families] /\ First.assets = pictures /\ First.families = <<>>
    BY ONLY DEF First
  <2> HIDE DEF First
  <2>3. Listed(<<>>) /\ ToSet(<<>>) = {}
    BY DEF Listed, ToSet
  <2>3a. Listed(First.families) /\ ToSet(First.families) = {}
    BY ONLY <2>2, <2>3
  <2>4. FamiliesDone(First)
    BY <2>2, <2>3a DEF FamiliesDone
  <2> QED
    BY <2>1, <2>4
<1>6. ASSUME NEW i \in 1 .. N, i - 1 \in T PROVE i \in T
  <2>1. i \in 0 .. N /\ i # 0
    BY <1>2
  <2>2. FamiliesDone(g[i - 1])
    BY <1>6
  <2>3. g[i] = ExportFamily(g[i - 1], order[i], fonts[order[i]])
    BY <1>4, <2>1
  <2>4. FamiliesDone(ExportFamily(g[i - 1], order[i], fonts[order[i]]))
    BY <1>2, <2>2, ExportFamilyFits
  <2> QED
    BY <2>1, <2>3, <2>4
<1> HIDE DEF T
<1>7. \A i \in 0 .. N : i \in T
  BY <1>2, <1>5, <1>6, UpToBound
<1>8. N \in T
  BY <1>2, <1>7
<1> QED
  BY <1>1, <1>8 DEF T

\* The export of a look is a theme file.
LEMMA ExportIsBundle ==
  ASSUME NEW s, SiteInv(s)
  PROVE  ThemeBundle(ExportThemeBundle(s))
<1> DEFINE fonts == ExportFamilies(s.fonts, AllFonts(s), ExportPictures(s))
           c == [k \in Slots |-> ExportSlot(s, s.slots[k])]
           v == [i \in 1 .. Cardinality(s.services) |-> [key |-> SetToSeq(s.services)[i], valid |-> TRUE]]
           raw == [format |-> 1, extra |-> "none", section |-> "none", content |-> c, role |-> s.role,
                   services |-> v, families |-> fonts.families, assets |-> fonts.assets]
           c2 == [k \in Slots |-> IF c[k] = Absent THEN Unset ELSE c[k]]
           r2 == IF s.role = "absent" THEN "" ELSE s.role
           b == ExportThemeBundle(s)
           pics == ExportPictures(s)
<1>1. FamiliesDone(fonts)
  <2>1. pics = [n \in DOMAIN pics |-> pics[n]] /\ \A n \in DOMAIN pics : pics[n] \in Formats
    <3>1. s.assets = [n \in DOMAIN s.assets |-> "image"]
      BY DEF SiteInv
    <3>1a. PICK A : A = s.assets
      OBVIOUS
    <3>1b. \A n \in DOMAIN A : A[n] = "image"
      BY <3>1, <3>1a
    <3> DEFINE used == {n \in DOMAIN A : \E k \in Slots : s.slots[k] = <<"path", n>>}
    <3>2. pics = [n \in used |-> A[n]]
      BY <3>1a DEF ExportPictures
    <3>3. \A n \in used : A[n] \in Formats
      BY <3>1b DEF Formats
    <3> HIDE DEF used, pics
    <3> QED
      BY <3>2, <3>3
  <2>2. RowsFit(s) /\ (\A f \in DOMAIN s.fonts : s.fonts[f] \in Font) /\ DOMAIN s.fonts \subseteq Families
    BY DEF SiteInv, FontsFit
  <2>3. \A f \in DOMAIN s.fonts : s.fonts[f].ordinal \in Nat
    BY <2>2 DEF Font
  <2>4. Listed(AllFonts(s)) /\ ToSet(AllFonts(s)) \subseteq DOMAIN s.fonts
    BY <2>2, <2>3, FontsInOrder
  <2> HIDE DEF pics
  <2> QED
    BY <2>1, <2>2, <2>4, ExportFamiliesResult DEF pics
<1>2. b = [raw EXCEPT !.content = c2, !.role = r2]
  BY DEF ExportThemeBundle, ThemeBundleToJson
<1>3. v \in Seq(FontService)
  <2>1. s.services \subseteq Services /\ IsFiniteSet(s.services)
    BY DEF SiteInv
  <2>2. SetToSeq(s.services) \in [1 .. Cardinality(s.services) -> s.services] /\ Cardinality(s.services) \in Nat
    BY <2>1, ServicesInOrder
  <2>3. PICK n, q : n = Cardinality(s.services) /\ q = SetToSeq(s.services)
    OBVIOUS
  <2>4. n \in Nat /\ \A i \in 1 .. n : q[i] \in Services
    BY <2>1, <2>2, <2>3
  <2>5. \A i \in 1 .. n : [key |-> q[i], valid |-> TRUE] \in FontService
    BY <2>4 DEF FontService
  <2>6. v = [i \in 1 .. n |-> [key |-> q[i], valid |-> TRUE]]
    BY <2>3
  <2> HIDE DEF v
  <2> QED
    BY <2>4, <2>5, <2>6
<1>4. \A k \in Slots : StoredValue(c[k]) \/ c[k][1] = "file"
  <2> SUFFICES ASSUME NEW k \in Slots PROVE StoredValue(c[k]) \/ c[k][1] = "file"
    OBVIOUS
  <2>1. c[k] = ExportSlot(s, s.slots[k]) /\ StoredValue(s.slots[k])
    BY DEF SiteInv
  <2>2. StoredValue(Unset)
    BY DEF StoredValue, Unset
  <2>3. <<"file", s.slots[k][2]>>[1] = "file"
    OBVIOUS
  <2> HIDE DEF c
  <2> QED
    BY <2>1, <2>2, <2>3 DEF ExportSlot
<1>5. c2 = [k \in Slots |-> c2[k]] /\ \A k \in Slots : StoredValue(c2[k]) \/ c2[k][1] = "file"
  <2>1. StoredValue(Unset)
    BY DEF StoredValue, Unset
  <2> HIDE DEF c
  <2> QED
    BY <1>4, <2>1
<1>6. r2 \in Families \cup {"", "absent", "junk"}
  BY DEF SiteInv
<1>7. PICK fa, as : fa = fonts.families /\ as = fonts.assets
  OBVIOUS
<1>8. raw = [format |-> 1, extra |-> "none", section |-> "none", content |-> c, role |-> s.role,
             services |-> v, families |-> fa, assets |-> as]
  BY <1>7
<1> HIDE DEF fonts, c, v, raw, c2, r2, b
<1>9. b = [format |-> 1, extra |-> "none", section |-> "none", content |-> c2, role |-> r2,
           services |-> v, families |-> fa, assets |-> as]
  BY ONLY <1>2, <1>8
<1>10. /\ b.format = 1 /\ b.extra = "none" /\ b.section = "none" /\ b.content = c2 /\ b.role = r2
       /\ b.services = v /\ b.families = fa /\ b.assets = as
  BY ONLY <1>9
<1>11. FontLists(b)
  BY <1>1, <1>3, <1>7, <1>10 DEF FontLists, FamiliesDone, FontService
<1>12. ThemeBundle(b)
  BY <1>1, <1>5, <1>6, <1>7, <1>9, <1>10, <1>11 DEF ThemeBundle, FamiliesDone
<1> QED
  BY <1>12 DEF b

\* Whatever may be uploaded is a theme file.
LEMMA ThemeFilesFit ==
  ASSUME SiteInv(site), NEW b \in ThemeFiles
  PROVE  ThemeBundle(b)
<1>1. CASE b \in Bundles
  BY <1>1, BrandingAssumption
<1>2. CASE b = ExportThemeBundle(site)
  BY <1>2, ExportIsBundle
<1>3. b \in Bundles \/ b = ExportThemeBundle(site)
  BY DEF ThemeFiles
<1> QED
  BY <1>1, <1>2, <1>3

-------------------------------------------------------------------------------
(* The steps *)

\* A new studio has a look without loose ends.
LEMMA BlankFits ==
  SiteInv(Blank)
<1> DEFINE c == [k \in Slots |-> Unset]
           e == <<>>
<1>1. Blank = [slots |-> c, role |-> "", services |-> {}, fonts |-> e, rows |-> e, assets |-> e]
  BY DEF Blank
<1>2. c = [k \in Slots |-> c[k]] /\ \A k \in Slots : StoredValue(c[k]) /\ (k # Logo => ValidateSlotValue(c[k]))
  BY DEF StoredValue, Unset, ValidateSlotValue, Junk
<1>3. /\ e = [n \in DOMAIN e |-> e[n]] /\ e = [n \in DOMAIN e |-> "image"] /\ DOMAIN e = {}
      /\ Listed(e) /\ Once(e) /\ ToSet(e) = {} /\ Len(e) = 0
  BY DEF Listed, Once, ToSet
<1> HIDE DEF c, e
<1>4. /\ Blank.slots = c /\ Blank.role = "" /\ Blank.services = {} /\ Blank.fonts = e
      /\ Blank.rows = e /\ Blank.assets = e
  BY ONLY <1>1
<1>5. IsFiniteSet({})
  BY FS_EmptySet
<1>6. FontsFit(e)
  BY <1>3 DEF FontsFit
<1>7. RowsFit(Blank)
  BY <1>3, <1>4 DEF RowsFit
<1>8. \A f \in DOMAIN e : FALSE
  BY <1>3
<1>9. Blank = [slots |-> Blank.slots, role |-> Blank.role, services |-> Blank.services,
               fonts |-> Blank.fonts, rows |-> Blank.rows, assets |-> Blank.assets]
  BY <1>1, <1>4
<1> QED
  BY <1>2, <1>3, <1>4, <1>5, <1>6, <1>7, <1>8, <1>9 DEF SiteInv

\* PutManageSiteTheme keeps the look together.
LEMMA ThemeEditKeeps ==
  BrandingInv /\ PutManageSiteTheme => BrandingInv'
<1> SUFFICES ASSUME BrandingInv, PutManageSiteTheme PROVE BrandingInv'
  OBVIOUS
<1>1. CASE \E k \in Slots \ {Logo}, v \in SlotEdits :
             /\ site' = IF ValidateSlotValue(v) THEN [site EXCEPT !.slots[k] = v] ELSE site
             /\ answer' = IF ValidateSlotValue(v) THEN "saved" ELSE "refused"
             /\ UNCHANGED storage
  <2> PICK k \in Slots \ {Logo}, v \in SlotEdits :
             /\ site' = IF ValidateSlotValue(v) THEN [site EXCEPT !.slots[k] = v] ELSE site
             /\ answer' = IF ValidateSlotValue(v) THEN "saved" ELSE "refused"
             /\ UNCHANGED storage
    BY <1>1
  <2>1. StoredValue(v) /\ SiteInv(site)
    BY BrandingAssumption DEF BrandingInv
  <2>2. ValidateSlotValue(v) => SiteInv([site EXCEPT !.slots[k] = v])
    BY <2>1, SettingKeepsSite
  <2>3. SiteInv(site')
    BY <2>1, <2>2
  <2> QED
    BY <2>3 DEF BrandingInv, SiteInv, FontsFit, RowsFit
<1>2. CASE \E f \in RoleEdits :
             /\ site' = [site EXCEPT !.role = f]
             /\ answer' = "saved"
             /\ UNCHANGED storage
  <2> PICK f \in RoleEdits : site' = [site EXCEPT !.role = f] /\ answer' = "saved" /\ UNCHANGED storage
    BY <1>2
  <2>1. f \in Families \cup {""} /\ SiteInv(site)
    BY BrandingAssumption DEF BrandingInv
  <2>2. SiteInv(site')
    BY <2>1, RoleKeepsSite
  <2> QED
    BY <2>2 DEF BrandingInv, SiteInv, FontsFit, RowsFit
<1> QED
  BY <1>1, <1>2 DEF PutManageSiteTheme

\* So does saving the inventory.
LEMMA InventoryKeeps ==
  BrandingInv /\ PutManageSiteFonts => BrandingInv'
<1> SUFFICES ASSUME BrandingInv, PutManageSiteFonts PROVE BrandingInv'
  OBVIOUS
<1> PICK inv \in Inventories :
      /\ site' = IF storage /\ ValidInventory(inv) THEN SaveInventory(site, inv) ELSE site
      /\ answer' = IF storage /\ ValidInventory(inv) THEN "saved" ELSE "refused"
      /\ UNCHANGED storage
  BY DEF PutManageSiteFonts
<1>1. FontLists(inv) /\ SiteInv(site)
  BY BrandingAssumption DEF BrandingInv
<1>2. SiteInv(SaveInventory(site, inv))
  BY <1>1, SaveInventoryResult
<1>3. SiteInv(site')
  BY <1>1, <1>2
<1> QED
  BY <1>3 DEF BrandingInv

\* So does uploading a face.
LEMMA FaceUploadKeeps ==
  BrandingInv /\ PostManageSiteFontFace => BrandingInv'
<1> SUFFICES ASSUME BrandingInv, PostManageSiteFontFace PROVE BrandingInv'
  OBVIOUS
<1> PICK f \in Families, w \in Weights, bytes \in Formats :
      LET found == f \in DOMAIN site.fonts
          ok == FontFormatFromMagicBytes(bytes) # "" /\ found
      IN /\ found => Len(site.fonts[f].faces) < MaxFaces
         /\ site' = IF ok THEN [site EXCEPT !.fonts[f].faces =
                                   Append(@, [weight |-> w, bytes |-> bytes])] ELSE site
         /\ answer' = IF ok THEN "saved" ELSE "refused"
         /\ UNCHANGED storage
  BY DEF PostManageSiteFontFace
<1>1. SiteInv(site) /\ answer' \in {"saved", "refused"} /\ storage' = storage
  BY DEF BrandingInv
<1>2. CASE FontFormatFromMagicBytes(bytes) # "" /\ f \in DOMAIN site.fonts
  <2>1. PICK q : q = Append(site.fonts[f].faces, [weight |-> w, bytes |-> bytes])
    OBVIOUS
  <2>2. site' = [site EXCEPT !.fonts[f].faces = q]
    BY <1>2, <2>1
  <2>3. site.fonts[f].faces \in Seq(Face)
    BY <1>1, <1>2 DEF SiteInv, FontsFit, Font
  <2>4. [weight |-> w, bytes |-> bytes] \in Face
    BY DEF Face
  <2>5. q \in Seq(Face)
    <3>1. PICK old, new : old = site.fonts[f].faces /\ new = [weight |-> w, bytes |-> bytes]
      OBVIOUS
    <3>2. old \in Seq(Face) /\ new \in Face /\ q = Append(old, new)
      BY <2>1, <2>3, <2>4, <3>1
    <3> QED
      BY ONLY <3>2
  <2>6. SiteInv([site EXCEPT !.fonts[f].faces = q])
    BY <1>1, <1>2, <2>5, FacesKeepSite
  <2> QED
    BY <1>1, <2>2, <2>6 DEF BrandingInv
<1>3. CASE ~(FontFormatFromMagicBytes(bytes) # "" /\ f \in DOMAIN site.fonts)
  <2>1. site' = site
    BY <1>3
  <2> QED
    BY <1>1, <2>1 DEF BrandingInv
<1> QED
  BY <1>2, <1>3

\* So does deleting one.
LEMMA FaceDeleteKeeps ==
  BrandingInv /\ DeleteManageSiteFontFace => BrandingInv'
<1> SUFFICES ASSUME BrandingInv, DeleteManageSiteFontFace PROVE BrandingInv'
  OBVIOUS
<1> PICK f \in DOMAIN site.fonts : \E i \in DOMAIN site.fonts[f].faces :
      /\ site' = [site EXCEPT !.fonts[f].faces = RemoveAt(@, i)]
      /\ answer' = "saved"
      /\ UNCHANGED storage
  BY DEF DeleteManageSiteFontFace
<1> PICK i \in DOMAIN site.fonts[f].faces :
      /\ site' = [site EXCEPT !.fonts[f].faces = RemoveAt(@, i)]
      /\ answer' = "saved"
      /\ UNCHANGED storage
  OBVIOUS
<1>1. SiteInv(site)
  BY DEF BrandingInv
<1>2. PICK q : q = site.fonts[f].faces
  OBVIOUS
<1>3. q \in Seq(Face)
  BY <1>1, <1>2 DEF SiteInv, FontsFit, Font
<1>4. i \in 1 .. Len(q)
  BY <1>2, <1>3
<1>5. PICK r : r = RemoveAt(q, i)
  OBVIOUS
<1>6. r \in Seq(Face)
  BY <1>3, <1>4, <1>5, RemoveAtFits
<1>7. site' = [site EXCEPT !.fonts[f].faces = r]
  BY <1>2, <1>5
<1>8. SiteInv([site EXCEPT !.fonts[f].faces = r])
  BY <1>1, <1>6, FacesKeepSite
<1> QED
  BY <1>7, <1>8 DEF BrandingInv

\* So does an import, dry or not.
LEMMA RunImportKeeps ==
  ASSUME BrandingInv, NEW b \in ThemeFiles, NEW merge \in BOOLEAN, NEW strict \in BOOLEAN,
         NEW dryRun \in BOOLEAN, RunImport(b, merge, strict, dryRun)
  PROVE  BrandingInv'
<1> DEFINE asked == IF dryRun THEN [b EXCEPT !.section = IF @ = "refuses" THEN "accepts" ELSE @] ELSE b
           done == ImportThemeBundleJson(site, asked, merge, strict)
<1>1. IF done.ok /\ ~dryRun THEN storage' = TRUE /\ site' = done.site ELSE UNCHANGED <<storage, site>>
  BY DEF RunImport
<1>2. answer' \in {"refused", "checked", "saved in part", "saved"}
  BY DEF RunImport
<1>3. SiteInv(site)
  BY DEF BrandingInv
<1>4. ThemeBundle(b)
  BY <1>3, ThemeFilesFit
<1>5. ~dryRun => SiteInv(done.site)
  <2> SUFFICES ASSUME ~dryRun PROVE SiteInv(done.site)
    OBVIOUS
  <2>1. asked = b
    OBVIOUS
  <2> HIDE DEF asked
  <2>2. SiteInv(ImportThemeBundleJson(site, b, merge, strict).site)
    BY <1>3, <1>4, ImportKeepsSite
  <2> QED
    BY <2>1, <2>2
<1> HIDE DEF done
<1>6. SiteInv(site')
  BY <1>1, <1>3, <1>5
<1>7. storage' \in BOOLEAN
  BY <1>1 DEF BrandingInv
<1> QED
  BY <1>2, <1>6, <1>7 DEF BrandingInv

\* So does every step.
LEMMA BrandingStep ==
  BrandingInv /\ [BrandingNext]_brandingVars => BrandingInv'
<1> SUFFICES ASSUME BrandingInv, [BrandingNext]_brandingVars PROVE BrandingInv'
  OBVIOUS
<1>1. CASE PutManageSiteTheme
  BY <1>1, ThemeEditKeeps
<1>2. CASE PutManageSiteFonts
  BY <1>2, InventoryKeeps
<1>3. CASE PostManageSiteFontFace
  BY <1>3, FaceUploadKeeps
<1>4. CASE DeleteManageSiteFontFace
  BY <1>4, FaceDeleteKeeps
<1>5. CASE PostManageSiteThemeBundleValidate
  BY <1>5, RunImportKeeps DEF PostManageSiteThemeBundleValidate
<1>6. CASE PostManageSiteThemeBundle
  BY <1>6, RunImportKeeps DEF PostManageSiteThemeBundle
<1>7. CASE GetManageSiteThemeBundle
  <2>1. site' = site /\ storage' = storage /\ answer' \in {"saved", "refused"}
    BY <1>7 DEF GetManageSiteThemeBundle
  <2> QED
    BY <2>1 DEF BrandingInv
<1>8. CASE UNCHANGED brandingVars
  <2>1. site' = site /\ storage' = storage /\ answer' = answer
    BY <1>8 DEF brandingVars
  <2> QED
    BY <2>1 DEF BrandingInv
<1> QED
  BY <1>1, <1>2, <1>3, <1>4, <1>5, <1>6, <1>7, <1>8 DEF BrandingNext

\* The look stays together.
LEMMA BrandingInvariant ==
  BrandingSpec => []BrandingInv
<1>1. BrandingInit => BrandingInv
  BY BlankFits DEF BrandingInit, BrandingInv
<1> QED
  BY <1>1, BrandingStep, PTL DEF BrandingSpec

\* The invariant is strong enough.
LEMMA IntactFromInv ==
  BrandingInv => InventoryIntact
<1> SUFFICES ASSUME BrandingInv PROVE InventoryIntact
  OBVIOUS
<1>1. SiteInv(site)
  BY DEF BrandingInv
<1>2. BrandingTypeOK
  <2>1. Listed(site.rows) /\ Once(site.rows) /\ ToSet(site.rows) = DOMAIN site.fonts
    BY <1>1 DEF SiteInv, RowsFit
  <2>2. Len(site.rows) = Cardinality(DOMAIN site.fonts)
    BY <2>1, OnceCounts
  <2>3. PICK A : A = site.assets
    OBVIOUS
  <2>4. A = [n \in DOMAIN A |-> "image"]
    BY <1>1, <2>3 DEF SiteInv
  <2>5. \A n \in DOMAIN A : A[n] = "image"
    BY ONLY <2>4
  <2>6. /\ storage \in BOOLEAN /\ answer \in {"none", "saved", "saved in part", "checked", "refused"}
        /\ \A k \in Slots : StoredValue(site.slots[k])
        /\ site.role \in Families \cup {""} /\ site.services \subseteq Services
    BY <1>1 DEF BrandingInv, SiteInv
  <2>7. DOMAIN site.fonts \subseteq Families /\ \A f \in DOMAIN site.fonts : site.fonts[f] \in Font
    BY <1>1 DEF SiteInv, FontsFit
  <2> QED
    BY <2>1, <2>2, <2>3, <2>5, <2>6, <2>7 DEF BrandingTypeOK
<1>3. EditKeepsFaces
  <2> SUFFICES ASSUME NEW inv \in Inventories, NEW f \in DOMAIN site.fonts \cap DOMAIN SaveInventory(site, inv).fonts
               PROVE  SaveInventory(site, inv).fonts[f].faces = site.fonts[f].faces
    BY DEF EditKeepsFaces
  <2>1. FontLists(inv)
    BY ONLY BrandingAssumption
  <2> QED
    BY ONLY <1>1, <2>1, SaveInventoryResult
<1>4. FontServicesResolve
  BY <1>1 DEF FontServicesResolve, SiteInv, Served
<1> QED
  BY <1>2, <1>3, <1>4 DEF InventoryIntact

\* Whatever the theme files and the inventories are, the rows of fonts, faces and
\* services fit together after every edit and import, no family names a service that
\* is gone, and saving the inventory costs no family its font files.
THEOREM RowsStayIntact ==
  BrandingSpec => []InventoryIntact
BY BrandingInvariant, IntactFromInv, PTL

\* A refused import and a dry run leave neither a setting nor a table behind.
THEOREM RefusalsChangeNothing ==
  BrandingSpec => RefusedChangesNothing
<1>1. [BrandingNext]_brandingVars =>
        [answer' \in {"refused", "checked"} => UNCHANGED <<storage, site>>]_brandingVars
  <2> SUFFICES ASSUME BrandingNext, answer' \in {"refused", "checked"} PROVE UNCHANGED <<storage, site>>
    OBVIOUS
  <2>1. CASE PutManageSiteTheme
    BY <2>1 DEF PutManageSiteTheme
  <2>2. CASE PutManageSiteFonts
    BY <2>2 DEF PutManageSiteFonts
  <2>3. CASE PostManageSiteFontFace
    BY <2>3 DEF PostManageSiteFontFace
  <2>4. CASE DeleteManageSiteFontFace
    BY <2>4 DEF DeleteManageSiteFontFace
  <2>5. ASSUME NEW b, NEW merge \in BOOLEAN, NEW strict \in BOOLEAN, NEW dryRun \in BOOLEAN,
               RunImport(b, merge, strict, dryRun)
        PROVE  UNCHANGED <<storage, site>>
    <3> DEFINE done == ImportThemeBundleJson(site, IF dryRun THEN [b EXCEPT !.section = IF @ = "refuses" THEN "accepts" ELSE @]
                                             ELSE b, merge, strict)
    <3>1. /\ IF done.ok /\ ~dryRun THEN storage' = TRUE /\ site' = done.site ELSE UNCHANGED <<storage, site>>
          /\ answer' = IF ~done.ok THEN "refused"
                       ELSE IF dryRun THEN "checked"
                       ELSE IF done.reported THEN "saved in part" ELSE "saved"
      BY <2>5 DEF RunImport
    <3> HIDE DEF done
    <3> QED
      BY <3>1
  <2>6. CASE PostManageSiteThemeBundleValidate
    BY <2>5, <2>6 DEF PostManageSiteThemeBundleValidate
  <2>7. CASE PostManageSiteThemeBundle
    BY <2>5, <2>7 DEF PostManageSiteThemeBundle
  <2>8. CASE GetManageSiteThemeBundle
    BY <2>8 DEF GetManageSiteThemeBundle
  <2> QED
    BY <2>1, <2>2, <2>3, <2>4, <2>6, <2>7, <2>8 DEF BrandingNext
<1> QED
  BY <1>1, PTL DEF BrandingSpec, RefusedChangesNothing

-------------------------------------------------------------------------------
(* What an import stores *)

AppliedSlot(s, p, merge, k) ==
  IF p.content[k] # Absent
  THEN (IF IsBundleAssetReference(p.content[k]) THEN <<"path", p.content[k][2]>> ELSE p.content[k])
  ELSE IF merge THEN s.slots[k] ELSE Unset
AppliedRole(s, p, merge) == IF p.role # "absent" THEN p.role ELSE IF merge THEN s.role ELSE ""
PicturesOf(p) == {n \in DOMAIN p.assets : FontFormatFromMagicBytes(p.assets[n]) = ""}
KeysOf(p) == {p.services[i].key : i \in DOMAIN p.services}
ImportedRows(p) == [i \in DOMAIN p.families |-> ImportedRow(p, p.families[i], i)]

\* What is stored, field by field.
Applied(t, s, p, merge) ==
  /\ t.slots = [k \in Slots |-> AppliedSlot(s, p, merge, k)]
  /\ t.role = AppliedRole(s, p, merge)
  /\ t.services = (IF merge THEN s.services \cup KeysOf(p) ELSE KeysOf(p))
  /\ t.fonts = StoreFamilies(s, p.families, merge, ImportedRows(p)).fonts
  /\ t.rows = StoreFamilies(s, p.families, merge, ImportedRows(p)).rows
  /\ t.assets = [n \in (IF merge THEN DOMAIN s.assets \cup PicturesOf(p) ELSE PicturesOf(p)) |-> "image"]

\* Storing a file sets each field once.
LEMMA AppliedFields ==
  ASSUME NEW s, SiteInv(s), NEW p, NEW merge \in BOOLEAN
  PROVE  Applied(ApplyBundle(s, p, merge), s, p, merge)
<1> DEFINE a == [n \in (IF merge THEN DOMAIN s.assets \cup PicturesOf(p) ELSE PicturesOf(p)) |-> "image"]
           c == [k \in Slots |-> AppliedSlot(s, p, merge, k)]
           r == AppliedRole(s, p, merge)
           u == [s EXCEPT !.assets = a, !.slots = c, !.role = r]
           row == ImportedRows(p)
           st == StoreFamilies(s, p.families, merge, row)
           new == ApplyBundle(s, p, merge)
<1>1. new = ApplyBundleFonts(u, p, merge)
  BY DEF ApplyBundle, AppliedSlot, AppliedRole, PicturesOf
<1>2. s = [slots |-> s.slots, role |-> s.role, services |-> s.services,
           fonts |-> s.fonts, rows |-> s.rows, assets |-> s.assets]
  BY DEF SiteInv
<1>3a. u = [s EXCEPT !.assets = a, !.slots = c, !.role = r]
  OBVIOUS
<1> HIDE DEF a, c, r, u
<1>3. u = [slots |-> c, role |-> r, services |-> s.services, fonts |-> s.fonts, rows |-> s.rows, assets |-> a]
  BY ONLY <1>2, <1>3a
<1>4. u.slots = c /\ u.role = r /\ u.services = s.services /\ u.fonts = s.fonts /\ u.rows = s.rows /\ u.assets = a
  BY ONLY <1>3
<1> DEFINE v == IF merge THEN s.services \cup KeysOf(p) ELSE KeysOf(p)
<1>5. new = [u EXCEPT !.services = IF merge THEN @ \cup KeysOf(p) ELSE KeysOf(p),
                      !.fonts = StoreFamilies(u, p.families, merge, row).fonts,
                      !.rows = StoreFamilies(u, p.families, merge, row).rows]
  BY <1>1 DEF ApplyBundleFonts, KeysOf, ImportedRows, ImportedRow
<1>6. StoreFamilies(u, p.families, merge, row) = st
  BY <1>4 DEF StoreFamilies
<1>7. new = [u EXCEPT !.services = v, !.fonts = st.fonts, !.rows = st.rows]
  BY <1>4, <1>5, <1>6
<1> HIDE DEF v, st, row, new
<1>8. new = [slots |-> c, role |-> r, services |-> v, fonts |-> st.fonts, rows |-> st.rows, assets |-> a]
  BY ONLY <1>3, <1>7
<1>9. /\ new.slots = c /\ new.role = r /\ new.services = v /\ new.fonts = st.fonts
      /\ new.rows = st.rows /\ new.assets = a
  BY ONLY <1>8
<1> QED
  BY <1>9 DEF new, a, c, r, v, st, row, Applied

\* The rows that an import adds or changes.
LEMMA AppliedFonts ==
  ASSUME NEW s, SiteInv(s), NEW p, Listed(p.families), NEW merge \in BOOLEAN
  PROVE  LET t == ApplyBundle(s, p, merge) IN
         /\ t.fonts = [f \in (IF merge THEN DOMAIN s.fonts ELSE {}) \cup NamesOf(p.families) |->
                         IF f \in NamesOf(p.families)
                         THEN ImportedRow(p, p.families[LastOf(p.families, f)], LastOf(p.families, f))
                         ELSE s.fonts[f]]
         /\ RowsFit(t)
<1> DEFINE list == p.families
           row == ImportedRows(p)
           st == StoreFamilies(s, list, merge, row)
           t == ApplyBundle(s, p, merge)
           D == (IF merge THEN DOMAIN s.fonts ELSE {}) \cup NamesOf(list)
<1>0. Applied(t, s, p, merge)
  BY AppliedFields
<1>1. t.fonts = st.fonts /\ t.rows = st.rows
  BY <1>0 DEF Applied
<1>2. RowsFit(s)
  BY DEF SiteInv
<1>3. /\ st.fonts = [f \in D |-> IF f \in NamesOf(list) THEN row[LastOf(list, f)] ELSE s.fonts[f]]
      /\ RowsFit(st)
  BY <1>2, FamiliesStored
<1>4. \A f \in NamesOf(list) : row[LastOf(list, f)] = ImportedRow(p, list[LastOf(list, f)], LastOf(list, f))
  BY LastOfIs DEF ImportedRows
<1> HIDE DEF row, st, t, D, list
<1>5. t.fonts = [f \in D |-> IF f \in NamesOf(list)
                              THEN ImportedRow(p, list[LastOf(list, f)], LastOf(list, f))
                              ELSE s.fonts[f]]
  BY <1>1, <1>3, <1>4
<1>6. RowsFit(t)
  BY <1>1, <1>3 DEF RowsFit
<1> QED
  BY <1>5, <1>6 DEF t, D, list

\* What an accepted import knows.
LEMMA ImportResult ==
  ASSUME NEW s, NEW b, ThemeBundle(b), NEW merge \in BOOLEAN, NEW strict \in BOOLEAN,
         ImportThemeBundleJson(s, b, merge, strict).ok
  PROVE  LET pruned == PruneUnusableBundleItems(ThemeBundleFromJson(b)) IN
         /\ ImportThemeBundleJson(s, b, merge, strict).site = ApplyBundle(s, pruned.bundle, merge)
         /\ Storable(pruned.bundle) /\ pruned.bundle.assets = b.assets
         /\ \A n \in DOMAIN b.assets : b.assets[n] \in Formats
         /\ ~ImportThemeBundleJson(s, b, merge, strict).reported => ~pruned.problems
<1> DEFINE done == ImportThemeBundleJson(s, b, merge, strict)
           pruned == PruneUnusableBundleItems(ThemeBundleFromJson(b))
<1>1. /\ done.site = ApplyBundle(s, pruned.bundle, merge) /\ ~FindFatalBundleProblem(b)
      /\ ~done.reported => ~pruned.problems
  BY DEF ImportThemeBundleJson
<1>2. Weighed(ThemeBundleFromJson(b)) /\ ThemeBundleFromJson(b).assets = b.assets
  BY ThemeBundleFromJsonFits
<1>3. Storable(pruned.bundle)
  BY <1>2, PrunedStorable
<1>4. pruned.bundle.assets = b.assets
  BY <1>2, PrunedFields DEF Weighed
<1>5. ~FindFatalBundleProblem(b) => \A n \in DOMAIN b.assets : b.assets[n] \in Formats
  BY DEF FindFatalBundleProblem, ThemeBundle, FontFormatFromMagicBytes, ImageTypeFromMagicBytes, Formats
<1> HIDE DEF done, pruned
<1>6. Storable(pruned.bundle) /\ pruned.bundle.assets = b.assets
  BY <1>3, <1>4
<1> QED
  BY <1>1, <1>5, <1>6 DEF done, pruned

\* A file without a problem is stored as it is.
Untouched(q, p) ==
  /\ p.content = q.content
  /\ Len(p.services) = Len(q.services) /\ \A i \in 1 .. Len(q.services) : p.services[i] = q.services[i]
  /\ Len(p.families) = Len(q.families)
  /\ \A i \in 1 .. Len(q.families) :
       /\ p.families[i] = q.families[i]
       /\ q.families[i].kind = "uploaded" => \A c \in ToSet(q.families[i].faces) : UsableFace(q, c)
  /\ \A i, j \in 1 .. Len(q.families) : q.families[i].family = q.families[j].family => i = j

\* Without a problem, pruning left the file alone.
LEMMA QuietPruning ==
  ASSUME NEW q, Weighed(q), ~PruneUnusableBundleItems(q).problems
  PROVE  Untouched(q, PruneUnusableBundleItems(q).bundle)
<1> DEFINE pruned == PruneUnusableBundleItems(q)
           p == pruned.bundle
           src == PruneSources(q.services)
           fam == PruneFamilies(q, src.seen)
           c == [k \in Slots |-> PruneSlot(q, k)]
           r == IF IsValidThemeTokenValue(q.role) THEN q.role ELSE "absent"
<1>1. p.content = c /\ p.services = src.kept /\ p.families = fam.kept
  BY PrunedFields DEF Weighed
<1>2. ~(src.problems \/ fam.problems \/ c # q.content \/ r # q.role)
  BY DEF PruneUnusableBundleItems
<1>3. q.services \in Seq(FontService) /\ Listed(q.families)
      /\ \A f \in ToSet(q.families) : BundleFamily(f) /\ \A a \in ToSet(f.faces) : a.weight \in Weights
  BY DEF Weighed, ThemeBundle, FontLists, FontService
<1>4. SourcesFit(q.services, Len(q.services), src)
  BY <1>3, PruneSourcesResult
<1>5. FamiliesFit(q, src.seen, Len(q.families), fam)
  BY <1>3, PruneFamiliesResult
<1> HIDE DEF src, fam, c, p
<1>6. src.problems = FALSE /\ fam.problems = FALSE /\ c = q.content
  BY <1>2, <1>4, <1>5 DEF SourcesFit, FamiliesFit
<1>7. p.content = q.content
  BY <1>1, <1>6
<1>8. Len(src.kept) = Len(q.services) /\ \A i \in 1 .. Len(q.services) : src.kept[i] = q.services[i]
  BY <1>4, <1>6 DEF SourcesFit
<1>9. /\ Len(fam.kept) = Len(q.families)
      /\ \A i \in 1 .. Len(q.families) :
           /\ fam.kept[i] = q.families[i]
           /\ q.families[i].kind = "uploaded" => \A a \in ToSet(q.families[i].faces) : UsableFace(q, a)
      /\ \A i, j \in 1 .. Len(q.families) : q.families[i].family = q.families[j].family => i = j
  BY <1>5, <1>6 DEF FamiliesFit
<1>10. Untouched(q, p)
  BY <1>1, <1>7, <1>8, <1>9 DEF Untouched
<1> QED
  BY <1>10 DEF p

\* Usable faces are all stored, as fonts.
LEMMA AllStored ==
  ASSUME NEW b, NEW p, p.assets = b.assets, NEW faces, Listed(faces), \A c \in ToSet(faces) : UsableFace(b, c)
  PROVE  /\ Listed(StoredFaces(p, faces)) /\ Len(StoredFaces(p, faces)) = Len(faces)
         /\ \A i \in 1 .. Len(faces) : StoredFaces(p, faces)[i].bytes = "font"
<1> DEFINE n == Len(faces)
           P == {j \in DOMAIN faces : faces[j].file \in DOMAIN p.assets}
           present == ChosenAt(faces, P)
           st == StoredFaces(p, faces)
<1>1. n \in Nat /\ DOMAIN faces = 1 .. n
  BY ListedDomain
<1>2. \A j \in DOMAIN faces : faces[j].file \in DOMAIN p.assets /\ p.assets[faces[j].file] = "font"
  BY DEF ToSet, UsableFace
<1>3. P = 1 .. n
  BY <1>1, <1>2
<1>4. st = [j \in DOMAIN present |-> [weight |-> present[j].weight, bytes |-> p.assets[present[j].file]]]
  BY DEF StoredFaces
<1> HIDE DEF P, st, n, present
<1>5. Cardinality(P) = n
  <2>1. Cardinality(1 .. n) = n
    BY <1>1, FS_Interval
  <2> QED
    BY <1>3, <2>1
<1>6. P \in SUBSET (1 .. n)
  BY <1>3
<1>7a. DOMAIN ChosenAt(faces, P) = 1 .. Cardinality(P)
  BY <1>1, <1>6, ChosenKeeps
<1>7. DOMAIN present = 1 .. n
  BY <1>5, <1>7a DEF present
<1>8. \A j \in DOMAIN present : \E i \in P : present[j] = faces[i]
  <2>1. ComesFrom(ChosenAt(faces, P), faces, P)
    BY <1>1, <1>6, ChosenMembers
  <2> QED
    BY <2>1 DEF present, ComesFrom
<1>9. \A j \in 1 .. n : p.assets[present[j].file] = "font"
  BY <1>1, <1>2, <1>3, <1>7, <1>8
<1>10. st = [j \in 1 .. n |-> st[j]] /\ \A j \in 1 .. n : st[j].bytes = "font"
  BY <1>4, <1>7, <1>9
<1>11. Listed(st) /\ Len(st) = n
  BY <1>1, <1>10, MakeListed
<1> QED
  BY <1>10, <1>11 DEF st, n

\* A visitor is sent every face of a family whose files are all fonts.
LEMMA AllServed ==
  ASSUME NEW s, NEW f, s.fonts[f].faces \in Seq(Face),
         \A i \in 1 .. Len(s.fonts[f].faces) : s.fonts[f].faces[i].bytes = "font"
  PROVE  Len(GetSiteFontFaces(s, f)) = Len(s.fonts[f].faces)
<1> DEFINE given == s.fonts[f].faces
           n == Len(given)
           faces == FacesForFont(given)
           P == {i \in DOMAIN faces : faces[i].bytes = "font"}
<1>0. n \in Nat /\ DOMAIN given = 1 .. n /\ given \in Seq(Face) /\ \A i \in 1 .. n : given[i].bytes = "font"
  OBVIOUS
<1>1. GetSiteFontFaces(s, f) = ChosenAt(faces, P)
  BY DEF GetSiteFontFaces
<1> HIDE DEF given, n
<1>2. Listed(faces) /\ Len(faces) = n /\ ComesFrom(faces, given, DOMAIN given)
  BY <1>0, FacesInOrder DEF n
<1> HIDE DEF faces
<1>3. DOMAIN faces = 1 .. n
  BY <1>2, ListedDomain
<1>4. \A i \in 1 .. n : faces[i].bytes = "font"
  BY <1>0, <1>2, <1>3 DEF ComesFrom
<1>5. P = 1 .. n
  BY <1>3, <1>4
<1> HIDE DEF P
<1>6. Cardinality(P) = n
  <2>1. Cardinality(1 .. n) = n
    BY <1>0, FS_Interval
  <2> QED
    BY <1>5, <2>1
<1>7. P \in SUBSET (1 .. n)
  BY <1>5
<1>8. Len(ChosenAt(faces, P)) = n
  BY <1>0, <1>6, <1>7, ChosenKeeps
<1> QED
  BY <1>1, <1>8 DEF n, given

\* A family of a service that is served has its line in the service's style sheet.
LEMMA SheetOf ==
  ASSUME NEW s, SiteInv(s), NEW f \in DOMAIN s.fonts,
         s.fonts[f].kind = "cdn", s.fonts[f].service # NoService
  PROVE  s.fonts[f].service \in DOMAIN SiteInfo(s).sheets
<1> DEFINE all == AllFonts(s)
           P == {i \in DOMAIN all : s.fonts[all[i]].kind = "cdn" /\ s.fonts[all[i]].service # NoService}
           V == {s.fonts[g].service : g \in ToSet(CdnFonts(s))}
<1>1. \A g \in DOMAIN s.fonts : s.fonts[g].ordinal \in Nat
  BY DEF SiteInv, FontsFit, Font
<1>2. Listed(all) /\ ToSet(all) = DOMAIN s.fonts
  BY <1>1, FontsInOrder DEF SiteInv
<1>3. CdnFonts(s) = ChosenAt(all, P)
  BY DEF CdnFonts
<1>4. DOMAIN SiteInfo(s).sheets = V
  BY DEF SiteInfo
<1> HIDE DEF all
<1>5. Len(all) \in Nat /\ DOMAIN all = 1 .. Len(all)
  BY <1>2, ListedDomain
<1>6. PICK i \in DOMAIN all : all[i] = f
  BY <1>2 DEF ToSet
<1>7. i \in P /\ P \in SUBSET (1 .. Len(all))
  BY <1>5, <1>6
<1> HIDE DEF P
<1>8. all[i] \in ToSet(ChosenAt(all, P))
  BY <1>5, <1>7, ChosenMembers
<1>9. f \in ToSet(CdnFonts(s))
  BY <1>3, <1>6, <1>8
<1> QED
  BY <1>4, <1>9

\* An import that reports nothing stored all of the file.
LEMMA QuietImport ==
  ASSUME BrandingInv, NEW b \in ThemeFiles, NEW merge \in BOOLEAN,
         ImportThemeBundleJson(site, b, merge, FALSE).ok,
         ~ImportThemeBundleJson(site, b, merge, FALSE).reported
  PROVE  LET done == ImportThemeBundleJson(site, b, merge, FALSE)
             info == SiteInfo(done.site)
         IN /\ \A k \in Slots : b.content[k][1] = "external" => info.content[k] = b.content[k]
            /\ \A i \in DOMAIN b.services : b.services[i].key \in done.site.services
            /\ \A i \in DOMAIN b.families :
                 LET f == b.families[i] IN
                 /\ f.family \in DOMAIN info.faces
                 /\ f.kind = "cdn" => f.service \in DOMAIN info.sheets
                 /\ f.kind = "uploaded" => Len(info.faces[f.family]) = Len(f.faces)
<1> DEFINE done == ImportThemeBundleJson(site, b, merge, FALSE)
           q == ThemeBundleFromJson(b)
           pruned == PruneUnusableBundleItems(q)
           p == pruned.bundle
           t == ApplyBundle(site, p, merge)
           info == SiteInfo(done.site)
<1>1. SiteInv(site) /\ ThemeBundle(b)
  BY ThemeFilesFit DEF BrandingInv
<1>2. /\ done.site = t /\ Storable(p) /\ p.assets = b.assets /\ ~pruned.problems
      /\ \A n \in DOMAIN b.assets : b.assets[n] \in Formats
  BY <1>1, ImportResult
<1>3. /\ Weighed(q) /\ q.assets = b.assets /\ q.content = b.content /\ q.services = b.services
      /\ Len(q.families) = Len(b.families)
      /\ \A i \in 1 .. Len(b.families) : q.families[i] = WeighedFamily(b.families[i])
  BY <1>1, ThemeBundleFromJsonFits
<1>4. Untouched(q, p)
  BY <1>2, <1>3, QuietPruning
<1>5. Applied(t, site, p, merge)
  BY <1>1, AppliedFields
<1>6. SiteInv(t)
  BY <1>1, <1>2, ApplyKeepsSite
<1> HIDE DEF q, pruned, p, t, done
<1>7. info.content = t.slots /\ DOMAIN info.faces = DOMAIN t.fonts
      /\ \A f \in DOMAIN t.fonts : info.faces[f] = GetSiteFontFaces(t, f)
  BY <1>2 DEF SiteInfo
<1>8. DOMAIN info.sheets = DOMAIN SiteInfo(t).sheets
  BY <1>2
<1> HIDE DEF info
<1>9. ASSUME NEW k \in Slots, b.content[k][1] = "external" PROVE info.content[k] = b.content[k]
  <2>1. p.content[k] = b.content[k]
    BY <1>3, <1>4 DEF Untouched
  <2>2. p.content[k] # Absent /\ ~IsBundleAssetReference(p.content[k])
    BY <1>9, <2>1 DEF Absent, IsBundleAssetReference
  <2>3. t.slots[k] = AppliedSlot(site, p, merge, k)
    BY <1>5 DEF Applied
  <2> QED
    BY <1>7, <2>1, <2>2, <2>3 DEF AppliedSlot
<1>10. \A i \in DOMAIN b.services : b.services[i].key \in KeysOf(p)
  <2>1. b.services \in Seq(FontService) /\ p.services \in Seq(FontService)
    BY <1>1, <1>2 DEF ThemeBundle, FontLists, FontService, Storable
  <2>2. \A i \in 1 .. Len(b.services) : i \in DOMAIN p.services /\ p.services[i] = b.services[i]
    BY <1>3, <1>4, <2>1 DEF Untouched
  <2> QED
    BY <2>1, <2>2 DEF KeysOf
<1>11. KeysOf(p) \subseteq t.services
  BY <1>5 DEF Applied
<1>12. ASSUME NEW i \in DOMAIN b.families
       PROVE  LET f == b.families[i] IN
              /\ f.family \in DOMAIN info.faces
              /\ f.kind = "cdn" => f.service \in DOMAIN info.sheets
              /\ f.kind = "uploaded" => Len(info.faces[f.family]) = Len(f.faces)
  <2> DEFINE g == b.families[i]
  <2>1. PICK f : f = q.families[i]
    OBVIOUS
  <2>2. Listed(b.families) /\ BundleFamily(g)
    BY <1>1, NamesFit DEF ThemeBundle
  <2>3. i \in 1 .. Len(b.families) /\ i \in 1 .. Len(q.families)
    BY <1>3, <2>2, ListedDomain
  <2>4. f.family = g.family /\ f.kind = g.kind /\ f.service = g.service /\ Len(f.faces) = Len(g.faces)
    BY <1>3, <2>1, <2>2, <2>3, WeighedFamilyFits
  <2>5. p.families[i] = f /\ (f.kind = "uploaded" => \A c \in ToSet(f.faces) : UsableFace(q, c))
    BY <1>4, <2>1, <2>3 DEF Untouched
  <2>6. Listed(p.families) /\ i \in DOMAIN p.families
    <3>1. Listed(p.families)
      BY ONLY <1>2 DEF Storable
    <3>2. i \in 1 .. Len(p.families)
      BY ONLY <1>4, <2>3 DEF Untouched
    <3> QED
      BY ONLY <3>1, <3>2, ListedDomain
  <2>7. f.family \in NamesOf(p.families)
    BY <2>5, <2>6 DEF NamesOf
  <2>8. LastOf(p.families, f.family) = i
    <3>1. PICK j : j = LastOf(p.families, f.family)
      OBVIOUS
    <3>2. j \in DOMAIN p.families /\ p.families[j].family = f.family
      BY <2>6, <2>7, <3>1, LastOfIs
    <3>3. j \in 1 .. Len(q.families)
      BY <1>4, <2>6, <3>2, ListedDomain DEF Untouched
    <3>4. q.families[j].family = q.families[i].family
      BY <1>4, <2>1, <3>2, <3>3 DEF Untouched
    <3> QED
      BY <1>4, <2>3, <3>1, <3>3, <3>4 DEF Untouched
  <2>9. f.family \in DOMAIN t.fonts /\ t.fonts[f.family] = ImportedRow(p, f, i)
    <3>1. PICK D, F : /\ t.fonts = [a \in D |-> F[a]] /\ f.family \in D /\ F[f.family] = ImportedRow(p, f, i)
      <4> DEFINE D == (IF merge THEN DOMAIN site.fonts ELSE {}) \cup NamesOf(p.families)
                 F == [a \in D |-> IF a \in NamesOf(p.families)
                                   THEN ImportedRow(p, p.families[LastOf(p.families, a)], LastOf(p.families, a))
                                   ELSE site.fonts[a]]
      <4>1. t.fonts = F
        BY <1>1, <2>6, AppliedFonts DEF t
      <4>2. f.family \in D /\ F[f.family] = ImportedRow(p, f, i)
        BY <2>5, <2>7, <2>8
      <4>3. F = [a \in D |-> F[a]]
        OBVIOUS
      <4> HIDE DEF F, D
      <4> QED
        BY <4>1, <4>2, <4>3
    <3> QED
      BY <3>1
  <2>10. PICK row : row = t.fonts[f.family]
    OBVIOUS
  <2>11. /\ row.kind = f.kind /\ row.faces = StoredFaces(p, f.faces)
         /\ row.service = IF f.kind = "cdn" THEN f.service ELSE NoService
    BY <2>9, <2>10 DEF ImportedRow
  <2> HIDE DEF g
  <2>12. g.family \in DOMAIN info.faces
    BY <1>7, <2>4, <2>9
  <2>13. g.kind = "cdn" => g.service \in DOMAIN info.sheets
    <3> SUFFICES ASSUME g.kind = "cdn" PROVE g.service \in DOMAIN info.sheets
      OBVIOUS
    <3>1. Keepable(f, KeysOf(p))
      BY <1>2, <2>5, <2>6 DEF Storable, KeysOf
    <3>2. f.service \in KeysOf(p)
      BY <2>4, <3>1 DEF Keepable
    <3>3. KeysOf(p) \subseteq Services
      BY <1>2, KeysFit DEF Storable, KeysOf, FontService
    <3>4. f.service # NoService
      BY <3>2, <3>3, BrandingAssumption
    <3>5. t.fonts[f.family].kind = "cdn" /\ t.fonts[f.family].service = f.service
      BY <2>4, <2>10, <2>11
    <3>6. t.fonts[f.family].service \in DOMAIN SiteInfo(t).sheets
      BY <1>6, <2>9, <3>4, <3>5, SheetOf
    <3> QED
      BY <1>8, <2>4, <3>5, <3>6
  <2>14. g.kind = "uploaded" => Len(info.faces[g.family]) = Len(g.faces)
    <3> SUFFICES ASSUME g.kind = "uploaded" PROVE Len(info.faces[g.family]) = Len(g.faces)
      OBVIOUS
    <3>1. \A c \in ToSet(f.faces) : UsableFace(q, c)
      BY <2>4, <2>5
    <3>2. Listed(f.faces)
      BY <1>2, <2>5, <2>6 DEF Storable, Keepable, BundleFamily
    <3>3. p.assets = q.assets
      BY <1>2, <1>3
    <3>4. /\ Len(StoredFaces(p, f.faces)) = Len(f.faces)
          /\ \A j \in 1 .. Len(f.faces) : StoredFaces(p, f.faces)[j].bytes = "font"
      BY <3>1, <3>2, <3>3, AllStored
    <3>5. t.fonts[f.family].faces \in Seq(Face)
      BY <1>6, <2>9 DEF SiteInv, FontsFit, Font
    <3>6. t.fonts[f.family].faces = StoredFaces(p, f.faces)
      BY <2>10, <2>11
    <3>7. Len(GetSiteFontFaces(t, f.family)) = Len(f.faces)
      <4>1. \A j \in 1 .. Len(t.fonts[f.family].faces) : t.fonts[f.family].faces[j].bytes = "font"
        BY <3>4, <3>6
      <4>2. Len(GetSiteFontFaces(t, f.family)) = Len(t.fonts[f.family].faces)
        BY <3>5, <4>1, AllServed
      <4> QED
        BY <3>4, <3>6, <4>2
    <3> QED
      BY <1>7, <2>4, <2>9, <3>7
  <2> QED
    BY <2>12, <2>13, <2>14 DEF g
<1>13. \A i \in DOMAIN b.services : b.services[i].key \in done.site.services
  BY <1>2, <1>10, <1>11
<1> QED
  BY <1>9, <1>12, <1>13 DEF info, done

\* NeverSilent follows from the invariant.
LEMMA NothingSilent ==
  BrandingInv => NeverSilent
BY QuietImport DEF NeverSilent

-------------------------------------------------------------------------------
(* Replacing forgets *)

\* Two looks that differ at most in the ids of their rows.
SameLook(s, t) ==
  /\ s.slots = t.slots /\ s.role = t.role /\ s.services = t.services
  /\ s.fonts = t.fonts /\ s.assets = t.assets

\* No two families have one place in the order.
OwnOrder(s) == \A f, g \in DOMAIN s.fonts : s.fonts[f].ordinal = s.fonts[g].ordinal => f = g

\* The order then does not depend on the ids.
LEMMA SameOrder ==
  ASSUME NEW s, NEW t, SameLook(s, t), OwnOrder(s), RowsFit(s), RowsFit(t)
  PROVE  AllFonts(s) = AllFonts(t)
<1> DEFINE D == DOMAIN s.fonts
           E == {p \in D \X D : Earlier(s, p[1], p[2])}
           F == {p \in D \X D : Earlier(t, p[1], p[2])}
<1>1. ASSUME NEW u, u.fonts = s.fonts, RowsFit(u), NEW f \in D, NEW g \in D
      PROVE  Earlier(u, f, g) <=> u.fonts[f].ordinal < u.fonts[g].ordinal
  <2>1. ASSUME u.fonts[f].ordinal = u.fonts[g].ordinal, NEW i \in DOMAIN u.rows, NEW j \in DOMAIN u.rows,
               i < j, u.rows[i] = f, u.rows[j] = g
        PROVE  FALSE
    <3>1. f = g
      BY <1>1, <2>1 DEF OwnOrder
    <3>2. i \in 1 .. Len(u.rows) /\ j \in 1 .. Len(u.rows) /\ Len(u.rows) \in Nat
      BY <1>1, ListedDomain DEF RowsFit
    <3>3. i = j
      BY <1>1, <2>1, <3>1, <3>2 DEF RowsFit, Once
    <3> QED
      BY <2>1, <3>2, <3>3
  <2> QED
    BY <2>1 DEF Earlier
<1>2. \A f, g \in D : Earlier(s, f, g) <=> Earlier(t, f, g)
  BY <1>1 DEF SameLook
<1>3. E = F
  BY <1>2
<1>4. AllFonts(s) = Sorted(D, E)
  BY DEF AllFonts
<1>5. AllFonts(t) = Sorted(D, F)
  BY DEF AllFonts, SameLook
<1> QED
  BY <1>3, <1>4, <1>5

\* Visitors and the download see only that.
LEMMA SameSeen ==
  ASSUME NEW s, NEW t, SameLook(s, t), AllFonts(s) = AllFonts(t)
  PROVE  SiteInfo(s) = SiteInfo(t) /\ ExportThemeBundle(s) = ExportThemeBundle(t)
<1>1. CdnFonts(s) = CdnFonts(t)
  BY DEF CdnFonts, SameLook
<1>2. \A v : BuildFontStylesheetUrl(s, v) = BuildFontStylesheetUrl(t, v)
  BY <1>1 DEF BuildFontStylesheetUrl, SameLook
<1>3. \A v : GetSiteAsset(s, v) = GetSiteAsset(t, v)
  BY DEF GetSiteAsset, SameLook
<1>4. \A f : GetSiteFontFaces(s, f) = GetSiteFontFaces(t, f)
  BY DEF GetSiteFontFaces, SameLook
<1>5. LookupFontStack(s, s.role) = LookupFontStack(t, t.role)
  BY DEF LookupFontStack, SameLook
<1>6. SiteInfo(s) = SiteInfo(t)
  <2>1. [k \in Slots |-> GetSiteAsset(s, s.slots[k])] = [k \in Slots |-> GetSiteAsset(t, t.slots[k])]
    BY <1>3 DEF SameLook
  <2>2. [v \in {s.fonts[f].service : f \in ToSet(CdnFonts(s))} |-> BuildFontStylesheetUrl(s, v)]
        = [v \in {t.fonts[f].service : f \in ToSet(CdnFonts(t))} |-> BuildFontStylesheetUrl(t, v)]
    BY <1>1, <1>2 DEF SameLook
  <2>3. [f \in DOMAIN s.fonts |-> GetSiteFontFaces(s, f)] = [f \in DOMAIN t.fonts |-> GetSiteFontFaces(t, f)]
    BY <1>4 DEF SameLook
  <2>4. s.slots = t.slots
    BY DEF SameLook
  <2> QED
    BY <1>5, <2>1, <2>2, <2>3, <2>4 DEF SiteInfo
<1>7. ExportPictures(s) = ExportPictures(t)
  BY DEF ExportPictures, SameLook
<1>8. \A v : ExportSlot(s, v) = ExportSlot(t, v)
  BY DEF ExportSlot, SameLook
<1>9. ExportThemeBundle(s) = ExportThemeBundle(t)
  <2>1. ExportFamilies(s.fonts, AllFonts(s), ExportPictures(s)) = ExportFamilies(t.fonts, AllFonts(t), ExportPictures(t))
    BY <1>7 DEF SameLook
  <2>2. [k \in Slots |-> ExportSlot(s, s.slots[k])] = [k \in Slots |-> ExportSlot(t, t.slots[k])]
    BY <1>8 DEF SameLook
  <2>3. s.role = t.role /\ s.services = t.services
    BY DEF SameLook
  <2> QED
    BY <2>1, <2>2, <2>3 DEF ExportThemeBundle
<1> QED
  BY <1>6, <1>9

\* The row of each family in the file, numbered as the file lists it last.
ReplacedRows(p) ==
  [f \in NamesOf(p.families) |-> ImportedRow(p, p.families[LastOf(p.families, f)], LastOf(p.families, f))]

\* Replacing puts each family where the file lists it last.
LEMMA ReplacedLook ==
  ASSUME NEW s, SiteInv(s), NEW p, Storable(p)
  PROVE  /\ OwnOrder(ApplyBundle(s, p, FALSE)) /\ RowsFit(ApplyBundle(s, p, FALSE))
         /\ ApplyBundle(s, p, FALSE).fonts = ReplacedRows(p)
<1> DEFINE t == ApplyBundle(s, p, FALSE)
           list == p.families
           N == NamesOf(list)
           F == [f \in N |-> ImportedRow(p, list[LastOf(list, f)], LastOf(list, f))]
<1>1. PICK merge \in BOOLEAN : merge = FALSE
  OBVIOUS
<1>2. Listed(list)
  BY DEF Storable
<1> DEFINE G == [f \in (IF merge THEN DOMAIN s.fonts ELSE {}) \cup N |->
                   IF f \in N THEN ImportedRow(p, list[LastOf(list, f)], LastOf(list, f)) ELSE s.fonts[f]]
<1>2a. ApplyBundle(s, p, merge).fonts = G
  BY <1>2, AppliedFonts
<1>2b. RowsFit(ApplyBundle(s, p, merge))
  BY <1>2, AppliedFonts
<1>2c. G = F
  BY <1>1
<1> HIDE DEF G, F
<1>3. t.fonts = F /\ RowsFit(t)
  BY <1>1, <1>2a, <1>2b, <1>2c
<1> USE DEF F
<1>5. ASSUME NEW f \in N
      PROVE  LastOf(list, f) \in Nat /\ list[LastOf(list, f)].family = f
  BY <1>2, LastOfIs, ListedDomain
<1>6. \A f \in N : F[f].ordinal = 10 * LastOf(list, f)
  BY DEF ImportedRow
<1>7. DOMAIN F = N
  OBVIOUS
<1> HIDE DEF t, F, N, list
<1>8. OwnOrder(t)
  <2> SUFFICES ASSUME NEW f \in N, NEW g \in N, F[f].ordinal = F[g].ordinal PROVE f = g
    BY <1>3, <1>7 DEF OwnOrder
  <2>1. LastOf(list, f) = LastOf(list, g)
    BY <1>5, <1>6
  <2> QED
    BY <1>5, <2>1
<1> QED
  BY <1>3, <1>8 DEF t, F, N, list, ReplacedRows

\* What a replaced look shows does not depend on the look before.
LEMMA NothingShowsThrough ==
  ASSUME NEW s, SiteInv(s), NEW t, SiteInv(t), NEW p, Storable(p)
  PROVE  /\ SiteInfo(ApplyBundle(s, p, FALSE)) = SiteInfo(ApplyBundle(t, p, FALSE))
         /\ ExportThemeBundle(ApplyBundle(s, p, FALSE)) = ExportThemeBundle(ApplyBundle(t, p, FALSE))
<1> DEFINE a == ApplyBundle(s, p, FALSE)
           b == ApplyBundle(t, p, FALSE)
<1>1. OwnOrder(a) /\ RowsFit(a) /\ RowsFit(b) /\ a.fonts = b.fonts
  BY ReplacedLook
<1>2. Applied(a, s, p, FALSE) /\ Applied(b, t, p, FALSE)
  BY AppliedFields
<1> HIDE DEF a, b
<1>2a. a.slots = [k \in Slots |-> AppliedSlot(s, p, FALSE, k)] /\ b.slots = [k \in Slots |-> AppliedSlot(t, p, FALSE, k)]
  BY <1>2, Zenon DEF Applied
<1>3. a.slots = b.slots
  <2>1. \A k \in Slots : AppliedSlot(s, p, FALSE, k) = AppliedSlot(t, p, FALSE, k)
    BY DEF AppliedSlot
  <2>2. [k \in Slots |-> AppliedSlot(s, p, FALSE, k)] = [k \in Slots |-> AppliedSlot(t, p, FALSE, k)]
    BY <2>1
  <2> QED
    BY <1>2a, <2>2, Zenon
<1>4. a.role = b.role
  BY <1>2 DEF Applied, AppliedRole
<1>5. a.services = b.services /\ a.assets = b.assets
  BY <1>2 DEF Applied
<1>6. SameLook(a, b)
  BY <1>1, <1>3, <1>4, <1>5 DEF SameLook
<1>7. AllFonts(a) = AllFonts(b)
  BY <1>1, <1>6, SameOrder
<1>8. SiteInfo(a) = SiteInfo(b) /\ ExportThemeBundle(a) = ExportThemeBundle(b)
  BY <1>6, <1>7, SameSeen
<1> QED
  BY <1>8 DEF a, b

\* ReplaceForgetsThePrevious follows from the invariant.
LEMMA ReplacingForgets ==
  BrandingInv => ReplaceForgetsThePrevious
<1> SUFFICES ASSUME BrandingInv, NEW b \in ThemeFiles
             PROVE  LET here == ImportThemeBundleJson(site, b, FALSE, FALSE)
                        fresh == ImportThemeBundleJson(Blank, b, FALSE, FALSE)
                    IN /\ here.ok = fresh.ok
                       /\ here.ok => /\ SiteInfo(here.site) = SiteInfo(fresh.site)
                                     /\ ExportThemeBundle(here.site) = ExportThemeBundle(fresh.site)
  BY DEF ReplaceForgetsThePrevious
<1> DEFINE here == ImportThemeBundleJson(site, b, FALSE, FALSE)
           fresh == ImportThemeBundleJson(Blank, b, FALSE, FALSE)
           p == PruneUnusableBundleItems(ThemeBundleFromJson(b)).bundle
<1>1. here.ok = fresh.ok
  BY DEF ImportThemeBundleJson
<1>2. SiteInv(site) /\ SiteInv(Blank) /\ ThemeBundle(b)
  BY BlankFits, ThemeFilesFit DEF BrandingInv
<1>3. here.ok => here.site = ApplyBundle(site, p, FALSE) /\ Storable(p)
  BY <1>2, ImportResult
<1>4. fresh.ok => fresh.site = ApplyBundle(Blank, p, FALSE)
  BY <1>2, ImportResult
<1> HIDE DEF here, fresh, p
<1>5. Storable(p) =>
        /\ SiteInfo(ApplyBundle(site, p, FALSE)) = SiteInfo(ApplyBundle(Blank, p, FALSE))
        /\ ExportThemeBundle(ApplyBundle(site, p, FALSE)) = ExportThemeBundle(ApplyBundle(Blank, p, FALSE))
  BY <1>2, NothingShowsThrough
<1> QED
  BY <1>1, <1>3, <1>4, <1>5 DEF here, fresh

\* Replacing means the same on any studio, and an import that reports nothing stored
\* every setting, service, family and uploaded face that the file lists, for every set
\* of theme files and whatever was stored before.
THEOREM ImportsStayFaithful ==
  BrandingSpec => []ImportIsFaithful
<1>1. BrandingInv => ImportIsFaithful
  BY NothingSilent, ReplacingForgets DEF ImportIsFaithful
<1> QED
  BY <1>1, BrandingInvariant, PTL

-------------------------------------------------------------------------------
(* The order is the only one *)

\* What enumerates a set in its order is what Sorted chooses.
LEMMA SortedIs ==
  ASSUME NEW S, NEW E, StrictOrder(S, E), NEW n \in Nat, NEW q \in [1 .. n -> S],
         \A i, j \in 1 .. n : i < j => <<q[i], q[j]>> \in E,
         \A x \in S : \E i \in 1 .. n : q[i] = x
  PROVE  Cardinality(S) = n /\ Sorted(S, E) = q
<1>1. ASSUME NEW i \in 1 .. n, NEW j \in 1 .. n, q[i] = q[j] PROVE i = j
  <2>1. i < j \/ j < i \/ i = j
    OBVIOUS
  <2>2. q[i] \in S /\ <<q[i], q[i]>> \notin E
    BY DEF StrictOrder
  <2> QED
    BY <1>1, <2>1, <2>2
<1>2. q = [i \in 1 .. n |-> q[i]] /\ DOMAIN q = 1 .. n
  OBVIOUS
<1>3. Listed(q) /\ Len(q) = n
  BY <1>2, MakeListed
<1>4. Once(q)
  BY <1>1, <1>3 DEF Once
<1>5. ToSet(q) = S
  BY <1>2 DEF ToSet
<1>6. IsFiniteSet(S) /\ Cardinality(S) = n
  BY <1>3, <1>4, <1>5, OnceCounts
<1> DEFINE c == Sorted(S, E)
<1>7. /\ c \in [1 .. n -> S]
      /\ \A i, j \in 1 .. n : i < j => <<c[i], c[j]>> \in E
      /\ \A i, j \in 1 .. n : c[i] = c[j] => i = j
      /\ \A x \in S : \E i \in 1 .. n : c[i] = x
  <2>1. Enumerates(Sorted(S, E), Cardinality(S), S, E)
    BY ONLY <1>6, StrictOrder(S, E), SortedEnumerates
  <2>2. Enumerates(c, n, S, E)
    BY ONLY <1>6, <2>1 DEF c
  <2> HIDE DEF c
  <2> QED
    BY ONLY <2>2 DEF Enumerates
<1> HIDE DEF c
<1>8. ASSUME NEW i \in 1 .. n, c[i] # q[i], \A j \in 1 .. n : c[j] # q[j] => i <= j PROVE FALSE
  <2>1. PICK k \in 1 .. n : c[k] = q[i]
    BY <1>7
  <2>2. PICK m \in 1 .. n : q[m] = c[i]
    BY <1>7
  <2>3. i < k
    <3>1. k # i
      BY <1>8, <2>1
    <3>2. ASSUME k < i PROVE FALSE
      <4>1. c[k] = q[k]
        BY <1>8, <3>2
      <4> QED
        BY <1>1, <2>1, <3>1, <4>1
    <3> QED
      BY <3>1, <3>2
  <2>4. i < m
    <3>1. m # i
      BY <1>8, <2>2
    <3>2. ASSUME m < i PROVE FALSE
      <4>1. c[m] = q[m]
        BY <1>8, <3>2
      <4> QED
        BY <1>7, <2>2, <3>1, <4>1
    <3> QED
      BY <3>1, <3>2
  <2>5. <<c[i], q[i]>> \in E /\ <<q[i], c[i]>> \in E
    BY <1>7, <2>1, <2>2, <2>3, <2>4
  <2>6. c[i] \in S /\ q[i] \in S
    BY <1>7
  <2> QED
    BY <2>5, <2>6 DEF StrictOrder
<1>9. \A i \in 1 .. n : c[i] = q[i]
  <2> DEFINE T == {i \in 1 .. n : c[i] # q[i]}
  <2> SUFFICES ASSUME T # {} PROVE FALSE
    OBVIOUS
  <2>1. PICK i \in T : \A j \in T : i <= j
    <3>1. T \in SUBSET Nat
      OBVIOUS
    <3> HIDE DEF T
    <3> QED
      BY <3>1, LeastNumber
  <2> QED
    BY <1>8, <2>1
<1>10. c = q
  BY <1>7, <1>9
<1> QED
  BY <1>6, <1>10 DEF c

\* All positions, in order, are the sequence itself.
LEMMA AllChosen ==
  ASSUME NEW q, Listed(q)
  PROVE  ChosenAt(q, DOMAIN q) = q
<1> DEFINE n == Len(q)
           P == DOMAIN q
           E == Ascending(P)
           id == [i \in 1 .. n |-> i]
<1>1. n \in Nat /\ P = 1 .. n /\ q = [i \in 1 .. n |-> q[i]]
  BY ListedDomain
<1> HIDE DEF n
<1>2. \A i, j \in P : <<i, j>> \in E <=> i < j
  BY DEF Ascending
<1> HIDE DEF P, E
<1>3. StrictOrder(P, E)
  BY <1>1, <1>2 DEF StrictOrder
<1>4. /\ id \in [1 .. n -> P]
      /\ \A i, j \in 1 .. n : i < j => <<id[i], id[j]>> \in E
      /\ \A x \in P : \E i \in 1 .. n : id[i] = x
  BY <1>1, <1>2
<1>5. \A i \in 1 .. n : id[i] = i
  OBVIOUS
<1> HIDE DEF id
<1>6. Cardinality(P) = n /\ Sorted(P, E) = id
  <2>1. PICK S, F, m, f : S = P /\ F = E /\ m = n /\ f = id
    OBVIOUS
  <2>2. /\ StrictOrder(S, F) /\ m \in Nat /\ f \in [1 .. m -> S]
        /\ \A i, j \in 1 .. m : i < j => <<f[i], f[j]>> \in F
        /\ \A x \in S : \E i \in 1 .. m : f[i] = x
    BY ONLY <1>1, <1>3, <1>4, <2>1
  <2>3. Cardinality(S) = m /\ Sorted(S, F) = f
    BY ONLY <2>2, SortedIs
  <2> QED
    BY <2>1, <2>3
<1>7. ChosenAt(q, P) = [k \in 1 .. Cardinality(P) |-> q[Sorted(P, E)[k]]]
  BY DEF ChosenAt, SortedAt, E
<1>8. ChosenAt(q, P) = [k \in 1 .. n |-> q[id[k]]]
  BY <1>6, <1>7
<1> QED
  BY <1>1, <1>5, <1>8 DEF P

\* Sequences with the same members in the same places are one.
LEMMA ListedSame ==
  ASSUME NEW a, NEW b, Listed(a), Listed(b), Len(a) = Len(b), \A i \in 1 .. Len(b) : a[i] = b[i]
  PROVE  a = b
<1>1. a = [i \in 1 .. Len(a) |-> a[i]] /\ b = [i \in 1 .. Len(b) |-> b[i]]
  BY ListedDomain
<1> QED
  BY <1>1

\* Faces that are in order already stay in it.
LEMMA AscendingStays ==
  ASSUME NEW q \in Seq(Face), \A i, j \in 1 .. Len(q) : i < j => q[i].weight <= q[j].weight
  PROVE  FacesForFont(q) = q
<1> DEFINE n == Len(q)
           D == DOMAIN q
           E == {p \in D \X D : Lighter(q, p[1], p[2])}
           id == [i \in 1 .. n |-> i]
<1>1. n \in Nat /\ D = 1 .. n /\ q = [i \in 1 .. n |-> q[i]] /\ \A i \in D : q[i] \in Face
  OBVIOUS
<1>2. \A i \in D : q[i].weight \in Nat
  BY <1>1, BrandingAssumption DEF Face
<1>4. FacesForFont(q) = [k \in 1 .. Cardinality(D) |-> q[Sorted(D, E)[k]]]
  BY DEF FacesForFont, SortedAt
<1>5a. \A i, j \in D : <<i, j>> \in E <=> Lighter(q, i, j)
  OBVIOUS
<1> HIDE DEF E
<1>3. StrictOrder(D, E)
  BY <1>5a, LighterOrders
<1>5. \A i, j \in D : i < j => <<i, j>> \in E
  BY <1>1, <1>2, <1>5a DEF Lighter
<1>6. \A i \in 1 .. n : id[i] = i
  OBVIOUS
<1>7. id \in [1 .. n -> 1 .. n]
  OBVIOUS
<1> HIDE DEF n, D, E, id
<1>8. Cardinality(D) = n /\ Sorted(D, E) = id
  <2>1. PICK S, F, m, f : S = D /\ F = E /\ m = n /\ f = id
    OBVIOUS
  <2>2. /\ StrictOrder(S, F) /\ m \in Nat /\ f \in [1 .. m -> S]
        /\ \A i, j \in 1 .. m : i < j => <<f[i], f[j]>> \in F
        /\ \A x \in S : \E i \in 1 .. m : f[i] = x
    BY ONLY <1>1, <1>3, <1>5, <1>6, <1>7, <2>1
  <2>3. Cardinality(S) = m /\ Sorted(S, F) = f
    BY ONLY <2>2, SortedIs
  <2> QED
    BY <2>1, <2>3
<1>9. FacesForFont(q) = [k \in 1 .. n |-> q[k]]
  BY <1>4, <1>6, <1>8
<1> QED
  BY <1>1, <1>9

\* A family's faces come in the order of their weights.
LEMMA FacesAscend ==
  ASSUME NEW faces \in Seq(Face)
  PROVE  \A i, j \in 1 .. Len(faces) : i < j => FacesForFont(faces)[i].weight <= FacesForFont(faces)[j].weight
<1> DEFINE n == Len(faces)
           D == DOMAIN faces
           E == {p \in D \X D : Lighter(faces, p[1], p[2])}
           q == FacesForFont(faces)
           at == Sorted(D, E)
<1>1. n \in Nat /\ D = 1 .. n /\ \A i \in D : faces[i] \in Face
  OBVIOUS
<1>2. \A i \in D : faces[i].weight \in Nat
  BY <1>1, BrandingAssumption DEF Face
<1>4. q = [k \in 1 .. Cardinality(D) |-> faces[at[k]]]
  BY DEF FacesForFont, SortedAt
<1>5a. \A i, j \in D : <<i, j>> \in E <=> Lighter(faces, i, j)
  OBVIOUS
<1> HIDE DEF E
<1>3. StrictOrder(D, E)
  BY <1>5a, LighterOrders
<1>5. \A i, j \in D : <<i, j>> \in E => faces[i].weight <= faces[j].weight
  BY <1>1, <1>2, <1>5a DEF Lighter
<1> HIDE DEF D, E, q, n
<1>6. IsFiniteSet(D) /\ Cardinality(D) = n
  <2>1. IsFiniteSet(1 .. n) /\ Cardinality(1 .. n) = n
    BY <1>1, FS_Interval
  <2> QED
    BY <1>1, <2>1
<1>7. at \in [1 .. n -> D] /\ \A i, j \in 1 .. n : i < j => <<at[i], at[j]>> \in E
  <2>1. /\ Sorted(D, E) \in [1 .. Cardinality(D) -> D]
        /\ \A i, j \in 1 .. Cardinality(D) : i < j => <<Sorted(D, E)[i], Sorted(D, E)[j]>> \in E
    BY ONLY <1>3, <1>6, SortedExists
  <2> QED
    BY <1>6, <2>1
<1> HIDE DEF at, n
<1>8. \A i \in 1 .. n : q[i] = faces[at[i]] /\ at[i] \in D
  BY <1>4, <1>6, <1>7
<1>9. \A i, j \in 1 .. n : i < j => q[i].weight <= q[j].weight
  BY <1>5, <1>7, <1>8
<1> QED
  BY <1>9 DEF n, q

\* A sequence is one over what its members belong to.
LEMMA ListedIn ==
  ASSUME NEW S, NEW q, Listed(q), \A i \in 1 .. Len(q) : q[i] \in S
  PROVE  q \in Seq(S)
<1>1. Len(q) \in Nat /\ q = [i \in 1 .. Len(q) |-> q[i]]
  BY ListedDomain
<1> QED
  BY <1>1

\* Sorting a family's faces twice is sorting them once.
LEMMA FacesStayInOrder ==
  ASSUME NEW faces \in Seq(Face)
  PROVE  FacesForFont(FacesForFont(faces)) = FacesForFont(faces)
<1>1. PICK q : q = FacesForFont(faces)
  OBVIOUS
<1>2. Listed(q) /\ Len(q) = Len(faces) /\ \A i \in 1 .. Len(q) : q[i] \in Face
  BY <1>1, FacesInOrder
<1>3. q \in Seq(Face)
  BY <1>2, ListedIn
<1>4. \A i, j \in 1 .. Len(q) : i < j => q[i].weight <= q[j].weight
  BY <1>1, <1>2, FacesAscend
<1> QED
  BY <1>1, <1>3, <1>4, AscendingStays

\* The name claimed for a file is a new one: there are more names than files.
LEMMA ClaimFresh ==
  ASSUME NEW taken, IsFiniteSet(taken), NEW f, NEW w
  PROVE  ClaimAssetName(taken, f, w) \notin taken
<1> DEFINE N == Cardinality(taken) + 1
           name == [k \in 1 .. N |-> <<Stem[f], w, k>>]
           free == {k \in 1 .. N : name[k] \notin taken}
<1>1. N \in Nat /\ Cardinality(taken) < N
  BY FS_CardinalityType
<1> HIDE DEF N
<1>2. \A i \in 1 .. N : name[i] = <<Stem[f], w, i>> /\ name[i][3] = i
  OBVIOUS
<1>3. \A i, j \in 1 .. N : name[i] = name[j] => i = j
  BY <1>2
<1>3a. DOMAIN name = 1 .. N /\ name = [k \in 1 .. N |-> name[k]]
  OBVIOUS
<1> HIDE DEF name
<1>4. free # {}
  <2> SUFFICES ASSUME \A k \in 1 .. N : name[k] \in taken PROVE FALSE
    OBVIOUS
  <2>1. PICK I : I = 1 .. N
    OBVIOUS
  <2>2. IsFiniteSet(I) /\ Cardinality(I) = N
    BY <1>1, <2>1, FS_Interval
  <2>3. name \in [I -> taken]
    BY <1>3a, <2>1
  <2>4. PICK i \in I, j \in I : i # j /\ name[i] = name[j]
    BY <1>1, <2>2, <2>3, FS_PigeonHole
  <2> QED
    BY <1>3, <2>1, <2>4
<1>5. PICK k \in free : \A j \in free : k <= j
  <2>1. free \in SUBSET Nat
    OBVIOUS
  <2> HIDE DEF free
  <2> QED
    BY <1>4, <2>1, LeastNumber
<1>6. k \in 1 .. N /\ name[k] \notin taken /\ \A j \in 1 .. k - 1 : name[j] \in taken
  <2>1. \A j \in 1 .. k - 1 : j \in 1 .. N /\ ~(k <= j)
    BY <1>1, <1>5
  <2> QED
    BY <1>5, <2>1
<1> DEFINE Free(n) == /\ n \notin taken
                      /\ \A j \in 1 .. n[3] - 1 : MakeAssetName(f, w, j) \in taken
           Names == {MakeAssetName(f, w, j) : j \in 1 .. Cardinality(taken) + 1}
<1>7. \A j \in 1 .. N : MakeAssetName(f, w, j) = name[j]
  BY <1>2 DEF MakeAssetName
<1>8. name[k] \in Names
  BY <1>6, <1>7 DEF N
<1>9. Free(name[k])
  <2>1. name[k][3] = k
    BY <1>2, <1>6
  <2>2. \A j \in 1 .. k - 1 : j \in 1 .. N
    BY <1>1, <1>6
  <2> QED
    BY <1>6, <1>7, <2>1, <2>2
<1>10. ClaimAssetName(taken, f, w) = CHOOSE n \in Names : Free(n)
  BY DEF ClaimAssetName
<1> HIDE DEF Names
<1> QED
  BY <1>8, <1>9, <1>10

-------------------------------------------------------------------------------
(* What the export writes *)

\* The files a grew to x by: fonts only, and nothing overwritten.
AddsFonts(a, x) ==
  /\ IsFiniteSet(DOMAIN x) /\ DOMAIN a \subseteq DOMAIN x
  /\ \A n \in DOMAIN a : x[n] = a[n]
  /\ \A n \in DOMAIN x \ DOMAIN a : x[n] = "font"

\* q lists the first n faces, each with its file among the files a.
InFile(q, faces, n, a) ==
  /\ Listed(q) /\ Len(q) = n
  /\ \A j \in 1 .. n : /\ q[j] = [weight |-> faces[j].weight, file |-> q[j].file]
                       /\ q[j].file \in DOMAIN a /\ a[q[j].file] = "font"

\* Files that are added later leave a face its own.
LEMMA FilesStay ==
  ASSUME NEW q, NEW faces, NEW n, NEW a, InFile(q, faces, n, a), NEW x, AddsFonts(a, x)
  PROVE  InFile(q, faces, n, x)
BY DEF InFile, AddsFonts

\* What adds files to more files adds them to the first.
LEMMA AddsOnAdds ==
  ASSUME NEW a, NEW x, NEW y, AddsFonts(a, x), AddsFonts(x, y)
  PROVE  AddsFonts(a, y)
BY DEF AddsFonts

\* One more face is written under a new name.
LEMMA ExportFaceWrites ==
  ASSUME NEW x, x = [assets |-> x.assets, faces |-> x.faces], IsFiniteSet(DOMAIN x.assets),
         NEW faces, NEW n \in Nat, InFile(x.faces, faces, n, x.assets),
         NEW c, c = faces[n + 1], c.bytes = "font", NEW f
  PROVE  LET y == ExportFace(x, f, c) IN
         /\ y = [assets |-> y.assets, faces |-> y.faces]
         /\ AddsFonts(x.assets, y.assets) /\ InFile(y.faces, faces, n + 1, y.assets)
<1> DEFINE y == ExportFace(x, f, c)
<1>1. PICK name : name = ClaimAssetName(DOMAIN x.assets, f, c.weight)
  OBVIOUS
<1> DEFINE a == [m \in DOMAIN x.assets \cup {name} |-> IF m = name THEN c.bytes ELSE x.assets[m]]
           e == [weight |-> c.weight, file |-> name]
           q == Append(x.faces, e)
<1>2. y = [assets |-> a, faces |-> q]
  BY <1>1 DEF ExportFace
<1>3. name \notin DOMAIN x.assets
  BY <1>1, ClaimFresh
<1>4. /\ DOMAIN a = DOMAIN x.assets \cup {name} /\ a[name] = "font"
      /\ \A m \in DOMAIN x.assets : a[m] = x.assets[m]
  BY <1>3
<1>5. e.weight = c.weight /\ e.file = name /\ e = [weight |-> c.weight, file |-> e.file]
  OBVIOUS
<1> HIDE DEF a, e
<1>6. IsFiniteSet(DOMAIN a)
  BY <1>4, FS_AddElement
<1>7. AddsFonts(x.assets, a)
  BY <1>4, <1>6 DEF AddsFonts
<1>8. /\ Listed(q) /\ Len(q) = n + 1
      /\ \A i \in 1 .. n : q[i] = x.faces[i]
      /\ q[n + 1] = e
  BY AppendListed DEF InFile
<1> HIDE DEF q, y
<1>9. InFile(x.faces, faces, n, a)
  BY <1>7, FilesStay
<1>10. ASSUME NEW j \in 1 .. n + 1
       PROVE  /\ q[j] = [weight |-> faces[j].weight, file |-> q[j].file]
              /\ q[j].file \in DOMAIN a /\ a[q[j].file] = "font"
  <2>1. CASE j \in 1 .. n
    BY <1>8, <1>9, <2>1 DEF InFile
  <2>2. CASE j = n + 1
    BY <1>4, <1>5, <1>8, <2>2
  <2> QED
    BY <2>1, <2>2
<1>11. InFile(q, faces, n + 1, a)
  BY <1>8, <1>10 DEF InFile
<1>12. y.assets = a /\ y.faces = q
  BY ONLY <1>2
<1> QED
  BY <1>2, <1>7, <1>11, <1>12 DEF y

\* No files added are none overwritten.
LEMMA AddsNothing ==
  ASSUME NEW a, IsFiniteSet(DOMAIN a)
  PROVE  AddsFonts(a, a)
BY DEF AddsFonts

\* The faces of a family are written in their order.
LEMMA ExportFacesWrites ==
  ASSUME NEW assets, IsFiniteSet(DOMAIN assets), NEW f0,
         NEW faces, Listed(faces), \A i \in 1 .. Len(faces) : faces[i].bytes = "font"
  PROVE  LET y == ExportFaces(assets, f0, faces) IN
         AddsFonts(assets, y.assets) /\ InFile(y.faces, faces, Len(faces), y.assets)
<1> DEFINE N == Len(faces)
           First == [assets |-> assets, faces |-> <<>>]
           g == CHOOSE f : FacesUpTo(f, assets, f0, faces, N)
           Done(i, x) == /\ x = [assets |-> x.assets, faces |-> x.faces]
                         /\ AddsFonts(assets, x.assets) /\ InFile(x.faces, faces, i, x.assets)
<1>1. ExportFaces(assets, f0, faces) = g[N]
  BY DEF ExportFaces, FacesUpTo
<1>2. N \in Nat /\ \A i \in 1 .. N : faces[i].bytes = "font"
  BY ListedDomain
<1> HIDE DEF N
<1>3. FacesUpTo(g, assets, f0, faces, N)
  BY <1>2, FacesExist
<1> HIDE DEF g
<1>4. \A i \in 0 .. N : g[i] = IF i = 0 THEN First ELSE ExportFace(g[i - 1], f0, faces[i])
  BY <1>3 DEF FacesUpTo
<1> DEFINE T == {i \in 0 .. N : Done(i, g[i])}
<1>5. 0 \in T
  <2>1a. 0 \in 0 .. N
    BY <1>2
  <2>1b. g[0] = IF 0 = 0 THEN First ELSE ExportFace(g[0 - 1], f0, faces[0])
    BY ONLY <1>4, <2>1a
  <2>1. g[0] = First /\ 0 \in 0 .. N
    BY ONLY <2>1a, <2>1b
  <2>2. First = [assets |-> First.assets, faces |-> First.faces] /\ First.assets = assets /\ First.faces = <<>>
    BY ONLY DEF First
  <2> HIDE DEF First
  <2>3. Listed(<<>>) /\ Len(<<>>) = 0
    BY DEF Listed
  <2>4. \A j \in 1 .. 0 : FALSE
    OBVIOUS
  <2>5. Listed(First.faces) /\ Len(First.faces) = 0
    BY ONLY <2>2, <2>3
  <2>6. InFile(First.faces, faces, 0, First.assets)
    BY <2>4, <2>5 DEF InFile
  <2>7. AddsFonts(assets, First.assets)
    BY <2>2, AddsNothing
  <2> QED
    BY <2>1, <2>2, <2>6, <2>7
<1>6. ASSUME NEW i \in 1 .. N, i - 1 \in T PROVE i \in T
  <2>1. i \in 0 .. N /\ i # 0 /\ i - 1 \in Nat /\ (i - 1) + 1 = i
    BY <1>2
  <2>2. PICK n, x : n = i - 1 /\ x = g[i - 1]
    OBVIOUS
  <2>3. n \in Nat /\ n + 1 = i /\ Done(n, x)
    BY <1>6, <2>1, <2>2
  <2>3a. n \in Nat /\ x = [assets |-> x.assets, faces |-> x.faces] /\ InFile(x.faces, faces, n, x.assets)
    BY <2>3
  <2>4. PICK c, y : c = faces[n + 1] /\ y = ExportFace(x, f0, c)
    OBVIOUS
  <2>4a. IsFiniteSet(DOMAIN x.assets) /\ c.bytes = "font"
    BY <1>2, <2>3, <2>4 DEF AddsFonts
  <2>5. /\ y = [assets |-> y.assets, faces |-> y.faces]
        /\ AddsFonts(x.assets, y.assets) /\ InFile(y.faces, faces, n + 1, y.assets)
    BY ONLY <2>3a, <2>4, <2>4a, ExportFaceWrites
  <2>6. AddsFonts(assets, y.assets)
    BY <2>3, <2>5, AddsOnAdds
  <2>7. g[i] = y
    BY <1>4, <2>1, <2>2, <2>3, <2>4
  <2> QED
    BY <2>1, <2>3, <2>5, <2>6, <2>7
<1> HIDE DEF T
<1>7. \A i \in 0 .. N : i \in T
  BY <1>2, <1>5, <1>6, UpToBound
<1>8. N \in T
  BY <1>2, <1>7
<1>9. Done(N, g[N])
  BY <1>8 DEF T
<1> QED
  BY <1>1, <1>9 DEF N

\* The entry that family f gets in the theme file.
ThemeFamily(g, f, font, a) ==
  /\ g = [family |-> f, kind |-> font.kind, valid |-> TRUE, faces |-> g.faces,
          service |-> IF font.kind = "cdn" THEN font.service ELSE NoService]
  /\ InFile(g.faces, FacesForFont(font.faces), Len(font.faces), a)

\* The first n families of an order, with their files among a.
InTheme(l, fonts, order, n, a) ==
  /\ Listed(l) /\ Len(l) = n
  /\ \A j \in 1 .. n : ThemeFamily(l[j], order[j], fonts[order[j]], a)

FontFiles(faces) == faces \in Seq(Face) /\ \A i \in 1 .. Len(faces) : faces[i].bytes = "font"

\* Sorted faces are as many, and fonts still.
LEMMA SortedFonts ==
  ASSUME NEW faces, FontFiles(faces)
  PROVE  /\ Listed(FacesForFont(faces)) /\ Len(FacesForFont(faces)) = Len(faces)
         /\ \A i \in 1 .. Len(faces) : FacesForFont(faces)[i].bytes = "font"
         /\ \A i \in 1 .. Len(faces) : FacesForFont(faces)[i] \in Face
<1>1. PICK q : q = FacesForFont(faces)
  OBVIOUS
<1>2. /\ Listed(q) /\ Len(q) = Len(faces) /\ ComesFrom(q, faces, DOMAIN faces)
      /\ \A i \in 1 .. Len(q) : q[i] \in Face
  BY <1>1, FacesInOrder DEF FontFiles
<1>3. DOMAIN q = 1 .. Len(faces) /\ DOMAIN faces = 1 .. Len(faces)
  BY <1>2, ListedDomain DEF FontFiles
<1>4. \A i \in 1 .. Len(faces) : q[i].bytes = "font"
  BY <1>2, <1>3 DEF ComesFrom, FontFiles
<1> QED
  BY <1>1, <1>2, <1>4

\* Files that are added later leave a family its own.
LEMMA EntriesStay ==
  ASSUME NEW l, NEW fonts, NEW order, NEW n, NEW a, InTheme(l, fonts, order, n, a), NEW x, AddsFonts(a, x)
  PROVE  InTheme(l, fonts, order, n, x)
BY FilesStay DEF InTheme, ThemeFamily

\* One more family is written with its files.
LEMMA ExportFamilyWrites ==
  ASSUME NEW x, x = [assets |-> x.assets, families |-> x.families], IsFiniteSet(DOMAIN x.assets),
         NEW fonts, NEW order, NEW n \in Nat, InTheme(x.families, fonts, order, n, x.assets),
         NEW f, f = order[n + 1], FontFiles(fonts[f].faces)
  PROVE  LET y == ExportFamily(x, f, fonts[f]) IN
         /\ y = [assets |-> y.assets, families |-> y.families]
         /\ AddsFonts(x.assets, y.assets) /\ InTheme(y.families, fonts, order, n + 1, y.assets)
<1> DEFINE y == ExportFamily(x, f, fonts[f])
           q == FacesForFont(fonts[f].faces)
<1>1. PICK done : done = ExportFaces(x.assets, f, q)
  OBVIOUS
<1> DEFINE e == [family |-> f, kind |-> fonts[f].kind, valid |-> TRUE, faces |-> done.faces,
                 service |-> IF fonts[f].kind = "cdn" THEN fonts[f].service ELSE NoService]
           l == Append(x.families, e)
<1>2. y = [assets |-> done.assets, families |-> l]
  BY <1>1 DEF ExportFamily
<1>3. Listed(q) /\ Len(q) = Len(fonts[f].faces) /\ \A i \in 1 .. Len(q) : q[i].bytes = "font"
  BY SortedFonts
<1> HIDE DEF q
<1>4. AddsFonts(x.assets, done.assets) /\ InFile(done.faces, q, Len(fonts[f].faces), done.assets)
  BY <1>1, <1>3, ExportFacesWrites
<1>5. e.faces = done.faces /\ e = [family |-> f, kind |-> fonts[f].kind, valid |-> TRUE, faces |-> e.faces,
                 service |-> IF fonts[f].kind = "cdn" THEN fonts[f].service ELSE NoService]
  OBVIOUS
<1> HIDE DEF e
<1>6. ThemeFamily(e, f, fonts[f], done.assets)
  BY <1>4, <1>5 DEF ThemeFamily, q
<1>7. /\ Listed(l) /\ Len(l) = n + 1
      /\ \A i \in 1 .. n : l[i] = x.families[i]
      /\ l[n + 1] = e
  BY AppendListed DEF InTheme
<1> HIDE DEF l, y
<1>8. InTheme(x.families, fonts, order, n, done.assets)
  BY <1>4, EntriesStay
<1>9. ASSUME NEW j \in 1 .. n + 1
      PROVE  ThemeFamily(l[j], order[j], fonts[order[j]], done.assets)
  <2>1. CASE j \in 1 .. n
    BY <1>7, <1>8, <2>1 DEF InTheme
  <2>2. CASE j = n + 1
    BY <1>6, <1>7, <2>2
  <2> QED
    BY <2>1, <2>2
<1>10. InTheme(l, fonts, order, n + 1, done.assets)
  BY <1>7, <1>9 DEF InTheme
<1>11. y.assets = done.assets /\ y.families = l
  BY ONLY <1>2
<1> QED
  BY <1>2, <1>4, <1>10, <1>11 DEF y

\* The families are written in their order.
LEMMA ExportFamiliesWrites ==
  ASSUME NEW fonts, NEW order, Listed(order), \A i \in 1 .. Len(order) : FontFiles(fonts[order[i]].faces),
         NEW pictures, IsFiniteSet(DOMAIN pictures)
  PROVE  LET y == ExportFamilies(fonts, order, pictures) IN
         AddsFonts(pictures, y.assets) /\ InTheme(y.families, fonts, order, Len(order), y.assets)
<1> DEFINE N == Len(order)
           First == [assets |-> pictures, families |-> <<>>]
           g == CHOOSE f : ExportedUpTo(f, fonts, order, pictures, N)
           Done(i, x) == /\ x = [assets |-> x.assets, families |-> x.families]
                         /\ AddsFonts(pictures, x.assets) /\ InTheme(x.families, fonts, order, i, x.assets)
<1>1. ExportFamilies(fonts, order, pictures) = g[N]
  BY DEF ExportFamilies, ExportedUpTo
<1>2. N \in Nat /\ \A i \in 1 .. N : FontFiles(fonts[order[i]].faces)
  BY ListedDomain
<1> HIDE DEF N
<1>3. ExportedUpTo(g, fonts, order, pictures, N)
  BY <1>2, ExportedExist
<1> HIDE DEF g
<1>4. \A i \in 0 .. N : g[i] = IF i = 0 THEN First ELSE ExportFamily(g[i - 1], order[i], fonts[order[i]])
  BY <1>3 DEF ExportedUpTo
<1> DEFINE T == {i \in 0 .. N : Done(i, g[i])}
<1>5. 0 \in T
  <2>1a. 0 \in 0 .. N
    BY <1>2
  <2>1b. g[0] = IF 0 = 0 THEN First ELSE ExportFamily(g[0 - 1], order[0], fonts[order[0]])
    BY ONLY <1>4, <2>1a
  <2>1. g[0] = First /\ 0 \in 0 .. N
    BY ONLY <2>1a, <2>1b
  <2>2. First = [assets |-> First.assets, families |-> First.families] /\ First.assets = pictures /\ First.families = <<>>
    BY ONLY DEF First
  <2> HIDE DEF First
  <2>3. Listed(<<>>) /\ Len(<<>>) = 0
    BY DEF Listed
  <2>4. \A j \in 1 .. 0 : FALSE
    OBVIOUS
  <2>5. Listed(First.families) /\ Len(First.families) = 0
    BY ONLY <2>2, <2>3
  <2>6. InTheme(First.families, fonts, order, 0, First.assets)
    BY <2>4, <2>5 DEF InTheme
  <2>7. AddsFonts(pictures, First.assets)
    BY <2>2, AddsNothing
  <2> QED
    BY <2>1, <2>2, <2>6, <2>7
<1>6. ASSUME NEW i \in 1 .. N, i - 1 \in T PROVE i \in T
  <2>1. i \in 0 .. N /\ i # 0 /\ i - 1 \in Nat /\ (i - 1) + 1 = i
    BY <1>2
  <2>2. PICK n, x : n = i - 1 /\ x = g[i - 1]
    OBVIOUS
  <2>3. n \in Nat /\ n + 1 = i /\ Done(n, x)
    BY <1>6, <2>1, <2>2
  <2>3a. /\ n \in Nat /\ x = [assets |-> x.assets, families |-> x.families]
         /\ InTheme(x.families, fonts, order, n, x.assets)
    BY <2>3
  <2>4. PICK f, y : f = order[n + 1] /\ y = ExportFamily(x, f, fonts[f])
    OBVIOUS
  <2>4a. IsFiniteSet(DOMAIN x.assets) /\ FontFiles(fonts[f].faces)
    BY <1>2, <2>3, <2>4 DEF AddsFonts
  <2>5. /\ y = [assets |-> y.assets, families |-> y.families]
        /\ AddsFonts(x.assets, y.assets) /\ InTheme(y.families, fonts, order, n + 1, y.assets)
    BY ONLY <2>3a, <2>4, <2>4a, ExportFamilyWrites
  <2>6. AddsFonts(pictures, y.assets)
    BY <2>3, <2>5, AddsOnAdds
  <2>7. g[i] = y
    BY <1>4, <2>1, <2>2, <2>3, <2>4
  <2> QED
    BY <2>1, <2>3, <2>5, <2>6, <2>7
<1> HIDE DEF T
<1>7. \A i \in 0 .. N : i \in T
  BY <1>2, <1>5, <1>6, UpToBound
<1>8. N \in T
  BY <1>2, <1>7
<1>9. Done(N, g[N])
  BY <1>8 DEF T
<1> QED
  BY <1>1, <1>9 DEF N

-------------------------------------------------------------------------------
(* What is written is usable *)

\* Services are written each once.
LEMMA ServicesOnce ==
  ASSUME NEW S, IsFiniteSet(S), NEW q, q = SetToSeq(S)
  PROVE  /\ Cardinality(S) \in Nat /\ q \in [1 .. Cardinality(S) -> S]
         /\ \A i, j \in 1 .. Cardinality(S) : q[i] = q[j] => i = j
         /\ \A x \in S : \E i \in 1 .. Cardinality(S) : q[i] = x
<1> DEFINE N == Cardinality(S)
<1>1. N \in Nat /\ ExistsBijection(1 .. N, S)
  BY FS_CardinalityType
<1>2. PICK f : f \in [1 .. N -> S] /\ IsInjective(f)
  BY <1>1 DEF ExistsBijection, Bijection, Injection, IsInjective
<1>3. q \in [1 .. N -> S] /\ IsInjective(q)
  BY <1>2 DEF SetToSeq
<1>4. \A i, j \in 1 .. N : q[i] = q[j] => i = j
  BY <1>3 DEF IsInjective
<1> HIDE DEF N
<1>5. ASSUME NEW x \in S PROVE \E i \in 1 .. N : q[i] = x
  <2> SUFFICES ASSUME \A i \in 1 .. N : q[i] # x PROVE FALSE
    OBVIOUS
  <2> DEFINE I == 1 .. N
             T == S \ {x}
  <2>1. IsFiniteSet(I) /\ Cardinality(I) = N
    BY <1>1, FS_Interval
  <2>2. IsFiniteSet(T) /\ Cardinality(T) = N - 1
    BY FS_RemoveElement DEF N
  <2>3. q \in [I -> T]
    BY <1>3
  <2>4. Cardinality(T) < Cardinality(I)
    BY <1>1, <2>1, <2>2
  <2> HIDE DEF I, T
  <2>5. PICK i \in I, j \in I : i # j /\ q[i] = q[j]
    BY <2>1, <2>2, <2>3, <2>4, FS_PigeonHole
  <2> USE DEF I
  <2> QED
    BY <1>4, <2>5
<1> QED
  BY <1>1, <1>3, <1>4, <1>5 DEF N

\* Services that are valid and named once pass.
LEMMA ServicesPass ==
  ASSUME NEW services, Listed(services), \A i \in 1 .. Len(services) : services[i].valid = TRUE,
         \A i, j \in 1 .. Len(services) : services[i].key = services[j].key => i = j
  PROVE  /\ PruneSources(services).problems = FALSE
         /\ PruneSources(services).seen = {services[i].key : i \in 1 .. Len(services)}
<1> DEFINE N == Len(services)
           g == CHOOSE f : SourcesUpTo(f, services, N)
           Done(i, x) == /\ x = [seen |-> x.seen, kept |-> x.kept, problems |-> x.problems]
                         /\ x.problems = FALSE /\ x.seen = {services[j].key : j \in 1 .. i}
<1>1. PruneSources(services) = g[N]
  BY DEF PruneSources, SourcesUpTo
<1>2. /\ N \in Nat /\ \A i \in 1 .. N : services[i].valid = TRUE
      /\ \A i, j \in 1 .. N : services[i].key = services[j].key => i = j
  BY ListedDomain
<1> HIDE DEF N
<1>3. SourcesUpTo(g, services, N)
  BY <1>2, SourcesExist
<1> HIDE DEF g
<1>4. \A i \in 0 .. N : g[i] = IF i = 0 THEN NoneSeen ELSE PruneSource(g[i - 1], services[i])
  BY <1>3 DEF SourcesUpTo
<1> DEFINE T == {i \in 0 .. N : Done(i, g[i])}
<1>5. 0 \in T
  <2>1. g[0] = NoneSeen /\ 0 \in 0 .. N
    BY <1>2, <1>4
  <2>2. {services[j].key : j \in 1 .. 0} = {}
    OBVIOUS
  <2>3. /\ NoneSeen.seen = {} /\ NoneSeen.problems = FALSE
        /\ NoneSeen = [seen |-> NoneSeen.seen, kept |-> NoneSeen.kept, problems |-> NoneSeen.problems]
    BY DEF NoneSeen
  <2> QED
    BY <2>1, <2>2, <2>3
<1>6. ASSUME NEW i \in 1 .. N, i - 1 \in T PROVE i \in T
  <2>1. i \in 0 .. N /\ i # 0 /\ \A j \in 1 .. i - 1 : j \in 1 .. N /\ j # i
    BY <1>2
  <2>2. PICK x, v : x = g[i - 1] /\ v = services[i]
    OBVIOUS
  <2>3. Done(i - 1, x)
    BY <1>6, <2>2
  <2>4. v.key \notin x.seen
    BY <1>2, <2>1, <2>2, <2>3
  <2>5. IsValidFontSource(v)
    BY <1>2, <2>2 DEF IsValidFontSource
  <2>6. PICK y : y = PruneSource(x, v)
    OBVIOUS
  <2>7. y = [x EXCEPT !.seen = @ \cup {v.key}, !.kept = Append(@, v)]
    BY <2>4, <2>5, <2>6 DEF PruneSource
  <2>8. y = [seen |-> x.seen \cup {v.key}, kept |-> Append(x.kept, v), problems |-> x.problems]
    <3>1. x = [seen |-> x.seen, kept |-> x.kept, problems |-> x.problems]
      BY <2>3
    <3> QED
      BY ONLY <2>7, <3>1
  <2>9. /\ y = [seen |-> y.seen, kept |-> y.kept, problems |-> y.problems]
        /\ y.problems = x.problems /\ y.seen = x.seen \cup {v.key}
    BY ONLY <2>8
  <2>10. y.seen = {services[j].key : j \in 1 .. i}
    <3>1. \A j \in 1 .. i : j \in 1 .. i - 1 \/ j = i
      BY <2>1
    <3>2. 1 .. i - 1 \subseteq 1 .. i /\ i \in 1 .. i
      BY <2>1
    <3> QED
      BY <2>2, <2>3, <2>9, <3>1, <3>2
  <2>11. g[i] = y
    BY <1>4, <2>1, <2>2, <2>6
  <2> QED
    BY <2>1, <2>3, <2>9, <2>10, <2>11
<1> HIDE DEF T
<1>7. \A i \in 0 .. N : i \in T
  BY <1>2, <1>5, <1>6, UpToBound
<1>8. N \in T
  BY <1>2, <1>7
<1>9. Done(N, g[N])
  BY <1>8 DEF T
<1> QED
  BY <1>1, <1>9 DEF N

\* A family with everything it needs.
Passable(b, keys, f) ==
  /\ f = [family |-> f.family, kind |-> f.kind, valid |-> TRUE, service |-> f.service, faces |-> f.faces]
  /\ f.kind = "cdn" => f.service \in keys
  /\ f.kind = "uploaded" => f.faces # <<>>
  /\ Listed(f.faces) /\ \A c \in ToSet(f.faces) : UsableFace(b, c)

\* If every face is usable, all of them are kept.
LEMMA AllUsable ==
  ASSUME NEW b, NEW faces, Listed(faces), \A c \in ToSet(faces) : UsableFace(b, c)
  PROVE  UsableFaces(b, faces) = faces
<1>1. {j \in DOMAIN faces : UsableFace(b, faces[j])} = DOMAIN faces
  BY DEF ToSet
<1> QED
  BY <1>1, AllChosen DEF UsableFaces

\* Families with everything they need, named once, all pass.
LEMMA FamiliesPass ==
  ASSUME NEW b, NEW keys, Listed(b.families), \A i \in 1 .. Len(b.families) : Passable(b, keys, b.families[i]),
         \A i, j \in 1 .. Len(b.families) : b.families[i].family = b.families[j].family => i = j
  PROVE  PruneFamilies(b, keys).problems = FALSE
<1> DEFINE N == Len(b.families)
           g == CHOOSE f : KeptUpTo(f, b, keys, N)
           Done(i, x) == x.problems = FALSE /\ x.seen = {b.families[j].family : j \in 1 .. i}
<1>1. PruneFamilies(b, keys) = g[N]
  BY DEF PruneFamilies, KeptUpTo
<1>2. /\ N \in Nat /\ \A i \in 1 .. N : Passable(b, keys, b.families[i])
      /\ \A i, j \in 1 .. N : b.families[i].family = b.families[j].family => i = j
  BY ListedDomain
<1> HIDE DEF N
<1>3. KeptUpTo(g, b, keys, N)
  BY <1>2, KeptExist
<1> HIDE DEF g
<1>4. \A i \in 0 .. N : g[i] = IF i = 0 THEN NoneSeen ELSE PruneFamily(b, keys, g[i - 1], b.families[i])
  BY <1>3 DEF KeptUpTo
<1> DEFINE T == {i \in 0 .. N : Done(i, g[i])}
<1>5. 0 \in T
  <2>1. g[0] = NoneSeen /\ 0 \in 0 .. N
    BY <1>2, <1>4
  <2>2. {b.families[j].family : j \in 1 .. 0} = {}
    OBVIOUS
  <2>3. NoneSeen.seen = {} /\ NoneSeen.problems = FALSE
    BY DEF NoneSeen
  <2> QED
    BY <2>1, <2>2, <2>3
<1>6. ASSUME NEW i \in 1 .. N, i - 1 \in T PROVE i \in T
  <2>1. i \in 0 .. N /\ i # 0 /\ \A j \in 1 .. i - 1 : j \in 1 .. N /\ j # i
    BY <1>2
  <2>2. PICK x, f : x = g[i - 1] /\ f = b.families[i]
    OBVIOUS
  <2>3. Done(i - 1, x)
    BY <1>6, <2>2
  <2>4. f.family \notin x.seen
    BY <1>2, <2>1, <2>2, <2>3
  <2>5. Passable(b, keys, f)
    BY <1>2, <2>2
  <2>5a. IsValidFontFamily(f)
    <3>1. f.valid = TRUE
      BY <2>5 DEF Passable
    <3> QED
      BY <3>1 DEF IsValidFontFamily
  <2>6. PICK y : y = PruneFamily(b, keys, x, f)
    OBVIOUS
  <2>7. PICK faces : faces = IF f.kind = "uploaded" THEN UsableFaces(b, f.faces) ELSE f.faces
    OBVIOUS
  <2>8. faces = f.faces
    BY <2>5, <2>7, AllUsable DEF Passable
  <2>9. y = [seen |-> x.seen \cup {f.family}, kept |-> Append(x.kept, [f EXCEPT !.faces = faces]),
             problems |-> x.problems \/ faces # f.faces]
    BY <2>4, <2>5, <2>5a, <2>6, <2>7, <2>8 DEF PruneFamily, Passable
  <2>10. y.seen = x.seen \cup {f.family} /\ y.problems = (x.problems \/ faces # f.faces)
    BY ONLY <2>9
  <2>11. y.problems = FALSE
    BY <2>3, <2>8, <2>10
  <2>12. y.seen = {b.families[j].family : j \in 1 .. i}
    <3>1. \A j \in 1 .. i : j \in 1 .. i - 1 \/ j = i
      BY <2>1
    <3>2. 1 .. i - 1 \subseteq 1 .. i /\ i \in 1 .. i
      BY <2>1
    <3> QED
      BY <2>2, <2>3, <2>10, <3>1, <3>2
  <2>13. g[i] = y
    BY <1>4, <2>1, <2>2, <2>6
  <2> QED
    BY <2>1, <2>11, <2>12, <2>13
<1> HIDE DEF T
<1>7. \A i \in 0 .. N : i \in T
  BY <1>2, <1>5, <1>6, UpToBound
<1>8. N \in T
  BY <1>2, <1>7
<1>9. Done(N, g[N])
  BY <1>8 DEF T
<1> QED
  BY <1>1, <1>9

\* What a theme file says of the look it was exported from.
SlotIn(v) == IF v[1] = "path" THEN <<"file", v[2]>> ELSE v
Describes(b, s) ==
  /\ ThemeBundle(b) /\ b.format = 1 /\ b.extra = "none" /\ b.section = "none" /\ b.role = s.role
  /\ \A k \in Slots : b.content[k] = SlotIn(s.slots[k])
  /\ Listed(b.services) /\ \A i \in 1 .. Len(b.services) : b.services[i].valid = TRUE
  /\ {b.services[i].key : i \in 1 .. Len(b.services)} = s.services
  /\ \A i, j \in 1 .. Len(b.services) : b.services[i].key = b.services[j].key => i = j
  /\ AddsFonts(ExportPictures(s), b.assets)
  /\ InTheme(b.families, s.fonts, AllFonts(s), Len(AllFonts(s)), b.assets)

\* Pictures are written for the slots that show one.
LEMMA PicturesWritten ==
  ASSUME NEW s, SiteInv(s)
  PROVE  /\ IsFiniteSet(DOMAIN ExportPictures(s))
         /\ ExportPictures(s) = [n \in DOMAIN ExportPictures(s) |-> "image"]
         /\ \A n \in DOMAIN ExportPictures(s) : n \in DOMAIN s.assets
         /\ \A k \in Slots : s.slots[k][1] = "path" /\ s.slots[k][2] \in DOMAIN s.assets
                               => s.slots[k][2] \in DOMAIN ExportPictures(s)
<1> DEFINE A == s.assets
           used == {n \in DOMAIN A : \E k \in Slots : s.slots[k] = <<"path", n>>}
           shown == {s.slots[k][2] : k \in Slots}
           pics == ExportPictures(s)
<1>1. pics = [n \in used |-> A[n]]
  BY DEF ExportPictures
<1>2. \A n \in DOMAIN A : A[n] = "image"
  <2>1. A = [n \in DOMAIN A |-> "image"]
    BY DEF SiteInv
  <2> HIDE DEF A
  <2> QED
    BY <2>1
<1>3. \A k \in Slots : s.slots[k] = <<s.slots[k][1], s.slots[k][2]>>
  BY DEF SiteInv, StoredValue
<1>4. IsFiniteSet(shown)
  <2>1. PICK at : at = [k \in Slots |-> s.slots[k][2]]
    OBVIOUS
  <2>2. at \in [Slots -> shown] /\ \A y \in shown : \E k \in Slots : at[k] = y
    BY <2>1
  <2>3. at \in Surjection(Slots, shown)
    <3> HIDE DEF shown
    <3> QED
      BY <2>2 DEF Surjection
  <2> QED
    BY <2>3, BrandingAssumption, FS_Surjection
<1>5. used \subseteq shown
  <2> SUFFICES ASSUME NEW n \in used PROVE n \in shown
    OBVIOUS
  <2>1. PICK k \in Slots : s.slots[k] = <<"path", n>>
    OBVIOUS
  <2>2. s.slots[k][2] = n
    BY <2>1
  <2> QED
    BY <2>2
<1>6. IsFiniteSet(used)
  <2> HIDE DEF used, shown
  <2> QED
    BY <1>4, <1>5, FS_Subset
<1>7. ASSUME NEW k \in Slots, s.slots[k][1] = "path", s.slots[k][2] \in DOMAIN A PROVE s.slots[k][2] \in used
  <2>1. s.slots[k] = <<"path", s.slots[k][2]>>
    BY <1>3, <1>7
  <2> QED
    BY <1>7, <2>1
<1>8. \A n \in used : n \in DOMAIN A
  OBVIOUS
<1> HIDE DEF used, pics
<1>9. DOMAIN pics = used
  BY <1>1
<1>10. pics = [n \in used |-> "image"]
  BY <1>1, <1>2, <1>8
<1> QED
  BY <1>6, <1>7, <1>8, <1>9, <1>10 DEF pics

\* Every family is exported once, and each of its files is a font.
LEMMA FontsListed ==
  ASSUME NEW s, SiteInv(s), Exportable(s)
  PROVE  /\ Listed(AllFonts(s)) /\ Once(AllFonts(s)) /\ ToSet(AllFonts(s)) = DOMAIN s.fonts
         /\ \A f \in DOMAIN s.fonts : s.fonts[f] \in Font /\ FontFiles(s.fonts[f].faces)
<1>1. RowsFit(s) /\ (\A f \in DOMAIN s.fonts : s.fonts[f] \in Font)
  BY DEF SiteInv, FontsFit
<1>2. \A f \in DOMAIN s.fonts : s.fonts[f].ordinal \in Nat
  BY <1>1 DEF Font
<1>3. ASSUME NEW f \in DOMAIN s.fonts PROVE FontFiles(s.fonts[f].faces)
  <2>1. PICK q : q = s.fonts[f].faces
    OBVIOUS
  <2>2. q \in Seq(Face)
    BY <1>1, <2>1 DEF Font
  <2>3. \A i \in DOMAIN q : q[i].bytes = "font"
    BY <2>1 DEF Exportable
  <2> QED
    BY <2>1, <2>2, <2>3 DEF FontFiles
<1> QED
  BY <1>1, <1>2, <1>3, FontsInOrder

\* The export describes the look it was made from.
LEMMA ExportDescribes ==
  ASSUME NEW s, SiteInv(s), Exportable(s), Complete(s)
  PROVE  Describes(ExportThemeBundle(s), s)
<1> DEFINE fonts == ExportFamilies(s.fonts, AllFonts(s), ExportPictures(s))
           c == [k \in Slots |-> ExportSlot(s, s.slots[k])]
           v == [i \in 1 .. Cardinality(s.services) |-> [key |-> SetToSeq(s.services)[i], valid |-> TRUE]]
           raw == [format |-> 1, extra |-> "none", section |-> "none", content |-> c, role |-> s.role,
                   services |-> v, families |-> fonts.families, assets |-> fonts.assets]
           c2 == [k \in Slots |-> IF c[k] = Absent THEN Unset ELSE c[k]]
           r2 == IF s.role = "absent" THEN "" ELSE s.role
           b == ExportThemeBundle(s)
           order == AllFonts(s)
<1>1. b = [raw EXCEPT !.content = c2, !.role = r2]
  BY DEF ExportThemeBundle, ThemeBundleToJson
<1>2. /\ AddsFonts(ExportPictures(s), fonts.assets)
      /\ InTheme(fonts.families, s.fonts, order, Len(order), fonts.assets)
  <2>3. Listed(order) /\ ToSet(order) = DOMAIN s.fonts
    BY FontsListed
  <2>4. \A f \in DOMAIN s.fonts : FontFiles(s.fonts[f].faces)
    BY FontsListed
  <2> HIDE DEF order
  <2>5. DOMAIN order = 1 .. Len(order)
    BY <2>3, ListedDomain
  <2>6. \A i \in 1 .. Len(order) : FontFiles(s.fonts[order[i]].faces)
    BY <2>3, <2>4, <2>5 DEF ToSet
  <2>7. IsFiniteSet(DOMAIN ExportPictures(s))
    BY PicturesWritten
  <2> QED
    BY <2>3, <2>6, <2>7, ExportFamiliesWrites DEF order
<1>3. /\ Listed(v) /\ \A i \in 1 .. Len(v) : v[i].valid = TRUE
      /\ {v[i].key : i \in 1 .. Len(v)} = s.services
      /\ \A i, j \in 1 .. Len(v) : v[i].key = v[j].key => i = j
  <2>1. PICK n, q : n = Cardinality(s.services) /\ q = SetToSeq(s.services)
    OBVIOUS
  <2>2. IsFiniteSet(s.services)
    BY DEF SiteInv
  <2>3. /\ n \in Nat /\ q \in [1 .. n -> s.services]
        /\ \A i, j \in 1 .. n : q[i] = q[j] => i = j
        /\ \A x \in s.services : \E i \in 1 .. n : q[i] = x
    BY <2>1, <2>2, ServicesOnce
  <2>4. v = [i \in 1 .. n |-> [key |-> q[i], valid |-> TRUE]]
    BY <2>1
  <2> HIDE DEF v
  <2>5. v = [i \in 1 .. n |-> v[i]]
    BY <2>4
  <2>6. Listed(v) /\ Len(v) = n
    BY <2>3, <2>5, MakeListed
  <2>7. \A i \in 1 .. n : v[i].key = q[i] /\ v[i].valid = TRUE
    BY <2>4
  <2>8. {v[i].key : i \in 1 .. n} = s.services
    BY <2>3, <2>7
  <2> QED
    BY <2>3, <2>6, <2>7, <2>8
<1>4. \A k \in Slots : c2[k] = SlotIn(s.slots[k])
  <2> SUFFICES ASSUME NEW k \in Slots PROVE c2[k] = SlotIn(s.slots[k])
    OBVIOUS
  <2>1. PICK w : w = s.slots[k]
    OBVIOUS
  <2>2. StoredValue(w) /\ (w[1] = "path" => w[2] \in DOMAIN s.assets)
    BY <2>1 DEF SiteInv, Complete
  <2>3. ExportSlot(s, w) = SlotIn(w)
    BY <2>2 DEF ExportSlot, SlotIn
  <2>4. SlotIn(w) # Absent
    <3>1. Absent[1] = "absent" /\ <<"file", w[2]>>[1] = "file"
      BY DEF Absent
    <3>2. w[1] # "absent"
      BY <2>2 DEF StoredValue
    <3> QED
      BY <3>1, <3>2 DEF SlotIn
  <2>5. c[k] = SlotIn(w)
    BY <2>1, <2>3
  <2> HIDE DEF c
  <2> QED
    BY <2>1, <2>4, <2>5
<1>5. r2 = s.role
  BY BrandingAssumption DEF SiteInv
<1>6. PICK fa, as : fa = fonts.families /\ as = fonts.assets
  OBVIOUS
<1>7. raw = [format |-> 1, extra |-> "none", section |-> "none", content |-> c, role |-> s.role,
             services |-> v, families |-> fa, assets |-> as]
  BY <1>6
<1>8. ThemeBundle(b)
  BY ExportIsBundle
<1> HIDE DEF fonts, c, v, raw, c2, r2, b
<1>9. b = [format |-> 1, extra |-> "none", section |-> "none", content |-> c2, role |-> r2,
           services |-> v, families |-> fa, assets |-> as]
  BY ONLY <1>1, <1>7
<1>10. /\ b.format = 1 /\ b.extra = "none" /\ b.section = "none" /\ b.content = c2 /\ b.role = r2
       /\ b.services = v /\ b.families = fa /\ b.assets = as
  BY ONLY <1>9
<1>11. Describes(b, s)
  BY <1>2, <1>3, <1>4, <1>5, <1>6, <1>8, <1>10 DEF Describes
<1> QED
  BY <1>11 DEF b

-------------------------------------------------------------------------------
(* Reading it back *)

\* A file in which every face has a weight is read as it is.
LEMMA WeighedStays ==
  ASSUME NEW b, Weighed(b)
  PROVE  ThemeBundleFromJson(b) = b
<1> DEFINE q == [i \in DOMAIN b.families |-> WeighedFamily(b.families[i])]
<1>1. ThemeBundleFromJson(b) = [b EXCEPT !.families = q]
  BY DEF ThemeBundleFromJson, WeighedFamily, WeighedFace
<1>2. /\ Listed(b.families)
      /\ \A f \in ToSet(b.families) : BundleFamily(f) /\ \A c \in ToSet(f.faces) : c.weight \in Weights
      /\ b = [format |-> b.format, extra |-> b.extra, section |-> b.section, content |-> b.content,
              role |-> b.role, services |-> b.services, families |-> b.families, assets |-> b.assets]
  BY DEF Weighed, ThemeBundle, FontLists
<1>3. ASSUME NEW f \in ToSet(b.families) PROVE WeighedFamily(f) = f
  <2>1. /\ f = [family |-> f.family, kind |-> f.kind, valid |-> f.valid, service |-> f.service, faces |-> f.faces]
        /\ Listed(f.faces)
        /\ \A c \in ToSet(f.faces) : c = [weight |-> c.weight, file |-> c.file] /\ c.weight \in Weights
    BY <1>2 DEF BundleFamily
  <2>2. PICK q2 : q2 = f.faces
    OBVIOUS
  <2>3. ASSUME NEW c \in ToSet(q2) PROVE WeighedFace(c) = c
    <3>1. c = [weight |-> c.weight, file |-> c.file] /\ c.weight # 0
      BY <2>1, <2>2, BrandingAssumption
    <3>2. WeighedFace(c) = [c EXCEPT !.weight = c.weight]
      BY <3>1 DEF WeighedFace
    <3> QED
      BY ONLY <3>1, <3>2
  <2>4. q2 = [j \in DOMAIN q2 |-> q2[j]] /\ \A j \in DOMAIN q2 : q2[j] \in ToSet(q2)
    BY <2>1, <2>2, ListedDomain DEF ToSet
  <2>5. [j \in DOMAIN q2 |-> WeighedFace(q2[j])] = q2
    BY <2>3, <2>4
  <2>6. WeighedFamily(f) = [f EXCEPT !.faces = q2]
    BY <2>2, <2>5 DEF WeighedFamily
  <2> QED
    BY ONLY <2>1, <2>2, <2>6
<1>4. PICK l : l = b.families
  OBVIOUS
<1>5. l = [i \in DOMAIN l |-> l[i]] /\ \A i \in DOMAIN l : l[i] \in ToSet(l)
  BY <1>2, <1>4, ListedDomain DEF ToSet
<1>6. q = l
  BY <1>3, <1>4, <1>5
<1> HIDE DEF q
<1>7. [b EXCEPT !.families = l] = b
  BY ONLY <1>2, <1>4
<1> QED
  BY <1>1, <1>6, <1>7

\* Every weight in an exported file is one.
LEMMA DescribedWeighed ==
  ASSUME NEW s, SiteInv(s), Exportable(s), NEW b, Describes(b, s)
  PROVE  Weighed(b)
<1> SUFFICES ASSUME NEW g \in ToSet(b.families), NEW c \in ToSet(g.faces) PROVE c.weight \in Weights
  BY DEF Weighed, Describes
<1>1. PICK order : order = AllFonts(s)
  OBVIOUS
<1>2. /\ Listed(order) /\ ToSet(order) = DOMAIN s.fonts
      /\ \A f \in DOMAIN s.fonts : FontFiles(s.fonts[f].faces)
  BY <1>1, FontsListed
<1>3. InTheme(b.families, s.fonts, order, Len(order), b.assets)
  BY <1>1 DEF Describes
<1>4. DOMAIN order = 1 .. Len(order) /\ DOMAIN b.families = 1 .. Len(order)
  BY <1>2, <1>3, ListedDomain DEF InTheme
<1>5. PICK j \in 1 .. Len(order) : g = b.families[j]
  BY <1>4 DEF ToSet
<1>6. PICK faces : faces = s.fonts[order[j]].faces
  OBVIOUS
<1>7. FontFiles(faces)
  BY <1>2, <1>4, <1>6 DEF ToSet
<1>8. InFile(g.faces, FacesForFont(faces), Len(faces), b.assets)
  BY <1>3, <1>5, <1>6 DEF InTheme, ThemeFamily
<1>9. DOMAIN g.faces = 1 .. Len(faces)
  BY <1>8, ListedDomain DEF InFile
<1>10. PICK i \in 1 .. Len(faces) : c = g.faces[i]
  BY <1>9 DEF ToSet
<1>11. c.weight = FacesForFont(faces)[i].weight
  <2>1. PICK q, w : q = g.faces /\ w = FacesForFont(faces)[i].weight
    OBVIOUS
  <2>2. c = [weight |-> w, file |-> c.file]
    BY <1>8, <1>10, <2>1 DEF InFile
  <2> QED
    BY ONLY <2>1, <2>2
<1>12. FacesForFont(faces)[i] \in Face
  BY <1>7, SortedFonts
<1> QED
  BY <1>11, <1>12 DEF Face

\* Every family of an exported file passes.
LEMMA DescribedPasses ==
  ASSUME NEW s, SiteInv(s), Exportable(s), Complete(s), NEW b, Describes(b, s)
  PROVE  /\ Listed(b.families)
         /\ \A j \in 1 .. Len(b.families) : Passable(b, s.services, b.families[j])
         /\ \A i, j \in 1 .. Len(b.families) : b.families[i].family = b.families[j].family => i = j
<1>1. PICK order, n : order = AllFonts(s) /\ n = Len(AllFonts(s))
  OBVIOUS
<1>2. /\ Listed(order) /\ Once(order) /\ ToSet(order) = DOMAIN s.fonts /\ n = Len(order)
      /\ \A f \in DOMAIN s.fonts : FontFiles(s.fonts[f].faces)
  BY <1>1, FontsListed
<1>3. InTheme(b.families, s.fonts, order, n, b.assets)
  BY <1>1 DEF Describes
<1>4. Listed(b.families) /\ Len(b.families) = n
  BY <1>3 DEF InTheme
<1>5. \A j \in 1 .. n : order[j] \in DOMAIN s.fonts
  BY <1>2, ListedDomain DEF ToSet
<1>6. ASSUME NEW j \in 1 .. n PROVE b.families[j].family = order[j] /\ Passable(b, s.services, b.families[j])
  <2>1. PICK g, f, font : g = b.families[j] /\ f = order[j] /\ font = s.fonts[f]
    OBVIOUS
  <2>2. ThemeFamily(g, f, font, b.assets)
    BY <1>3, <2>1 DEF InTheme
  <2>3. PICK v : v = IF font.kind = "cdn" THEN font.service ELSE NoService
    OBVIOUS
  <2>4. g = [family |-> f, kind |-> font.kind, valid |-> TRUE, faces |-> g.faces, service |-> v]
    BY <2>2, <2>3 DEF ThemeFamily
  <2>5. /\ g = [family |-> g.family, kind |-> g.kind, valid |-> TRUE, service |-> g.service, faces |-> g.faces]
        /\ g.family = f /\ g.kind = font.kind /\ g.service = v
    BY ONLY <2>4
  <2>6. f \in DOMAIN s.fonts /\ Served(font, s.services)
    BY <1>5, <2>1 DEF SiteInv
  <2>7. /\ font.kind = "cdn" => font.service # NoService
        /\ font.kind = "uploaded" => font.faces # <<>>
    BY <2>1, <2>6 DEF Complete
  <2>8. g.kind = "cdn" => g.service \in s.services
    BY <2>3, <2>5, <2>6, <2>7 DEF Served
  <2>9. FontFiles(font.faces)
    BY <1>2, <2>1, <2>6
  <2>10. InFile(g.faces, FacesForFont(font.faces), Len(font.faces), b.assets)
    BY <2>2 DEF ThemeFamily
  <2>11. Listed(g.faces) /\ \A c \in ToSet(g.faces) : UsableFace(b, c)
    <3>1. Listed(g.faces) /\ DOMAIN g.faces = 1 .. Len(font.faces)
      BY <2>10, ListedDomain DEF InFile
    <3> QED
      BY <2>10, <3>1 DEF InFile, UsableFace, ToSet
  <2>12. g.kind = "uploaded" => g.faces # <<>>
    <3> SUFFICES ASSUME g.kind = "uploaded", g.faces = <<>> PROVE FALSE
      OBVIOUS
    <3>1. font.faces \in Seq(Face) /\ font.faces # <<>>
      BY <2>5, <2>7, <2>9 DEF FontFiles
    <3>2. Len(font.faces) = 0
      BY <2>10 DEF InFile
    <3> QED
      BY <3>1, <3>2
  <2>13. Passable(b, s.services, g)
    BY <2>5, <2>8, <2>11, <2>12 DEF Passable
  <2> QED
    BY <2>1, <2>5, <2>13
<1> QED
  BY <1>2, <1>4, <1>6 DEF Once

\* Nothing of an exported file is left out.
LEMMA DescribedWhole ==
  ASSUME NEW s, SiteInv(s), Exportable(s), Complete(s), NEW b, Describes(b, s)
  PROVE  /\ PruneUnusableBundleItems(b).problems = FALSE
         /\ PruneUnusableBundleItems(b).bundle = b
<1> DEFINE src == PruneSources(b.services)
           fam == PruneFamilies(b, src.seen)
           c == [k \in Slots |-> PruneSlot(b, k)]
           r == IF IsValidThemeTokenValue(b.role) THEN b.role ELSE "absent"
           pruned == PruneUnusableBundleItems(b)
           p == pruned.bundle
<1>1. pruned = [bundle |-> [b EXCEPT !.content = c, !.role = r, !.services = src.kept, !.families = fam.kept],
                problems |-> src.problems \/ fam.problems \/ c # b.content \/ r # b.role]
  BY DEF PruneUnusableBundleItems
<1>2. Weighed(b)
  BY DescribedWeighed
<1>3. /\ b = [format |-> b.format, extra |-> b.extra, section |-> b.section, content |-> b.content,
              role |-> b.role, services |-> b.services, families |-> b.families, assets |-> b.assets]
      /\ b.content = [k \in Slots |-> b.content[k]]
  BY DEF Describes, ThemeBundle
<1>4. src.problems = FALSE /\ src.seen = s.services
  BY ServicesPass DEF Describes
<1>5. fam.problems = FALSE
  <2>1. PICK keys : keys = src.seen
    OBVIOUS
  <2>2. /\ Listed(b.families)
        /\ \A j \in 1 .. Len(b.families) : Passable(b, keys, b.families[j])
        /\ \A i, j \in 1 .. Len(b.families) : b.families[i].family = b.families[j].family => i = j
    BY <1>4, <2>1, DescribedPasses
  <2> QED
    BY <2>1, <2>2, FamiliesPass
<1>6. ASSUME NEW k \in Slots PROVE PruneSlot(b, k) = b.content[k]
  <2>1. PICK v, w : v = b.content[k] /\ w = s.slots[k]
    OBVIOUS
  <2>2. v = SlotIn(w)
    BY <2>1 DEF Describes
  <2>3. StoredValue(w) /\ (k # Logo => ValidateSlotValue(w)) /\ (w[1] = "path" => w[2] \in DOMAIN s.assets)
    BY <2>1 DEF SiteInv, Complete
  <2>4. CASE w[1] = "path"
    <3>1. v = <<"file", w[2]>>
      BY <2>2, <2>4 DEF SlotIn
    <3>2. v[1] = "file" /\ v[2] = w[2] /\ Junk[1] = "junk"
      BY <3>1 DEF Junk
    <3>3. w[2] \in DOMAIN ExportPictures(s)
      BY <2>1, <2>3, <2>4, PicturesWritten
    <3>4. v[2] \in DOMAIN b.assets
      BY <3>2, <3>3 DEF Describes, AddsFonts
    <3>5. ValidateSlotValue(v)
      BY <3>2 DEF ValidateSlotValue
    <3> QED
      BY <2>1, <3>4, <3>5 DEF PruneSlot
  <2>5. CASE w[1] # "path"
    <3>1. v = w /\ w[1] # "file"
      BY <2>2, <2>3, <2>5 DEF SlotIn, StoredValue
    <3> QED
      BY <2>1, <2>3, <3>1 DEF PruneSlot, IsBundleAssetReference
  <2> QED
    BY <2>4, <2>5
<1>7. c = b.content
  BY <1>3, <1>6
<1>8. r = b.role
  BY BrandingAssumption DEF Describes, SiteInv, IsValidThemeTokenValue
<1> HIDE DEF c, r, src, fam
<1>9. pruned.problems = FALSE
  <2>1. pruned.problems = (src.problems \/ fam.problems \/ c # b.content \/ r # b.role)
    BY ONLY <1>1
  <2> QED
    BY <1>4, <1>5, <1>7, <1>8, <2>1
<1>10. p = [b EXCEPT !.content = c, !.role = r, !.services = src.kept, !.families = fam.kept]
  BY ONLY <1>1 DEF p
<1>11. p.services = src.kept /\ p.families = fam.kept
  BY <1>2, PrunedFields DEF Weighed, p, pruned, src, fam
<1>12. /\ Len(p.services) = Len(b.services) /\ \A i \in 1 .. Len(b.services) : p.services[i] = b.services[i]
       /\ Len(p.families) = Len(b.families) /\ \A i \in 1 .. Len(b.families) : p.families[i] = b.families[i]
  BY <1>2, <1>9, QuietPruning DEF Untouched
<1>13. Listed(p.services) /\ Listed(p.families)
  <2>1. Storable(p)
    BY <1>2, PrunedStorable
  <2>2. p.services \in Seq(FontService) /\ Listed(p.families)
    BY <2>1 DEF Storable
  <2> HIDE DEF p
  <2>3. p.services = [i \in 1 .. Len(p.services) |-> p.services[i]] /\ Len(p.services) \in Nat
    BY <2>2
  <2> QED
    BY <2>2, <2>3, MakeListed
<1>14. Listed(b.services) /\ Listed(b.families)
  BY DescribedPasses DEF Describes
<1> HIDE DEF p, pruned
<1>15. p.services = b.services
  BY <1>12, <1>13, <1>14, ListedSame
<1>16. p.families = b.families
  BY <1>12, <1>13, <1>14, ListedSame
<1>17. p = [b EXCEPT !.content = b.content, !.role = b.role, !.services = b.services, !.families = b.families]
  BY <1>7, <1>8, <1>10, <1>11, <1>15, <1>16
<1>18. p = b
  BY ONLY <1>3, <1>17
<1> QED
  BY <1>9, <1>18 DEF p, pruned

\* An exported file is imported strictly, without a report.
LEMMA DescribedAccepted ==
  ASSUME NEW s, SiteInv(s), Exportable(s), Complete(s), NEW b, b = ExportThemeBundle(s), Describes(b, s), NEW onto
  PROVE  LET again == ImportThemeBundleJson(onto, b, FALSE, TRUE) IN
         again.ok /\ ~again.reported /\ again.site = ApplyBundle(onto, b, FALSE)
<1> DEFINE again == ImportThemeBundleJson(onto, b, FALSE, TRUE)
           accepted == /\ ThemeBundleFromZip(b) /\ MigrateBundleJson(b) /\ ~FindFatalBundleProblem(b)
                       /\ b.extra # "unknown" /\ ~PruneUnusableBundleItems(b).problems /\ b.section # "refuses"
<1>1. ThemeBundleFromJson(b) = b
  BY DescribedWeighed, WeighedStays
<1>2. PICK pr : pr = PruneUnusableBundleItems(b)
  OBVIOUS
<1>3. pr.problems = FALSE /\ pr.bundle = b
  BY <1>2, DescribedWhole
<1>4. b.format = 1 /\ b.extra = "none" /\ b.section = "none"
  BY DEF Describes
<1>5. Cardinality(DOMAIN b.assets) <= MaxAssets
  BY DEF Exportable
<1>6. \A n \in DOMAIN b.assets : b.assets[n] \in Formats
  <2>1. PICK pics : pics = ExportPictures(s)
    OBVIOUS
  <2>2. pics = [n \in DOMAIN pics |-> "image"]
    BY <2>1, PicturesWritten
  <2>3. \A n \in DOMAIN b.assets : n \in DOMAIN pics \/ b.assets[n] = "font"
    BY <2>1 DEF Describes, AddsFonts
  <2>4. \A n \in DOMAIN pics : b.assets[n] = pics[n] /\ pics[n] = "image"
    BY <2>1, <2>2 DEF Describes, AddsFonts
  <2> QED
    BY <2>3, <2>4 DEF Formats
<1>7. ThemeBundleFromZip(b) /\ MigrateBundleJson(b) /\ ~FindFatalBundleProblem(b)
  <2>1. PICK C : C = Cardinality(DOMAIN b.assets)
    OBVIOUS
  <2>2. IsFiniteSet(DOMAIN b.assets)
    BY DEF Describes, AddsFonts
  <2>3. C \in Nat /\ MaxAssets \in Nat /\ C <= MaxAssets
    BY <1>5, <2>1, <2>2, BrandingAssumption, FS_CardinalityType
  <2>4. ~(C > MaxAssets)
    BY <2>3
  <2>5. \A n \in DOMAIN b.assets :
          ~(FontFormatFromMagicBytes(b.assets[n]) = "" /\ ImageTypeFromMagicBytes(b.assets[n]) = "")
    BY <1>6 DEF Formats, FontFormatFromMagicBytes, ImageTypeFromMagicBytes
  <2>6. ~FindFatalBundleProblem(b)
    BY <1>4, <2>1, <2>4, <2>5 DEF FindFatalBundleProblem
  <2> QED
    BY <1>4, <1>5, <2>6 DEF ThemeBundleFromZip, MigrateBundleJson
<1>8. again = [ok |-> accepted,
               reported |-> accepted /\ (pr.problems \/ b.section = "refuses" \/ b.extra = "unknown" \/ b.section = "unknown"),
               site |-> IF accepted THEN ApplyBundle(onto, pr.bundle, FALSE) ELSE onto]
  BY <1>1, <1>2 DEF ImportThemeBundleJson
<1>9. accepted
  BY <1>2, <1>3, <1>4, <1>7
<1> HIDE DEF accepted, again
<1>10. again = [ok |-> TRUE, reported |-> FALSE, site |-> ApplyBundle(onto, b, FALSE)]
  BY <1>3, <1>4, <1>8, <1>9
<1>11. again.ok /\ ~again.reported /\ again.site = ApplyBundle(onto, b, FALSE)
  BY ONLY <1>10
<1> QED
  BY <1>11 DEF again

\* The faces stored are the faces that were written.
LEMMA StoredBack ==
  ASSUME NEW b, NEW faces, Listed(faces), NEW q, InFile(q, faces, Len(faces), b.assets),
         \A i \in 1 .. Len(faces) : faces[i] \in Face /\ faces[i].bytes = "font"
  PROVE  StoredFaces(b, q) = faces
<1> DEFINE n == Len(faces)
           st == [j \in DOMAIN q |-> [weight |-> q[j].weight, bytes |-> b.assets[q[j].file]]]
<1>1. Listed(q) /\ DOMAIN q = 1 .. n /\ DOMAIN faces = 1 .. n
  BY ListedDomain DEF InFile
<1>2. {j \in DOMAIN q : q[j].file \in DOMAIN b.assets} = DOMAIN q
  BY <1>1 DEF InFile
<1>3. ChosenAt(q, {j \in DOMAIN q : q[j].file \in DOMAIN b.assets}) = q
  BY <1>1, <1>2, AllChosen
<1>4. StoredFaces(b, q) = st
  BY <1>3 DEF StoredFaces
<1>5. ASSUME NEW j \in 1 .. n PROVE st[j] = faces[j]
  <2>1. PICK c, d : c = q[j] /\ d = faces[j]
    OBVIOUS
  <2>2. c = [weight |-> d.weight, file |-> c.file] /\ b.assets[c.file] = "font"
    BY <2>1 DEF InFile
  <2>3. d = [weight |-> d.weight, bytes |-> d.bytes] /\ d.bytes = "font"
    BY <2>1 DEF Face
  <2>4. st[j] = [weight |-> c.weight, bytes |-> b.assets[c.file]]
    BY <1>1, <2>1
  <2>5. c.weight = d.weight
    BY ONLY <2>2
  <2> QED
    BY ONLY <2>1, <2>2, <2>3, <2>4, <2>5
<1>6. st = [j \in 1 .. n |-> st[j]] /\ faces = [j \in 1 .. n |-> faces[j]]
  BY <1>1, ListedDomain
<1> HIDE DEF st
<1> QED
  BY <1>4, <1>5, <1>6

\* t is the look s, with its files sorted and its families numbered.
SameSite(t, s) ==
  /\ t.slots = s.slots /\ t.role = s.role /\ t.services = s.services
  /\ t.assets = ExportPictures(s) /\ DOMAIN t.fonts = DOMAIN s.fonts
  /\ \A f \in DOMAIN s.fonts :
       /\ t.fonts[f].kind = s.fonts[f].kind /\ t.fonts[f].service = s.fonts[f].service
       /\ t.fonts[f].faces = FacesForFont(s.fonts[f].faces)
  /\ \A j \in 1 .. Len(AllFonts(s)) : t.fonts[AllFonts(s)[j]].ordinal = 10 * j

\* The pictures of an exported file are those of the look.
LEMMA PicturesBack ==
  ASSUME NEW s, SiteInv(s), NEW b, Describes(b, s)
  PROVE  PicturesOf(b) = DOMAIN ExportPictures(s)
<1>1. PICK pics : pics = ExportPictures(s)
  OBVIOUS
<1>2. pics = [n \in DOMAIN pics |-> "image"]
  BY <1>1, PicturesWritten
<1>3. /\ DOMAIN pics \subseteq DOMAIN b.assets /\ \A n \in DOMAIN pics : b.assets[n] = "image"
      /\ \A n \in DOMAIN b.assets \ DOMAIN pics : b.assets[n] = "font"
  BY <1>1, <1>2 DEF Describes, AddsFonts
<1> QED
  BY <1>1, <1>3 DEF PicturesOf, FontFormatFromMagicBytes

\* The row a family gets back.
LEMMA RowBack ==
  ASSUME NEW s, SiteInv(s), Exportable(s), NEW b, Describes(b, s), NEW j \in 1 .. Len(AllFonts(s)),
         NEW row, row = ImportedRow(b, b.families[j], j), NEW font, font = s.fonts[AllFonts(s)[j]]
  PROVE  /\ row.kind = font.kind /\ row.service = font.service /\ row.ordinal = 10 * j
         /\ row.faces = FacesForFont(font.faces)
<1>1. PICK order, f, g : order = AllFonts(s) /\ f = order[j] /\ g = b.families[j]
  OBVIOUS
<1>2. /\ Listed(order) /\ ToSet(order) = DOMAIN s.fonts
      /\ \A h \in DOMAIN s.fonts : FontFiles(s.fonts[h].faces)
  BY <1>1, FontsListed
<1>3. f \in DOMAIN s.fonts
  BY <1>1, <1>2, ListedDomain DEF ToSet
<1>4. ThemeFamily(g, f, font, b.assets)
  BY <1>1 DEF Describes, InTheme
<1>5. PICK v : v = IF font.kind = "cdn" THEN font.service ELSE NoService
  OBVIOUS
<1>6. g = [family |-> f, kind |-> font.kind, valid |-> TRUE, faces |-> g.faces, service |-> v]
  BY <1>4, <1>5 DEF ThemeFamily
<1>7. g.kind = font.kind /\ g.service = v
  BY ONLY <1>6
<1>8. font.kind # "cdn" => font.service = NoService
  BY <1>1, <1>3 DEF SiteInv, Served
<1>9. PICK q, given : q = FacesForFont(font.faces) /\ given = font.faces
  OBVIOUS
<1>10. FontFiles(given)
  BY <1>1, <1>2, <1>3, <1>9
<1>11. /\ Listed(q) /\ Len(q) = Len(given)
       /\ \A i \in 1 .. Len(q) : q[i] \in Face /\ q[i].bytes = "font"
  BY <1>9, <1>10, SortedFonts
<1>12. InFile(g.faces, q, Len(q), b.assets)
  BY <1>4, <1>9, <1>11 DEF ThemeFamily
<1>13. PICK st : st = StoredFaces(b, g.faces)
  OBVIOUS
<1>14. st = q
  BY <1>11, <1>12, <1>13, StoredBack
<1>15. PICK w : w = IF g.kind = "cdn" THEN g.service ELSE NoService
  OBVIOUS
<1>16. row = [kind |-> g.kind, ordinal |-> 10 * j, service |-> w, faces |-> st]
  BY <1>1, <1>13, <1>15 DEF ImportedRow
<1>17. row.kind = g.kind /\ row.ordinal = 10 * j /\ row.service = w /\ row.faces = st
  BY ONLY <1>16
<1>18. w = font.service
  BY <1>5, <1>7, <1>8, <1>15
<1> QED
  BY <1>7, <1>9, <1>14, <1>17, <1>18

\* Replacing a look by an exported file gives the look that was exported.
LEMMA LookBack ==
  ASSUME NEW s, SiteInv(s), Exportable(s), Complete(s), NEW b, Describes(b, s), NEW onto, SiteInv(onto)
  PROVE  SiteInv(ApplyBundle(onto, b, FALSE)) /\ SameSite(ApplyBundle(onto, b, FALSE), s)
<1> DEFINE t == ApplyBundle(onto, b, FALSE)
           list == b.families
<1>1. PICK merge \in BOOLEAN : merge = FALSE
  OBVIOUS
<1>2. Weighed(b) /\ PruneUnusableBundleItems(b).bundle = b
  BY DescribedWeighed, DescribedWhole
<1>3. Storable(b)
  BY <1>2, PrunedStorable
<1>4. PICK pics : pics = ExportPictures(s)
  OBVIOUS
<1>5. pics = [n \in DOMAIN pics |-> "image"] /\ PicturesOf(b) = DOMAIN pics
  BY <1>4, PicturesWritten, PicturesBack
<1>6. \A n \in DOMAIN b.assets : b.assets[n] \in Formats
  <2>1. \A n \in DOMAIN b.assets : n \in DOMAIN pics \/ b.assets[n] = "font"
    BY <1>4 DEF Describes, AddsFonts
  <2>2. \A n \in DOMAIN pics : b.assets[n] = pics[n] /\ pics[n] = "image"
    BY <1>4, <1>5 DEF Describes, AddsFonts
  <2> QED
    BY <2>1, <2>2 DEF Formats
<1>7. SiteInv(t)
  <2>1. SiteInv(ApplyBundle(onto, b, merge))
    BY <1>3, <1>6, ApplyKeepsSite
  <2> QED
    BY <1>1, <2>1
<1>8. Applied(t, onto, b, FALSE)
  <2>1. Applied(ApplyBundle(onto, b, merge), onto, b, merge)
    BY AppliedFields
  <2> QED
    BY <1>1, <2>1
<1> HIDE DEF t
<1>9. /\ t.slots = [k \in Slots |-> AppliedSlot(onto, b, FALSE, k)] /\ t.role = AppliedRole(onto, b, FALSE)
      /\ t.services = KeysOf(b) /\ t.assets = [n \in PicturesOf(b) |-> "image"]
  BY <1>8 DEF Applied
<1>10. t.assets = pics
  BY <1>5, <1>9
<1>11. t.services = s.services
  <2>1. DOMAIN b.services = 1 .. Len(b.services)
    BY ListedDomain DEF Describes
  <2> QED
    BY <1>9, <2>1 DEF KeysOf, Describes
<1>12. t.role = s.role
  BY <1>9, BrandingAssumption DEF AppliedRole, Describes, SiteInv
<1>13. ASSUME NEW k \in Slots PROVE AppliedSlot(onto, b, FALSE, k) = s.slots[k]
  <2>1. PICK v, w : v = b.content[k] /\ w = s.slots[k]
    OBVIOUS
  <2>2. v = SlotIn(w) /\ w = <<w[1], w[2]>> /\ w[1] # "file" /\ w[1] # "absent"
    BY <2>1 DEF Describes, SiteInv, StoredValue
  <2>3. Absent[1] = "absent"
    BY DEF Absent
  <2>4. CASE w[1] = "path"
    <3>1. v = <<"file", w[2]>>
      BY <2>2, <2>4 DEF SlotIn
    <3>2. v[1] = "file" /\ v[2] = w[2]
      BY <3>1
    <3>3. AppliedSlot(onto, b, FALSE, k) = <<"path", w[2]>>
      BY <2>1, <2>3, <3>2 DEF AppliedSlot, IsBundleAssetReference
    <3> QED
      BY <2>1, <2>2, <2>4, <3>3
  <2>5. CASE w[1] # "path"
    <3>1. v = w /\ v[1] # "file" /\ v # Absent
      BY <2>2, <2>3, <2>5 DEF SlotIn
    <3> QED
      BY <2>1, <3>1 DEF AppliedSlot, IsBundleAssetReference
  <2> QED
    BY <2>4, <2>5
<1>14. t.slots = s.slots
  <2>1. s.slots = [k \in Slots |-> s.slots[k]]
    BY DEF SiteInv
  <2> QED
    BY <1>9, <1>13, <2>1
<1>15. t.fonts = [f \in NamesOf(list) |-> ImportedRow(b, list[LastOf(list, f)], LastOf(list, f))]
  <2>1. t.fonts = ReplacedRows(b)
    BY <1>3, ReplacedLook DEF t
  <2> QED
    BY ONLY <2>1 DEF list, ReplacedRows
<1>16. PICK order, n : order = AllFonts(s) /\ n = Len(AllFonts(s))
  OBVIOUS
<1>17. /\ Listed(order) /\ Once(order) /\ ToSet(order) = DOMAIN s.fonts /\ n = Len(order)
       /\ DOMAIN order = 1 .. n
  BY <1>16, FontsListed, ListedDomain
<1>18. Listed(list) /\ DOMAIN list = 1 .. n
  BY <1>16, ListedDomain DEF Describes, InTheme
<1>19. ASSUME NEW j \in 1 .. n PROVE list[j].family = order[j]
  <2>1. PICK g, f, font : g = list[j] /\ f = order[j] /\ font = s.fonts[f]
    OBVIOUS
  <2>2. ThemeFamily(g, f, font, b.assets)
    BY <1>16, <2>1 DEF Describes, InTheme
  <2>3. PICK v : v = IF font.kind = "cdn" THEN font.service ELSE NoService
    OBVIOUS
  <2>4. g = [family |-> f, kind |-> font.kind, valid |-> TRUE, faces |-> g.faces, service |-> v]
    BY <2>2, <2>3 DEF ThemeFamily
  <2>5. g.family = f
    BY ONLY <2>4
  <2> QED
    BY <2>1, <2>5
<1>20. NamesOf(list) = DOMAIN s.fonts
  BY <1>17, <1>18, <1>19 DEF NamesOf, ToSet
<1>21. ASSUME NEW j \in 1 .. n PROVE order[j] \in NamesOf(list) /\ LastOf(list, order[j]) = j
  <2>1. order[j] \in NamesOf(list)
    BY <1>18, <1>19 DEF NamesOf
  <2>2. PICK f, m : f = order[j] /\ m = LastOf(list, f)
    OBVIOUS
  <2>3. m \in 1 .. n /\ list[m].family = f
    BY <1>18, <2>1, <2>2, LastOfIs
  <2>4. order[m] = order[j]
    BY <1>19, <2>2, <2>3
  <2> QED
    BY <1>17, <2>1, <2>2, <2>3, <2>4 DEF Once
<1> HIDE DEF list
<1>22. ASSUME NEW j \in 1 .. n
       PROVE  /\ order[j] \in DOMAIN t.fonts
              /\ t.fonts[order[j]].kind = s.fonts[order[j]].kind
              /\ t.fonts[order[j]].service = s.fonts[order[j]].service
              /\ t.fonts[order[j]].ordinal = 10 * j
              /\ t.fonts[order[j]].faces = FacesForFont(s.fonts[order[j]].faces)
  <2>1. PICK row, font : row = ImportedRow(b, b.families[j], j) /\ font = s.fonts[order[j]]
    OBVIOUS
  <2>2. t.fonts[order[j]] = row /\ order[j] \in DOMAIN t.fonts
    BY <1>15, <1>21, <2>1 DEF list
  <2>3. /\ row.kind = font.kind /\ row.service = font.service /\ row.ordinal = 10 * j
        /\ row.faces = FacesForFont(font.faces)
    BY <1>16, <2>1, RowBack
  <2> QED
    BY <2>1, <2>2, <2>3
<1>23. DOMAIN t.fonts = DOMAIN s.fonts
  BY <1>15, <1>20
<1>24. \A f \in DOMAIN s.fonts : \E j \in 1 .. n : f = order[j]
  BY <1>17 DEF ToSet
<1>25. SameSite(t, s)
  BY <1>4, <1>10, <1>11, <1>12, <1>14, <1>16, <1>22, <1>23, <1>24 DEF SameSite
<1> QED
  BY <1>7, <1>25 DEF t

-------------------------------------------------------------------------------
(* There and back *)

\* What imported families show: kinds, services and sorted files are the same.
SameFonts(t, s) ==
  /\ DOMAIN t.fonts = DOMAIN s.fonts
  /\ \A f \in DOMAIN s.fonts :
       /\ t.fonts[f].kind = s.fonts[f].kind /\ t.fonts[f].service = s.fonts[f].service
       /\ FacesForFont(t.fonts[f].faces) = FacesForFont(s.fonts[f].faces)

\* The numbers restore the order.
LEMMA OrderBack ==
  ASSUME NEW s, SiteInv(s), Exportable(s), NEW t, SiteInv(t), SameSite(t, s)
  PROVE  AllFonts(t) = AllFonts(s)
<1> DEFINE D == DOMAIN t.fonts
           E == {p \in D \X D : Earlier(t, p[1], p[2])}
<1>1. PICK order, n : order = AllFonts(s) /\ n = Len(AllFonts(s))
  OBVIOUS
<1>2. /\ Listed(order) /\ Once(order) /\ ToSet(order) = D /\ n = Len(order)
  BY <1>1, FontsListed DEF SameSite
<1>3. AllFonts(t) = Sorted(D, E)
  BY DEF AllFonts
<1>4. \A f, g \in D : <<f, g>> \in E <=> Earlier(t, f, g)
  OBVIOUS
<1> HIDE DEF D, E
<1>5. n \in Nat /\ order = [i \in 1 .. n |-> order[i]] /\ \A i \in 1 .. n : order[i] \in D
  BY <1>2, ListedDomain DEF ToSet
<1>6. order \in [1 .. n -> D] /\ \A x \in D : \E i \in 1 .. n : order[i] = x
  BY <1>2, <1>5 DEF ToSet
<1>7. \A i \in 1 .. n : t.fonts[order[i]].ordinal = 10 * i
  BY <1>1 DEF SameSite
<1>8. RowsFit(t)
  BY DEF SiteInv
<1>9. ASSUME NEW i \in 1 .. n, NEW j \in 1 .. n PROVE <<order[i], order[j]>> \in E <=> i < j
  <2>1. PICK f \in D, g \in D : f = order[i] /\ g = order[j]
    BY <1>5
  <2>2. ASSUME t.fonts[f].ordinal = t.fonts[g].ordinal, NEW k \in DOMAIN t.rows, NEW m \in DOMAIN t.rows,
               k < m, t.rows[k] = f, t.rows[m] = g
        PROVE  FALSE
    <3>1. i = j
      BY <1>5, <1>7, <2>1, <2>2
    <3>2. k \in 1 .. Len(t.rows) /\ m \in 1 .. Len(t.rows) /\ Len(t.rows) \in Nat
      BY <1>8, ListedDomain DEF RowsFit
    <3>3. k = m
      BY <1>8, <2>1, <2>2, <3>1, <3>2 DEF RowsFit, Once
    <3> QED
      BY <2>2, <3>2, <3>3
  <2>3. Earlier(t, f, g) <=> t.fonts[f].ordinal < t.fonts[g].ordinal
    BY <2>2 DEF Earlier
  <2>4. t.fonts[f].ordinal < t.fonts[g].ordinal <=> i < j
    BY <1>5, <1>7, <2>1
  <2> QED
    BY <1>4, <2>1, <2>3, <2>4
<1>10. StrictOrder(D, E)
  <2>1. ASSUME NEW x \in D PROVE <<x, x>> \notin E
    BY <1>5, <1>6, <1>9
  <2>2. ASSUME NEW x \in D, NEW y \in D, NEW z \in D, <<x, y>> \in E, <<y, z>> \in E PROVE <<x, z>> \in E
    <3>1. PICK i \in 1 .. n, j \in 1 .. n, k \in 1 .. n : order[i] = x /\ order[j] = y /\ order[k] = z
      BY <1>6
    <3>2. i < j /\ j < k
      BY <1>9, <2>2, <3>1
    <3>3. i < k
      BY <1>5, <3>2
    <3> QED
      BY <1>9, <3>1, <3>3
  <2>3. ASSUME NEW x \in D, NEW y \in D, x # y PROVE <<x, y>> \in E \/ <<y, x>> \in E
    <3>1. PICK i \in 1 .. n, j \in 1 .. n : order[i] = x /\ order[j] = y
      BY <1>6
    <3>2. i < j \/ j < i
      BY <1>5, <2>3, <3>1
    <3> QED
      BY <1>9, <3>1, <3>2
  <2> QED
    BY <2>1, <2>2, <2>3 DEF StrictOrder
<1>11. \A i, j \in 1 .. n : i < j => <<order[i], order[j]>> \in E
  BY <1>9
<1>12. Sorted(D, E) = order
  BY ONLY <1>5, <1>6, <1>10, <1>11, SortedIs
<1> QED
  BY <1>1, <1>3, <1>12

\* The same families are written.
LEMMA SameExport ==
  ASSUME NEW s, NEW t, SameFonts(t, s), NEW order, Listed(order), ToSet(order) = DOMAIN s.fonts, NEW pictures
  PROVE  ExportFamilies(t.fonts, order, pictures) = ExportFamilies(s.fonts, order, pictures)
<1> DEFINE N == Len(order)
           First == [assets |-> pictures, families |-> <<>>]
           g == CHOOSE f : ExportedUpTo(f, s.fonts, order, pictures, N)
           h == CHOOSE f : ExportedUpTo(f, t.fonts, order, pictures, N)
<1>1. ExportFamilies(s.fonts, order, pictures) = g[N] /\ ExportFamilies(t.fonts, order, pictures) = h[N]
  BY DEF ExportFamilies, ExportedUpTo
<1>2. N \in Nat /\ \A i \in 1 .. N : order[i] \in DOMAIN s.fonts
  BY ListedDomain DEF ToSet
<1> HIDE DEF N
<1>3. ExportedUpTo(g, s.fonts, order, pictures, N) /\ ExportedUpTo(h, t.fonts, order, pictures, N)
  BY <1>2, ExportedExist
<1> HIDE DEF g, h
<1>4. \A i \in 0 .. N : g[i] = IF i = 0 THEN First ELSE ExportFamily(g[i - 1], order[i], s.fonts[order[i]])
  BY <1>3 DEF ExportedUpTo
<1>5. \A i \in 0 .. N : h[i] = IF i = 0 THEN First ELSE ExportFamily(h[i - 1], order[i], t.fonts[order[i]])
  BY <1>3 DEF ExportedUpTo
<1> HIDE DEF First
<1> DEFINE T == {i \in 0 .. N : g[i] = h[i]}
<1>6. 0 \in T
  <2>1. 0 \in 0 .. N
    BY <1>2
  <2>2. g[0] = First
    BY <1>4, <2>1
  <2>3. h[0] = First
    BY <1>5, <2>1
  <2> QED
    BY <2>1, <2>2, <2>3
<1>7. ASSUME NEW i \in 1 .. N, i - 1 \in T PROVE i \in T
  <2>1. i \in 0 .. N /\ i # 0
    BY <1>2
  <2>2. PICK x, f : x = g[i - 1] /\ f = order[i]
    OBVIOUS
  <2>3. x = h[i - 1] /\ f \in DOMAIN s.fonts
    BY <1>2, <1>7, <2>2
  <2>4. PICK a, b : a = s.fonts[f] /\ b = t.fonts[f]
    OBVIOUS
  <2>5. b.kind = a.kind /\ b.service = a.service /\ FacesForFont(b.faces) = FacesForFont(a.faces)
    BY <2>3, <2>4 DEF SameFonts
  <2>6. ExportFamily(x, f, b) = ExportFamily(x, f, a)
    BY <2>5 DEF ExportFamily
  <2> QED
    BY <1>4, <1>5, <2>1, <2>2, <2>3, <2>4, <2>6
<1> HIDE DEF T
<1>8. \A i \in 0 .. N : i \in T
  BY <1>2, <1>6, <1>7, UpToBound
<1>9. N \in T
  BY <1>2, <1>8
<1> QED
  BY <1>1, <1>9 DEF T

\* The pictures are where they were.
LEMMA SamePictures ==
  ASSUME NEW s, SiteInv(s), Complete(s), NEW t, SameSite(t, s)
  PROVE  /\ ExportPictures(t) = ExportPictures(s)
         /\ \A k \in Slots : GetSiteAsset(t, t.slots[k]) = GetSiteAsset(s, s.slots[k])
         /\ \A k \in Slots : ExportSlot(t, t.slots[k]) = ExportSlot(s, s.slots[k])
<1>1. PICK pics, A, slots : pics = ExportPictures(s) /\ A = s.assets /\ slots = s.slots
  OBVIOUS
<1>2. t.assets = pics /\ t.slots = slots
  BY <1>1 DEF SameSite
<1>3. /\ pics = [n \in DOMAIN pics |-> "image"]
      /\ \A n \in DOMAIN pics : n \in DOMAIN A
      /\ \A k \in Slots : slots[k][1] = "path" /\ slots[k][2] \in DOMAIN A => slots[k][2] \in DOMAIN pics
  BY <1>1, PicturesWritten
<1>4. \A n \in DOMAIN A : A[n] = "image"
  <2>1. A = [n \in DOMAIN A |-> "image"]
    BY <1>1 DEF SiteInv
  <2> QED
    BY <2>1
<1>5. \A k \in Slots : slots[k][1] = "path" => slots[k][2] \in DOMAIN A
  BY <1>1 DEF Complete
<1> DEFINE used(B) == {n \in DOMAIN B : \E k \in Slots : slots[k] = <<"path", n>>}
<1>6. ExportPictures(t) = [n \in used(pics) |-> pics[n]]
  BY <1>2 DEF ExportPictures
<1>7. pics = [n \in used(A) |-> A[n]]
  BY <1>1 DEF ExportPictures
<1>8. used(pics) = DOMAIN pics
  <2>1. DOMAIN pics = used(A)
    BY <1>7
  <2> QED
    BY <2>1
<1> HIDE DEF used
<1>9. ExportPictures(t) = pics
  BY <1>3, <1>6, <1>8
<1>10. ASSUME NEW k \in Slots
       PROVE  GetSiteAsset(t, t.slots[k]) = GetSiteAsset(s, s.slots[k])
              /\ ExportSlot(t, t.slots[k]) = ExportSlot(s, s.slots[k])
  <2>1. PICK v : v = slots[k]
    OBVIOUS
  <2>2. v[1] = "path" => v[2] \in DOMAIN A /\ v[2] \in DOMAIN pics
    BY <1>3, <1>5, <2>1
  <2>3. v[1] = "path" => A[v[2]] = "image" /\ pics[v[2]] = "image"
    BY <1>3, <1>4, <2>2
  <2>4. GetSiteAsset(t, v) = GetSiteAsset(s, v)
    BY <1>1, <1>2, <2>2, <2>3 DEF GetSiteAsset
  <2>5. ExportSlot(t, v) = ExportSlot(s, v)
    BY <1>1, <1>2, <2>2 DEF ExportSlot
  <2> QED
    BY <1>1, <1>2, <2>1, <2>4, <2>5
<1> QED
  BY <1>1, <1>9, <1>10

\* Visitors see the same fonts.
LEMMA SameShown ==
  ASSUME NEW s, NEW t, SameFonts(t, s), AllFonts(t) = AllFonts(s),
         Listed(AllFonts(s)), ToSet(AllFonts(s)) = DOMAIN s.fonts
  PROVE  /\ [v \in {t.fonts[f].service : f \in ToSet(CdnFonts(t))} |-> BuildFontStylesheetUrl(t, v)]
            = [v \in {s.fonts[f].service : f \in ToSet(CdnFonts(s))} |-> BuildFontStylesheetUrl(s, v)]
         /\ [f \in DOMAIN t.fonts |-> GetSiteFontFaces(t, f)] = [f \in DOMAIN s.fonts |-> GetSiteFontFaces(s, f)]
<1>1. PICK all : all = AllFonts(s)
  OBVIOUS
<1> DEFINE served(u) == {i \in DOMAIN all : u.fonts[all[i]].kind = "cdn" /\ u.fonts[all[i]].service # NoService}
<1>2. CdnFonts(s) = ChosenAt(all, served(s)) /\ CdnFonts(t) = ChosenAt(all, served(t))
  BY <1>1 DEF CdnFonts
<1>3. \A i \in DOMAIN all : all[i] \in DOMAIN s.fonts
  BY <1>1 DEF ToSet
<1>4. served(t) = served(s)
  BY <1>3 DEF SameFonts
<1>5. PICK cdn, P : cdn = CdnFonts(s) /\ P = served(s)
  OBVIOUS
<1>6. cdn = ChosenAt(all, P) /\ CdnFonts(t) = cdn /\ P \subseteq DOMAIN all
  BY <1>2, <1>4, <1>5
<1> HIDE DEF served
<1>7. Len(all) \in Nat /\ DOMAIN all = 1 .. Len(all)
  BY <1>1, ListedDomain
<1>8. \A x \in ToSet(cdn) : x \in DOMAIN s.fonts
  <2>1. PICK n \in Nat : n = Len(all)
    BY <1>7
  <2>2. P \in SUBSET (1 .. n)
    BY <1>6, <1>7, <2>1
  <2>3. \A x \in ToSet(ChosenAt(all, P)) : \E i \in P : x = all[i]
    BY ONLY <2>2, ChosenMembers
  <2>4. \A x \in ToSet(cdn) : \E i \in P : x = all[i]
    BY ONLY <1>6, <2>3
  <2> QED
    BY <1>3, <1>6, <2>4
<1>9. \A i \in DOMAIN cdn : cdn[i] \in DOMAIN s.fonts
  BY <1>8 DEF ToSet
<1>10. ASSUME NEW v PROVE BuildFontStylesheetUrl(t, v) = BuildFontStylesheetUrl(s, v)
  <2>1. {i \in DOMAIN cdn : t.fonts[cdn[i]].service = v} = {i \in DOMAIN cdn : s.fonts[cdn[i]].service = v}
    BY <1>9 DEF SameFonts
  <2>2. BuildFontStylesheetUrl(t, v) = ChosenAt(cdn, {i \in DOMAIN cdn : t.fonts[cdn[i]].service = v})
    BY <1>6 DEF BuildFontStylesheetUrl
  <2>3. BuildFontStylesheetUrl(s, v) = ChosenAt(cdn, {i \in DOMAIN cdn : s.fonts[cdn[i]].service = v})
    BY <1>5 DEF BuildFontStylesheetUrl
  <2> QED
    BY <2>1, <2>2, <2>3
<1>11. {t.fonts[f].service : f \in ToSet(cdn)} = {s.fonts[f].service : f \in ToSet(cdn)}
  BY <1>8 DEF SameFonts
<1>12. \A f \in DOMAIN s.fonts : GetSiteFontFaces(t, f) = GetSiteFontFaces(s, f)
  BY DEF GetSiteFontFaces, SameFonts
<1>13. DOMAIN t.fonts = DOMAIN s.fonts
  BY DEF SameFonts
<1>14. PICK V : V = {s.fonts[f].service : f \in ToSet(cdn)}
  OBVIOUS
<1>15. [v \in V |-> BuildFontStylesheetUrl(t, v)] = [v \in V |-> BuildFontStylesheetUrl(s, v)]
  BY <1>10
<1> QED
  BY <1>5, <1>6, <1>11, <1>12, <1>13, <1>14, <1>15

\* The look that came back is exported and shown like the first.
LEMMA SiteBack ==
  ASSUME NEW s, SiteInv(s), Exportable(s), Complete(s), NEW t, SiteInv(t), SameSite(t, s)
  PROVE  Exportable(t) /\ ExportThemeBundle(t) = ExportThemeBundle(s) /\ SiteInfo(t) = SiteInfo(s)
<1>1. /\ Listed(AllFonts(s)) /\ ToSet(AllFonts(s)) = DOMAIN s.fonts
      /\ \A f \in DOMAIN s.fonts : FontFiles(s.fonts[f].faces)
  BY FontsListed
<1>2. AllFonts(t) = AllFonts(s)
  BY OrderBack
<1>3. ASSUME NEW f \in DOMAIN s.fonts PROVE FacesForFont(t.fonts[f].faces) = FacesForFont(s.fonts[f].faces)
  <2>1. PICK q : q = s.fonts[f].faces
    OBVIOUS
  <2>2. q \in Seq(Face)
    BY <1>1, <2>1 DEF FontFiles
  <2>3. FacesForFont(FacesForFont(q)) = FacesForFont(q)
    BY <2>2, FacesStayInOrder
  <2>4. t.fonts[f].faces = FacesForFont(q)
    BY <2>1 DEF SameSite
  <2> QED
    BY <2>1, <2>3, <2>4
<1>4. SameFonts(t, s)
  BY <1>3 DEF SameFonts, SameSite
<1>5. /\ ExportPictures(t) = ExportPictures(s)
      /\ [k \in Slots |-> GetSiteAsset(t, t.slots[k])] = [k \in Slots |-> GetSiteAsset(s, s.slots[k])]
      /\ [k \in Slots |-> ExportSlot(t, t.slots[k])] = [k \in Slots |-> ExportSlot(s, s.slots[k])]
  BY SamePictures
<1>6. t.role = s.role /\ t.services = s.services /\ t.slots = s.slots
  BY DEF SameSite
<1>7. ExportThemeBundle(t) = ExportThemeBundle(s)
  <2>1. ExportFamilies(t.fonts, AllFonts(t), ExportPictures(t)) = ExportFamilies(s.fonts, AllFonts(s), ExportPictures(s))
    BY <1>1, <1>2, <1>4, <1>5, SameExport
  <2> QED
    BY <1>5, <1>6, <2>1 DEF ExportThemeBundle
<1>8. LookupFontStack(t, t.role) = LookupFontStack(s, s.role)
  BY <1>4, <1>6 DEF LookupFontStack, SameFonts
<1>9. SiteInfo(t) = SiteInfo(s)
  <2>1. /\ [v \in {t.fonts[f].service : f \in ToSet(CdnFonts(t))} |-> BuildFontStylesheetUrl(t, v)]
           = [v \in {s.fonts[f].service : f \in ToSet(CdnFonts(s))} |-> BuildFontStylesheetUrl(s, v)]
        /\ [f \in DOMAIN t.fonts |-> GetSiteFontFaces(t, f)] = [f \in DOMAIN s.fonts |-> GetSiteFontFaces(s, f)]
    BY <1>1, <1>2, <1>4, SameShown
  <2> QED
    BY <1>5, <1>6, <1>8, <2>1 DEF SiteInfo
<1>10. ASSUME NEW f \in DOMAIN t.fonts, NEW i \in DOMAIN t.fonts[f].faces PROVE t.fonts[f].faces[i].bytes = "font"
  <2>1. PICK q, r : q = s.fonts[f].faces /\ r = t.fonts[f].faces
    OBVIOUS
  <2>2. f \in DOMAIN s.fonts /\ r = FacesForFont(q)
    BY <2>1 DEF SameSite
  <2>3. FontFiles(q)
    BY <1>1, <2>1, <2>2
  <2>4. Listed(r) /\ Len(r) = Len(q) /\ \A j \in 1 .. Len(q) : r[j].bytes = "font"
    BY <2>2, <2>3, SortedFonts
  <2>5. i \in 1 .. Len(q)
    BY <2>1, <2>4, ListedDomain
  <2> QED
    BY <2>1, <2>4, <2>5
<1>11. Exportable(t)
  BY <1>7, <1>10 DEF Exportable
<1> QED
  BY <1>7, <1>9, <1>11

\* RoundTrip follows from the invariant.
LEMMA RoundTripHolds ==
  BrandingInv => RoundTrip
<1> SUFFICES ASSUME BrandingInv, Exportable(site), Complete(site) PROVE RoundTrips(site)
  BY DEF RoundTrip
<1>1. PICK s : s = site
  OBVIOUS
<1>2. SiteInv(s) /\ Exportable(s) /\ Complete(s)
  BY <1>1 DEF BrandingInv
<1>3. PICK b : b = ExportThemeBundle(s)
  OBVIOUS
<1>4. Describes(b, s)
  BY <1>2, <1>3, ExportDescribes
<1>5. ASSUME NEW onto \in {s, Blank}
      PROVE  LET again == ImportThemeBundleJson(onto, b, FALSE, TRUE) IN
             /\ again.ok /\ ~again.reported
             /\ Exportable(again.site) /\ ExportThemeBundle(again.site) = b
             /\ SiteInfo(again.site) = SiteInfo(s)
  <2>1. PICK again, t : again = ImportThemeBundleJson(onto, b, FALSE, TRUE) /\ t = ApplyBundle(onto, b, FALSE)
    OBVIOUS
  <2>2. again.ok /\ ~again.reported /\ again.site = t
    BY <1>2, <1>3, <1>4, <2>1, DescribedAccepted
  <2>3. SiteInv(onto)
    BY <1>2, BlankFits
  <2>4. SiteInv(t) /\ SameSite(t, s)
    BY <1>2, <1>4, <2>1, <2>3, LookBack
  <2>5. Exportable(t) /\ ExportThemeBundle(t) = ExportThemeBundle(s) /\ SiteInfo(t) = SiteInfo(s)
    BY <1>2, <2>4, SiteBack
  <2> QED
    BY <1>3, <2>1, <2>2, <2>5
<1> QED
  BY <1>1, <1>3, <1>5 DEF RoundTrips

\* An exported look without loose ends imports onto its own studio or an empty one,
\* exports to the same file again and shows visitors the same.
THEOREM ExportsComeBack ==
  BrandingSpec => []RoundTrip
BY BrandingInvariant, RoundTripHolds, PTL
===============================================================================
