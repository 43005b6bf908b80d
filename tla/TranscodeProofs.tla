-------------------------- MODULE TranscodeProofs --------------------------
(***************************************************************************)
(* For any source and destination, transformation, batch size, capacity    *)
(* and cache: what a run of the transcoder leaves in its destination.      *)
(***************************************************************************)
EXTENDS Transcode, SequenceTheorems, TLAPS

-----------------------------------------------------------------------------
(* What is assumed, and the invariant.                                     *)

TransformFits == Transform \in [Data -> Data \cup {Failed}] /\ Failed \notin Data

\* The jobs the theorem is about: files of the tools, into a new file or one of the
\* same type, whose images are under their hashes.
ImagesHashed(f) ==
  Null \notin DOMAIN f.images /\ \A d \in Data : Md5(d) \in DOMAIN f.images => f.images[Md5(d)] = d

JobFits(j) ==
  /\ IsFile(j.src) /\ j.src.type \in Types
  /\ j.type \in Types
  /\ \/ j.old = NoFile
     \/ /\ IsFile(j.old) /\ j.old.type = j.type /\ j.type # "dedup-id"
        /\ EachTileHashed(j.old) /\ ImagesHashed(j.old)

DstType == IF task.type \in Normalized THEN "normalized" ELSE task.type

Items == {i \in IF ByImage THEN DOMAIN src.images ELSE DOMAIN src.rows : Payload(i) # Null}

Outcome(i) == Transform[Payload(i)]

\* Items that were transformed, with what they became.
Batches ==
  {f \in UNION {[S -> Data] : S \in SUBSET Items} : \A i \in DOMAIN f : f[i] = Outcome(i)}

\* The row of a transformed tile in the destination, with its image.
NewAt(f, c) ==
  /\ c \in DOMAIN f.rows /\ f.rows[c] = Stored(f.type, [data |-> Wanted[c], hash |-> Md5(Wanted[c])])
  /\ f.type = "normalized" => Md5(Wanted[c]) \in DOMAIN f.images

OldAt(f, c) == c \in DOMAIN task.old.rows /\ c \in DOMAIN f.rows /\ f.rows[c] = task.old.rows[c]

DstOk(f) ==
  /\ DOMAIN f = DOMAIN NoFile
  /\ DOMAIN task.old.rows \subseteq DOMAIN f.rows
  /\ \A c \in DOMAIN f.rows : OldAt(f, c) \/ (c \in DOMAIN Wanted /\ NewAt(f, c))
  /\ DOMAIN task.old.images \subseteq DOMAIN f.images
  /\ \A id \in DOMAIN f.images :
       \/ id \in DOMAIN task.old.images /\ f.images[id] = task.old.images[id]
       \/ \E d \in Data : id = Md5(d) /\ f.images[id] = d

Landed(f, ids, i) ==
  IF ~ByImage THEN NewAt(f, i)
  ELSE IF f.type = "normalized" THEN i \in DOMAIN ids
  ELSE \A c \in DOMAIN src.rows : src.rows[c].hash = i => NewAt(f, c)

Placed(i) ==
  \/ i \in unread
  \/ \E n \in DOMAIN raw : i \in raw[n]
  \/ \E b \in computing : i \in b.todo \cup DOMAIN b.done
  \/ \E n \in DOMAIN encoded : i \in DOMAIN encoded[n]
  \/ i \in DOMAIN unflushed
  \/ Landed(dst, idMap, i)

IdsOk(f, ids) ==
  \A i \in DOMAIN ids :
    /\ i \in Items /\ Outcome(i) \in Data
    /\ ids[i] = Md5(Outcome(i)) /\ ids[i] \in DOMAIN f.images

CacheOk ==
  ~ByImage => \A c \in Items : Key(c) \in DOMAIN cache => cache[Key(c)] = Outcome(c)

RunOk ==
  /\ dst.type = DstType
  /\ unread \subseteq Items
  /\ raw \in Seq(SUBSET Items)
  /\ encoded \in Seq(Batches)
  /\ \A b \in computing : b.todo \subseteq Items /\ b.done \in Batches /\ computing = {b}
  /\ unflushed \in Batches /\ (ByImage => unflushed = Empty)
  /\ IdsOk(dst, idMap)
  /\ CacheOk
  /\ \A i \in Items : Outcome(i) # Failed => Placed(i)

\* Nothing is written, read or transformed yet.
Fresh ==
  /\ dst = task.old
  /\ raw = <<>> /\ encoded = <<>> /\ computing = {}
  /\ unflushed = Empty /\ idMap = Empty /\ cache = Empty

TranscodeInv ==
  /\ task \in Jobs
  /\ transcoding \in {"closed", "running", "ok", "error"}
  /\ EachTileHashed(src) =>
       /\ DstOk(dst)
       /\ transcoding = "closed" => Fresh
       /\ transcoding # "closed" => dst.type = DstType
       /\ transcoding = "running" => RunOk
       /\ transcoding = "ok" => \A c \in DOMAIN Wanted : NewAt(dst, c)

-----------------------------------------------------------------------------
(* The job stays the same, and what it asks for.                           *)

LEMMA SameJob ==
  ASSUME task' = task
  PROVE  /\ src' = src /\ ByImage' = ByImage /\ DstType' = DstType
         /\ Items' = Items /\ Batches' = Batches /\ Wanted' = Wanted
<1>1. src' = src /\ ByImage' = ByImage /\ DstType' = DstType
  BY DEF src, ByImage, DstType
<1>2. Items' = Items
  BY <1>1 DEF Items, Payload
<1>3. Batches' = Batches
  BY <1>1, <1>2 DEF Batches, Outcome, Payload
<1>4. Wanted' = Wanted
  BY <1>1 DEF Wanted
<1> QED BY <1>1, <1>2, <1>3, <1>4

LEMMA OutcomeOf ==
  ASSUME TransformFits, JobFits(task), NEW i \in Items
  PROVE  Payload(i) \in Data /\ Outcome(i) \in Data \cup {Failed}
<1>1. Payload(i) \in Data
  BY DEF JobFits, IsFile, Items, Payload, src
<1> QED BY <1>1 DEF TransformFits, Outcome

LEMMA TilesOfImages ==
  ASSUME ByImage
  PROVE  /\ DOMAIN Tiles(src) = {c \in DOMAIN src.rows : src.rows[c].hash \in DOMAIN src.images}
         /\ \A c \in DOMAIN Tiles(src) : Tiles(src)[c] = src.images[src.rows[c].hash]
  BY DEF Tiles, ByImage

LEMMA TilesOfRows ==
  ASSUME ~ByImage
  PROVE  /\ DOMAIN Tiles(src) = DOMAIN src.rows
         /\ \A c \in DOMAIN Tiles(src) : Tiles(src)[c] = src.rows[c].data
  BY DEF Tiles, ByImage

LEMMA WantedIs ==
  /\ DOMAIN Wanted = {c \in DOMAIN Tiles(src) :
                        Tiles(src)[c] # Null /\ Transform[Tiles(src)[c]] # Failed}
  /\ \A c \in DOMAIN Wanted : Wanted[c] = Transform[Tiles(src)[c]]
  BY DEF Wanted

LEMMA WantedOfRow ==
  ASSUME TransformFits, JobFits(task), ~ByImage, NEW c
  PROVE  /\ c \in DOMAIN Wanted <=> c \in Items /\ Outcome(c) # Failed
         /\ c \in DOMAIN Wanted => Wanted[c] = Outcome(c) /\ Wanted[c] \in Data
<1>1. c \in Items => Tiles(src)[c] = Payload(c) /\ c \in DOMAIN Tiles(src)
  BY TilesOfRows DEF Items, Payload
<1>2. c \in DOMAIN Wanted => c \in Items
  BY TilesOfRows, WantedIs DEF Items, Payload
<1> QED BY <1>1, <1>2, WantedIs, OutcomeOf, TilesOfRows DEF Outcome, Items, Payload

LEMMA WantedOfImage ==
  ASSUME TransformFits, JobFits(task), ByImage, NEW c
  PROVE  /\ c \in DOMAIN Wanted
              <=> /\ c \in DOMAIN src.rows /\ src.rows[c].hash \in Items
                  /\ Outcome(src.rows[c].hash) # Failed
         /\ c \in DOMAIN Wanted => Wanted[c] = Outcome(src.rows[c].hash) /\ Wanted[c] \in Data
<1>1. c \in DOMAIN src.rows /\ src.rows[c].hash \in Items
        => c \in DOMAIN Tiles(src) /\ Tiles(src)[c] = Payload(src.rows[c].hash)
             /\ Payload(src.rows[c].hash) # Null
  BY TilesOfImages DEF Items, Payload
<1>2. c \in DOMAIN Tiles(src) /\ Tiles(src)[c] # Null
        => c \in DOMAIN src.rows /\ src.rows[c].hash \in Items
  BY TilesOfImages DEF Items, Payload
<1>3. c \in DOMAIN src.rows /\ src.rows[c].hash \in Items
        => Outcome(src.rows[c].hash) \in Data \cup {Failed}
  BY OutcomeOf
<1> QED BY <1>1, <1>2, <1>3, WantedIs DEF Outcome

LEMMA WantedData ==
  ASSUME TransformFits, JobFits(task), NEW c \in DOMAIN Wanted
  PROVE  Wanted[c] \in Data
  BY WantedOfRow, WantedOfImage

LEMMA Md5Facts ==
  /\ \A d \in Data : d # Null /\ Md5(d) = <<"md5", d>> /\ Md5(d) # Null
  /\ \A d, e \in Data : Md5(d) = Md5(e) => d = e
<1>1. \A d \in Data : d # Null /\ Md5(d) = <<"md5", d>> /\ Md5(d) # Null
  BY NullAssumption DEF Md5
<1> QED BY <1>1

-----------------------------------------------------------------------------
(* The destination, as it is written.                                      *)

\* The table t is s with the rows or images of new.
Extends(t, s, new) ==
  /\ DOMAIN t = DOMAIN s \cup DOMAIN new
  /\ \A x \in DOMAIN new : t[x] = new[x]
  /\ \A x \in DOMAIN s \ DOMAIN new : t[x] = s[x]

LEMMA OverlayExtends ==
  ASSUME NEW s, NEW new
  PROVE  Extends(Overlay(s, new), s, new) /\ Extends(s, s, Empty)
  BY DEF Extends, Overlay, Empty

NewRow(type, c) == Stored(type, [data |-> Wanted[c], hash |-> Md5(Wanted[c])])

\* Rows of wanted tiles and images under their hashes keep a destination right.
LEMMA Written ==
  ASSUME TransformFits, JobFits(task), NEW f, DstOk(f), NEW g, DOMAIN g = DOMAIN f,
         g.type = f.type,
         NEW new, Extends(g.rows, f.rows, new), DOMAIN new \subseteq DOMAIN Wanted,
         \A c \in DOMAIN new : new[c] = NewRow(f.type, c),
         NEW im, Extends(g.images, f.images, im),
         \A id \in DOMAIN im : \E d \in Data : id = Md5(d) /\ im[id] = d,
         f.type = "normalized" =>
           \A c \in DOMAIN new : Md5(Wanted[c]) \in DOMAIN f.images \cup DOMAIN im
  PROVE  /\ DstOk(g)
         /\ \A c \in DOMAIN new : NewAt(g, c)
         /\ \A c : NewAt(f, c) => NewAt(g, c)
         /\ DOMAIN f.images \cup DOMAIN im \subseteq DOMAIN g.images
<1>1. \A c \in DOMAIN new : NewAt(g, c)
  BY DEF NewAt, NewRow, Extends
<1>2. \A c : NewAt(f, c) => NewAt(g, c)
  BY DEF NewAt, NewRow, Extends
<1>3. \A c \in DOMAIN g.rows : OldAt(g, c) \/ (c \in DOMAIN Wanted /\ NewAt(g, c))
  BY <1>1, <1>2 DEF DstOk, OldAt, Extends
<1>4. ASSUME NEW id \in DOMAIN g.images
      PROVE  \/ id \in DOMAIN task.old.images /\ g.images[id] = task.old.images[id]
             \/ \E d \in Data : id = Md5(d) /\ g.images[id] = d
  BY <1>4 DEF DstOk, Extends
<1> QED BY <1>1, <1>2, <1>3, <1>4 DEF DstOk, Extends

LEMMA NewTypes ==
  ASSUME JobFits(task)
  PROVE  DstType \in {"flat", "flat-with-hash", "normalized"}
  BY DEF JobFits, DstType, Types, Flat, Normalized

LEMMA BatchIs ==
  ASSUME TransformFits, JobFits(task), NEW b \in Batches
  PROVE  /\ DOMAIN b \subseteq Items
         /\ \A i \in DOMAIN b : b[i] = Outcome(i) /\ b[i] \in Data /\ b[i] # Failed
  BY DEF Batches, TransformFits

LEMMA IsBatch ==
  ASSUME NEW b, b = [i \in DOMAIN b |-> b[i]], DOMAIN b \subseteq Items,
         \A i \in DOMAIN b : b[i] = Outcome(i) /\ b[i] \in Data
  PROVE  b \in Batches
  BY DEF Batches

LEMMA EmptyBatch == Empty \in Batches
  BY DEF Empty, Batches

LEMMA JoinedBatch ==
  ASSUME TransformFits, JobFits(task), NEW a \in Batches, NEW b \in Batches
  PROVE  Overlay(a, b) \in Batches /\ DOMAIN Overlay(a, b) = DOMAIN a \cup DOMAIN b
<1> DEFINE o == Overlay(a, b)
<1>1. /\ o = [i \in DOMAIN o |-> o[i]] /\ DOMAIN o = DOMAIN a \cup DOMAIN b
      /\ \A i \in DOMAIN o : o[i] = IF i \in DOMAIN b THEN b[i] ELSE a[i]
  BY DEF Overlay
<1> HIDE DEF o
<1>2. o \in Batches
  BY <1>1, BatchIs, IsBatch
<1> QED BY <1>1, <1>2 DEF o

\* insert_tiles of tiles that were transformed.
LEMMA TilesInserted ==
  ASSUME TransformFits, JobFits(task), ~ByImage, NEW f, DstOk(f), f.type = DstType,
         NEW tiles \in Batches, NEW g \in InsertTiles(f, tiles, "override")
  PROVE  /\ DstOk(g) /\ g.type = f.type
         /\ \A c \in DOMAIN tiles : NewAt(g, c)
         /\ \A c : NewAt(f, c) => NewAt(g, c)
         /\ DOMAIN f.images \subseteq DOMAIN g.images
<1> DEFINE row(c) == [data |-> tiles[c], hash |-> Md5(tiles[c])]
           sel == [c \in DOMAIN tiles |-> row(c)]
           hashed(c) == IF f.type = "flat" THEN [sel[c] EXCEPT !.hash = Null] ELSE sel[c]
           new == [c \in DOMAIN tiles |-> Stored(f.type, hashed(c))]
           im == IF f.type \in Normalized THEN Images(sel) ELSE Empty
<1>1. f.type \in {"flat", "flat-with-hash", "normalized"}
  BY NewTypes
<1>2. DOMAIN tiles \subseteq DOMAIN Wanted /\ \A c \in DOMAIN tiles : tiles[c] = Wanted[c] /\ tiles[c] \in Data
  BY BatchIs, WantedOfRow
<1>3. PICK i, r : /\ g = [f EXCEPT !.images = i, !.rows = r]
                  /\ i \in (IF f.type \notin Normalized THEN {f.images}
                            ELSE Insert(f.images, Images(sel), "override"))
                  /\ r \in Insert(f.rows, new, "override")
  <2> DEFINE copies == \E c, d \in DOMAIN tiles : c # d /\ tiles[c] = tiles[d]
             files == IF f.type \notin Normalized THEN {f.images}
                      ELSE IF "override" = "abort" /\ copies THEN {}
                      ELSE Insert(f.images, Images(sel), "override")
             rows == Insert(f.rows, new, "override")
  <2>1. g \in {[f EXCEPT !.images = t[1], !.rows = t[2]] : t \in files \X rows}
    BY Zenon DEF InsertTiles
  <2>2. files = IF f.type \notin Normalized THEN {f.images}
                ELSE Insert(f.images, Images(sel), "override")
    OBVIOUS
  <2> HIDE DEF files, rows
  <2>3. PICK t \in files \X rows : g = [f EXCEPT !.images = t[1], !.rows = t[2]]
    BY <2>1
  <2>4. t[1] \in files /\ t[2] \in rows
    OBVIOUS
  <2> QED BY <2>2, <2>3, <2>4 DEF rows
<1>4. r = Overlay(f.rows, new)
  BY <1>3 DEF Insert
<1>5. i = IF f.type \in Normalized THEN Overlay(f.images, im) ELSE f.images
  BY <1>3 DEF Insert
<1>6. DOMAIN f = DOMAIN NoFile
  BY DEF DstOk
<1>7. DOMAIN g = DOMAIN f /\ g.type = f.type /\ g.rows = r /\ g.images = i
  BY <1>3, <1>6 DEF NoFile
<1>8. DOMAIN new = DOMAIN tiles /\ \A c \in DOMAIN new : new[c] = NewRow(f.type, c)
  BY <1>1, <1>2 DEF Stored, NewRow, Normalized
<1>9. \A id \in DOMAIN im : \E d \in Data : id = Md5(d) /\ im[id] = d
  <2>1. CASE f.type \notin Normalized
    BY <2>1 DEF Empty
  <2>2. CASE f.type \in Normalized
    <3> SUFFICES ASSUME NEW id \in DOMAIN im PROVE \E d \in Data : id = Md5(d) /\ im[id] = d
      OBVIOUS
    <3> DEFINE c == CHOOSE c \in DOMAIN sel : sel[c].hash = id
    <3>1. /\ id \in {sel[e].hash : e \in DOMAIN sel} /\ im[id] = sel[c].data
      BY <2>2 DEF Images
    <3>2. \E e \in DOMAIN sel : sel[e].hash = id
      BY <3>1
    <3>3. c \in DOMAIN sel /\ sel[c].hash = id
      BY <3>2
    <3> QED BY <3>1, <3>3, <1>2
  <2> QED BY <2>1, <2>2
<1>10. f.type = "normalized" => \A c \in DOMAIN new : Md5(Wanted[c]) \in DOMAIN f.images \cup DOMAIN im
  <2> SUFFICES ASSUME f.type = "normalized", NEW c \in DOMAIN tiles PROVE Md5(Wanted[c]) \in DOMAIN im
    BY <1>8
  <2>1. sel[c].hash = Md5(Wanted[c]) /\ sel[c].hash # Null
    BY <1>2, Md5Facts
  <2> QED BY <2>1 DEF Images, Normalized
<1>11. Extends(g.rows, f.rows, new) /\ Extends(g.images, f.images, im)
  BY <1>4, <1>5, <1>7, OverlayExtends
<1> HIDE DEF new, im
<1> QED BY <1>2, <1>7, <1>8, <1>9, <1>10, <1>11, Written

-----------------------------------------------------------------------------
(* What a destination that is right shows.                                 *)

LEMMA NewShown ==
  ASSUME TransformFits, JobFits(task), NEW f, DstOk(f), f.type = DstType, NEW c \in DOMAIN Wanted,
         NewAt(f, c)
  PROVE  c \in DOMAIN Tiles(f) /\ Tiles(f)[c] = Wanted[c]
<1>1. Wanted[c] \in Data /\ f.type \in {"flat", "flat-with-hash", "normalized"}
  BY WantedData, NewTypes
<1>2. CASE f.type = "normalized"
  <2>1. f.rows[c].hash = Md5(Wanted[c]) /\ Md5(Wanted[c]) \in DOMAIN f.images
    BY <1>2 DEF NewAt, Stored, Normalized
  <2>2. f.images[Md5(Wanted[c])] = Wanted[c]
    <3>1. CASE /\ Md5(Wanted[c]) \in DOMAIN task.old.images
               /\ f.images[Md5(Wanted[c])] = task.old.images[Md5(Wanted[c])]
      <4>1. DOMAIN NoFile.images = {}
        BY DEF NoFile, Empty
      <4> QED BY <1>1, <3>1, <4>1 DEF JobFits, ImagesHashed
    <3>2. CASE \E d \in Data : Md5(Wanted[c]) = Md5(d) /\ f.images[Md5(Wanted[c])] = d
      BY <1>1, <3>2, Md5Facts
    <3> QED BY <2>1, <3>1, <3>2 DEF DstOk
  <2> QED BY <1>2, <2>1, <2>2 DEF Tiles, NewAt, Normalized
<1>3. CASE f.type \in Flat
  BY <1>3 DEF Tiles, NewAt, Stored, Flat, Normalized
<1> QED BY <1>1, <1>2, <1>3 DEF Flat

\* The rows an old destination had show what they showed.
LEMMA OldShown ==
  ASSUME TransformFits, JobFits(task), NEW f, DstOk(f), f.type = DstType, NEW c,
         OldAt(f, c)
  PROVE  /\ c \in DOMAIN Tiles(f) <=> c \in DOMAIN Tiles(task.old)
         /\ c \in DOMAIN Tiles(f) => Tiles(f)[c] = Tiles(task.old)[c]
<1> DEFINE old == task.old
<1>1. old.rows # Empty /\ old # NoFile
  BY DEF OldAt, Empty, NoFile
<1>2. /\ IsFile(old) /\ old.type = f.type /\ EachTileHashed(old) /\ ImagesHashed(old)
  BY <1>1 DEF JobFits, DstType, Types, Flat, Normalized
<1>3. CASE f.type = "normalized"
  <2>1. old.rows[c].hash \in DOMAIN old.images \cup {Null} /\ f.rows[c].hash = old.rows[c].hash
    BY <1>2, <1>3 DEF OldAt, EachTileHashed
  <2>2. Null \notin DOMAIN f.images
    BY <1>2, Md5Facts DEF DstOk, ImagesHashed
  <2>3. \A id \in DOMAIN old.images : id \in DOMAIN f.images /\ f.images[id] = old.images[id]
    BY <1>2 DEF DstOk, ImagesHashed
  <2> HIDE DEF old
  <2>4. c \in DOMAIN old.rows /\ c \in DOMAIN f.rows
    BY DEF OldAt, old
  <2> QED BY <1>2, <1>3, <2>1, <2>2, <2>3, <2>4 DEF Tiles, Normalized, ImagesHashed, old
<1>4. CASE f.type \in Flat
  BY <1>2, <1>4 DEF Tiles, OldAt, Flat, Normalized
<1> QED BY <1>3, <1>4, NewTypes DEF Flat

LEMMA ShownTiles ==
  ASSUME TransformFits, JobFits(task), NEW f, DstOk(f), f.type = DstType, NEW c \in DOMAIN Tiles(f)
  PROVE  \/ c \in DOMAIN Tiles(task.old) /\ Tiles(f)[c] = Tiles(task.old)[c]
         \/ c \in DOMAIN Wanted /\ Tiles(f)[c] = Wanted[c]
<1>1. c \in DOMAIN f.rows
  BY DEF Tiles
<1> QED BY <1>1, NewShown, OldShown DEF DstOk

LEMMA AllShown ==
  ASSUME TransformFits, JobFits(task), NEW f, DstOk(f), f.type = DstType,
         \A c \in DOMAIN Wanted : NewAt(f, c)
  PROVE  Tiles(f) = Overlay(Tiles(task.old), Wanted)
<1> DEFINE o == Overlay(Tiles(task.old), Wanted)
<1>1. DOMAIN o = DOMAIN Tiles(task.old) \cup DOMAIN Wanted
      /\ \A c \in DOMAIN o : o[c] = IF c \in DOMAIN Wanted THEN Wanted[c] ELSE Tiles(task.old)[c]
  BY DEF Overlay
<1>2. o = [c \in DOMAIN o |-> o[c]] /\ Tiles(f) = [c \in DOMAIN Tiles(f) |-> Tiles(f)[c]]
  BY DEF Overlay, Tiles
<1>3. DOMAIN Tiles(f) = DOMAIN o
  <2>1. ASSUME NEW c \in DOMAIN Tiles(task.old), c \notin DOMAIN Wanted PROVE c \in DOMAIN Tiles(f)
    <3>1. c \in DOMAIN task.old.rows /\ c \in DOMAIN f.rows
      BY <2>1 DEF DstOk, Tiles
    <3> QED BY <2>1, <3>1, OldShown DEF DstOk
  <2>2. \A c \in DOMAIN Tiles(f) : c \in DOMAIN o
    BY <1>1, ShownTiles
  <2> QED BY <1>1, <2>1, <2>2, NewShown
<1>4. \A c \in DOMAIN o : Tiles(f)[c] = o[c]
  BY <1>1, <1>3, NewShown, ShownTiles
<1> HIDE DEF o
<1>5. Tiles(f) = o
  BY <1>2, <1>3, <1>4
<1> QED BY <1>5 DEF o

LEMMA ShownHashed ==
  ASSUME TransformFits, JobFits(task), NEW f, DstOk(f), f.type = DstType
  PROVE  EachTileHashed(f)
<1> DEFINE old == task.old
<1>1. old = NoFile \/ (old.type = f.type /\ EachTileHashed(old) /\ ImagesHashed(old))
  BY DEF JobFits, DstType, Types, Flat, Normalized
<1>2. DOMAIN NoFile.rows = {} /\ DOMAIN NoFile.images = {}
  BY DEF NoFile, Empty
<1>3. \A c \in DOMAIN f.rows : (c \in DOMAIN old.rows /\ f.rows[c] = old.rows[c])
                               \/ (c \in DOMAIN Wanted /\ NewAt(f, c))
  BY DEF DstOk, OldAt
<1>4. \A d \in Data : Matches(Md5(d), d)
  BY DEF Matches
<1>5. CASE f.type = "normalized"
  <2>1. DOMAIN old.images \subseteq DOMAIN f.images
    BY DEF DstOk
  <2>2. \A c \in DOMAIN f.rows : f.rows[c].hash \in DOMAIN f.images \cup {Null}
    <3>1. \A c \in DOMAIN old.rows : old.rows[c].hash \in DOMAIN old.images \cup {Null}
      BY <1>1, <1>2, <1>5 DEF EachTileHashed
    <3>2. \A c \in DOMAIN Wanted : NewAt(f, c) => f.rows[c].hash \in DOMAIN f.images
      BY <1>5 DEF NewAt, Stored, Normalized
    <3> QED BY <1>3, <2>1, <3>1, <3>2
  <2>3. \A id \in DOMAIN old.images : Matches(id, old.images[id])
    BY <1>1, <1>2, <1>5 DEF EachTileHashed
  <2>4. \A id \in DOMAIN f.images : Matches(id, f.images[id])
    BY <2>3, <1>4 DEF DstOk
  <2> QED BY <1>5, <2>2, <2>4 DEF EachTileHashed
<1>6. CASE f.type = "flat-with-hash"
  <2>1. \A c \in DOMAIN old.rows : Matches(old.rows[c].hash, old.rows[c].data)
    BY <1>1, <1>2, <1>6 DEF EachTileHashed
  <2>2. \A c \in DOMAIN Wanted : NewAt(f, c) => Matches(f.rows[c].hash, f.rows[c].data)
    <3>1. \A d, h : Stored("flat-with-hash", [data |-> d, hash |-> h]) = [data |-> d, hash |-> h]
      BY DEF Stored, Normalized
    <3> QED BY <1>4, <1>6, <3>1, WantedData DEF NewAt
  <2> QED BY <1>3, <1>6, <2>1, <2>2 DEF EachTileHashed
<1>7. CASE f.type = "flat"
  BY <1>7 DEF EachTileHashed
<1> QED BY <1>5, <1>6, <1>7, NewTypes

-----------------------------------------------------------------------------
(* One step of the pipeline.                                               *)

LEMMA Appended ==
  ASSUME NEW S, NEW s \in Seq(S), NEW e \in S
  PROVE  /\ Append(s, e) \in Seq(S)
         /\ \A n \in DOMAIN s : n \in DOMAIN Append(s, e) /\ Append(s, e)[n] = s[n]
         /\ \E n \in DOMAIN Append(s, e) : Append(s, e)[n] = e
<1>1. Len(s) + 1 \in DOMAIN Append(s, e) /\ Append(s, e)[Len(s) + 1] = e
  BY AppendProperties
<1> QED BY <1>1, AppendProperties

LEMMA Taken ==
  ASSUME NEW S, NEW s \in Seq(S), s # <<>>
  PROVE  /\ Head(s) \in S /\ Tail(s) \in Seq(S)
         /\ \A n \in DOMAIN s : s[n] = Head(s) \/ \E m \in DOMAIN Tail(s) : Tail(s)[m] = s[n]
<1>1. /\ Head(s) \in S /\ Tail(s) \in Seq(S) /\ Len(Tail(s)) = Len(s) - 1
      /\ \A i \in 1..Len(s) - 1 : Tail(s)[i] = s[i + 1]
  BY HeadTailProperties
<1>2. ASSUME NEW n \in DOMAIN s, n # 1 PROVE \E m \in DOMAIN Tail(s) : Tail(s)[m] = s[n]
  <2>1. n - 1 \in DOMAIN Tail(s) /\ Tail(s)[n - 1] = s[n]
    BY <1>1, <1>2
  <2> QED BY <2>1
<1> QED BY <1>1, <1>2

LEMMA RightAgain ==
  ASSUME task' = task, DstOk(dst')
  PROVE  DstOk(dst)'
  BY SameJob DEF DstOk, OldAt, NewAt

LEMMA LandedAgain ==
  ASSUME task' = task, dst'.type = dst.type, DOMAIN idMap \subseteq DOMAIN idMap',
         \A c : NewAt(dst, c) => NewAt(dst', c), NEW i, Landed(dst, idMap, i)
  PROVE  Landed(dst, idMap, i)'
<1>1. \A c : NewAt(dst', c) => NewAt(dst, c)'
  BY SameJob DEF NewAt
<1> QED BY <1>1, SameJob DEF Landed

\* Steps that write nothing.
LEMMA SameDst ==
  ASSUME RunOk, DstOk(dst), UNCHANGED <<task, dst, idMap>>
  PROVE  /\ DstOk(dst)' /\ dst'.type = DstType' /\ IdsOk(dst, idMap)'
         /\ \A i : Landed(dst, idMap, i) => Landed(dst, idMap, i)'
<1>1. DstOk(dst)'
  BY RightAgain
<1>2. dst'.type = DstType'
  BY SameJob DEF RunOk
<1>3. IdsOk(dst, idMap)'
  BY SameJob DEF RunOk, IdsOk, Outcome, Payload
<1> QED BY <1>1, <1>2, <1>3, LandedAgain

LEMMA SameCache ==
  ASSUME RunOk, UNCHANGED <<task, cache>>
  PROVE  CacheOk'
  BY SameJob DEF RunOk, CacheOk, Key, Outcome, Payload

LEMMA SameOutcome ==
  ASSUME task' = task
  PROVE  \A i : Outcome(i)' = Outcome(i)
  BY SameJob DEF Outcome, Payload

LEMMA ReadKeeps ==
  ASSUME DstOk(dst), RunOk, Read
  PROVE  DstOk(dst)' /\ RunOk'
<1>1. PICK batch \in SUBSET unread : raw' = Append(raw, batch) /\ unread' = unread \ batch
  BY DEF Read
<1>2. UNCHANGED <<task, dst, encoded, computing, unflushed, idMap, cache>>
  BY DEF Read
<1>3. /\ raw' \in Seq(SUBSET Items)
      /\ \A n \in DOMAIN raw : n \in DOMAIN raw' /\ raw'[n] = raw[n]
      /\ \E n \in DOMAIN raw' : raw'[n] = batch
  BY <1>1, Appended DEF RunOk
<1>4. ASSUME NEW i \in Items, Outcome(i) # Failed PROVE Placed(i)'
  BY <1>1, <1>2, <1>3, <1>4, SameDst DEF RunOk, Placed
<1>5. unread' \subseteq Items
  BY <1>1 DEF RunOk
<1>6. \A b \in computing' : b.todo \subseteq Items /\ b.done \in Batches /\ computing' = {b}
  BY <1>2 DEF RunOk
<1> QED BY <1>2, <1>3, <1>4, <1>5, <1>6, SameJob, SameDst, SameCache, SameOutcome DEF RunOk

LEMMA TakeBatchKeeps ==
  ASSUME DstOk(dst), RunOk, TakeBatch
  PROVE  DstOk(dst)' /\ RunOk'
<1>1. /\ computing = {} /\ raw # <<>> /\ raw' = Tail(raw)
      /\ computing' = {[todo |-> Head(raw), done |-> Empty]}
      /\ UNCHANGED <<task, dst, unread, encoded, unflushed, idMap, cache>>
  BY DEF TakeBatch
<1>2. /\ Head(raw) \in SUBSET Items /\ raw' \in Seq(SUBSET Items)
      /\ \A n \in DOMAIN raw : raw[n] = Head(raw) \/ \E m \in DOMAIN raw' : raw'[m] = raw[n]
  BY <1>1, Taken DEF RunOk
<1>3. ASSUME NEW i \in Items, Outcome(i) # Failed PROVE Placed(i)'
  BY <1>1, <1>2, <1>3, SameDst DEF RunOk, Placed
<1>4. \A b \in computing' : b.todo \subseteq Items /\ b.done \in Batches /\ computing' = {b}
  BY <1>1, <1>2, EmptyBatch
<1> QED BY <1>1, <1>2, <1>3, <1>4, SameJob, SameDst, SameCache, SameOutcome DEF RunOk

LEMMA EvictKeeps ==
  ASSUME DstOk(dst), RunOk, Evict
  PROVE  DstOk(dst)' /\ RunOk'
<1>1. /\ \A k \in DOMAIN cache' : k \in DOMAIN cache /\ cache'[k] = cache[k]
      /\ UNCHANGED <<task, dst, unread, raw, encoded, computing, unflushed, idMap>>
  BY DEF Evict, Only
<1>2. CacheOk'
  BY <1>1, SameJob DEF RunOk, CacheOk, Key, Outcome, Payload
<1>3. ASSUME NEW i \in Items, Outcome(i) # Failed PROVE Placed(i)'
  BY <1>1, <1>3, SameDst DEF RunOk, Placed
<1> QED BY <1>1, <1>2, <1>3, SameJob, SameDst, SameOutcome DEF RunOk

LEMMA SendBatchKeeps ==
  ASSUME DstOk(dst), RunOk, SendBatch
  PROVE  DstOk(dst)' /\ RunOk'
<1>1. PICK b \in computing :
        /\ b.todo = {}
        /\ \/ b.done = Empty /\ encoded' = encoded
           \/ encoded' = Append(encoded, b.done)
  BY DEF SendBatch
<1>2. computing' = {} /\ UNCHANGED <<task, dst, unread, raw, unflushed, idMap, cache>>
  BY DEF SendBatch
<1>3. computing = {b} /\ b.done \in Batches
  BY DEF RunOk
<1>4. /\ encoded' \in Seq(Batches)
      /\ \A n \in DOMAIN encoded : n \in DOMAIN encoded' /\ encoded'[n] = encoded[n]
      /\ \A i \in DOMAIN b.done : \E n \in DOMAIN encoded' : i \in DOMAIN encoded'[n]
  <2>1. CASE b.done = Empty /\ encoded' = encoded
    BY <2>1 DEF RunOk, Empty
  <2>2. CASE encoded' = Append(encoded, b.done)
    <3>1. encoded \in Seq(Batches)
      BY DEF RunOk
    <3>2. /\ Append(encoded, b.done) \in Seq(Batches)
          /\ \A n \in DOMAIN encoded :
               n \in DOMAIN Append(encoded, b.done) /\ Append(encoded, b.done)[n] = encoded[n]
          /\ \E n \in DOMAIN Append(encoded, b.done) : Append(encoded, b.done)[n] = b.done
      BY <1>3, <3>1, Appended
    <3> QED BY <2>2, <3>2
  <2> QED BY <1>1, <2>1, <2>2
<1>5. ASSUME NEW i \in Items, Outcome(i) # Failed PROVE Placed(i)'
  BY <1>1, <1>2, <1>3, <1>4, <1>5, SameDst DEF RunOk, Placed
<1> QED BY <1>2, <1>4, <1>5, SameJob, SameDst, SameCache, SameOutcome DEF RunOk

LEMMA SameKey ==
  ASSUME TransformFits, JobFits(task), EachTileHashed(src), ~ByImage, NEW c \in Items,
         NEW e \in Items, Key(c) = Key(e)
  PROVE  Payload(c) = Payload(e)
<1>1. \A x \in Items : x \in DOMAIN src.rows /\ Payload(x) = src.rows[x].data /\ Payload(x) \in Data
  BY OutcomeOf DEF Items, Payload
<1>2. CASE src.type = "flat-with-hash"
  <2>1. \A x \in Items : Key(x) \in {Md5(Payload(x)), <<"xxh3", Payload(x)>>}
    BY <1>1, <1>2, Md5Facts DEF EachTileHashed, Matches, Key
  <2>2. \A d \in Data : Md5(d) = <<"md5", d>>
    BY Md5Facts
  <2> QED BY <1>1, <2>1, <2>2
<1>3. CASE src.type # "flat-with-hash"
  <2>1. \A x \in Items : Key(x) = <<"xxh3", Payload(x)>>
    BY <1>3 DEF Key
  <2> QED BY <2>1
<1> QED BY <1>2, <1>3

LEMMA EncodeKeeps ==
  ASSUME TransformFits, JobFits(task), EachTileHashed(src), DstOk(dst), RunOk, Encode
  PROVE  DstOk(dst)' /\ RunOk'
<1> DEFINE hit(i) == ~ByImage /\ Payload(i) \in SmallData /\ Key(i) \in DOMAIN cache
           found(i) == IF hit(i) THEN cache[Key(i)] ELSE Transform[Payload(i)]
<1>1. PICK b \in computing : \E i \in b.todo :
        /\ computing' = Result(found(i), b, i)
        /\ cache' = IF ~ByImage /\ Payload(i) \in SmallData /\ found(i) # Failed
                    THEN Overlay(cache, [k \in {Key(i)} |-> found(i)]) ELSE cache
  BY DEF Encode
<1>2. PICK i \in b.todo :
        /\ computing' = Result(found(i), b, i)
        /\ cache' = IF ~ByImage /\ Payload(i) \in SmallData /\ found(i) # Failed
                    THEN Overlay(cache, [k \in {Key(i)} |-> found(i)]) ELSE cache
  BY <1>1
<1>3. UNCHANGED <<task, dst, unread, raw, encoded, unflushed, idMap>>
  BY DEF Encode
<1>4. b.todo \subseteq Items /\ b.done \in Batches /\ computing = {b} /\ i \in Items
  BY DEF RunOk
<1>5. found(i) = Outcome(i)
  BY <1>4 DEF RunOk, CacheOk, Outcome
<1> HIDE DEF found, hit
<1> DEFINE done == IF Outcome(i) = Failed THEN b.done
                   ELSE Overlay(b.done, [x \in {i} |-> Outcome(i)])
<1>6. computing' = {[todo |-> b.todo \ {i}, done |-> done]}
  BY <1>2, <1>5 DEF Result
<1>7. done \in Batches /\ DOMAIN b.done \subseteq DOMAIN done
      /\ (Outcome(i) # Failed => i \in DOMAIN done)
  <2>1. CASE Outcome(i) = Failed
    BY <1>4, <2>1
  <2>2. CASE Outcome(i) # Failed
    <3> DEFINE one == [x \in {i} |-> Outcome(i)]
    <3>1. one \in Batches /\ DOMAIN one = {i}
      <4>1. one = [x \in DOMAIN one |-> one[x]] /\ DOMAIN one = {i} /\ one[i] = Outcome(i)
        OBVIOUS
      <4>2. Outcome(i) \in Data
        BY <1>4, <2>2, OutcomeOf
      <4> HIDE DEF one
      <4> QED BY <1>4, <4>1, <4>2, IsBatch
    <3>2. Overlay(b.done, one) \in Batches /\ DOMAIN Overlay(b.done, one) = DOMAIN b.done \cup DOMAIN one
      <4> HIDE DEF one
      <4> QED BY <1>4, <3>1, JoinedBatch
    <3> QED BY <2>2, <3>1, <3>2
  <2> QED BY <2>1, <2>2
<1> HIDE DEF done
<1>8. \A e \in computing' : e.todo \subseteq Items /\ e.done \in Batches /\ computing' = {e}
  BY <1>4, <1>6, <1>7
<1>9. ASSUME NEW x \in Items, Outcome(x) # Failed PROVE Placed(x)'
  <2>1. x \in b.todo \cup DOMAIN b.done => \E e \in computing' : x \in e.todo \cup DOMAIN e.done
    BY <1>6, <1>7, <1>9
  <2> QED BY <1>3, <1>4, <1>9, <2>1, SameDst DEF RunOk, Placed
<1>10. CacheOk'
  <2> SUFFICES ASSUME ~ByImage, NEW c \in Items, Key(c) \in DOMAIN cache'
               PROVE  cache'[Key(c)] = Outcome(c)
    BY <1>3, SameJob, SameOutcome DEF CacheOk, Key, Payload
  <2>1. \A x \in Items : Key(x) \in DOMAIN cache => cache[Key(x)] = Outcome(x)
    BY DEF RunOk, CacheOk
  <2>2. CASE cache' = cache
    BY <2>1, <2>2
  <2>3. CASE cache' = Overlay(cache, [k \in {Key(i)} |-> found(i)])
    <3>1. CASE Key(c) = Key(i)
      <4>1. Payload(c) = Payload(i)
        BY <1>4, <3>1, SameKey
      <4> QED BY <1>5, <2>3, <3>1, <4>1 DEF Overlay, Outcome
    <3>2. CASE Key(c) # Key(i)
      BY <2>1, <2>3, <3>2 DEF Overlay
    <3> QED BY <3>1, <3>2
  <2> QED BY <1>2, <2>2, <2>3
<1> QED BY <1>3, <1>8, <1>9, <1>10, SameJob, SameDst, SameOutcome DEF RunOk

-----------------------------------------------------------------------------
(* The writers.                                                            *)

LEMMA HashedImages ==
  ASSUME TransformFits, JobFits(task), NEW images \in Batches
  PROVE  /\ DOMAIN Rehashed(images) = DOMAIN images
         /\ \A i \in DOMAIN images : Rehashed(images)[i] = Md5(Outcome(i)) /\ Outcome(i) \in Data
  BY BatchIs DEF Rehashed

LEMMA WriteImagesKeeps ==
  ASSUME TransformFits, JobFits(task), DstOk(dst), RunOk, WriteImages
  PROVE  DstOk(dst)' /\ RunOk'
<1> DEFINE images == Head(encoded)
           ids == Rehashed(images)
           fanned == FannedOut(images)
           added == [id \in {ids[i] : i \in DOMAIN images} |->
                       images[CHOOSE i \in DOMAIN images : ids[i] = id]]
           new == IF dst.type = "normalized" THEN Empty ELSE fanned
           im == IF dst.type = "normalized" THEN added ELSE Empty
<1>1. /\ ByImage /\ encoded # <<>> /\ encoded' = Tail(encoded)
      /\ UNCHANGED <<task, unread, raw, computing, unflushed, cache>>
  BY DEF WriteImages
<1>2. /\ images \in Batches /\ encoded' \in Seq(Batches)
      /\ \A n \in DOMAIN encoded : encoded[n] = images \/ \E m \in DOMAIN encoded' : encoded'[m] = encoded[n]
  BY <1>1, Taken DEF RunOk
<1>3. /\ dst.type = "normalized" =>
           dst' = [dst EXCEPT !.images = Overlay(dst.images, added)] /\ idMap' = Overlay(idMap, ids)
      /\ dst.type # "normalized" =>
           dst' = [dst EXCEPT !.rows = Overlay(dst.rows, fanned)] /\ idMap' = idMap
  BY DEF WriteImages
<1>4. DOMAIN ids = DOMAIN images /\ \A i \in DOMAIN images : ids[i] = Md5(Outcome(i)) /\ Outcome(i) \in Data
  BY <1>2, HashedImages
<1>5. DOMAIN images \subseteq Items /\ \A i \in DOMAIN images : images[i] = Outcome(i)
  BY <1>2, BatchIs
<1>6. dst.type = DstType /\ dst.type \in {"flat", "flat-with-hash", "normalized"}
  BY NewTypes DEF RunOk
<1>7. DOMAIN fanned \subseteq DOMAIN Wanted /\ \A c \in DOMAIN fanned : fanned[c] = NewRow(dst.type, c) \/ dst.type = "normalized"
  <2>1. ASSUME NEW c \in DOMAIN src.rows, src.rows[c].hash \in DOMAIN images
        PROVE  c \in DOMAIN Wanted /\ Wanted[c] = images[src.rows[c].hash] /\ Wanted[c] \in Data
    <3>1. Outcome(src.rows[c].hash) # Failed
      BY <1>4, <2>1 DEF TransformFits
    <3> QED BY <1>1, <1>5, <2>1, <3>1, WantedOfImage
  <2>2. DOMAIN fanned = {c \in DOMAIN src.rows : src.rows[c].hash \in DOMAIN images}
    BY DEF FannedOut
  <2>3. \A c \in DOMAIN fanned :
          fanned[c] = [data |-> images[src.rows[c].hash],
                       hash |-> IF dst.type = "flat" THEN Null ELSE Md5(images[src.rows[c].hash])]
    BY DEF FannedOut
  <2> HIDE DEF fanned, images
  <2>4. \A d, h : /\ Stored("flat-with-hash", [data |-> d, hash |-> h]) = [data |-> d, hash |-> h]
                  /\ Stored("flat", [data |-> d, hash |-> h]) = [data |-> d, hash |-> Null]
    BY DEF Stored, Normalized
  <2>5. ASSUME NEW c \in DOMAIN fanned
        PROVE  c \in DOMAIN Wanted
               /\ fanned[c] = [data |-> Wanted[c],
                              hash |-> IF dst.type = "flat" THEN Null ELSE Md5(Wanted[c])]
    BY <2>1, <2>2, <2>3, <2>5
  <2>6. ASSUME NEW c \in DOMAIN fanned, dst.type # "normalized"
        PROVE  fanned[c] = NewRow(dst.type, c)
    <3>1. CASE dst.type = "flat"
      BY <2>4, <2>5, <2>6, <3>1 DEF NewRow
    <3>2. CASE dst.type = "flat-with-hash"
      BY <2>4, <2>5, <2>6, <3>2 DEF NewRow
    <3> QED BY <1>6, <2>6, <3>1, <3>2
  <2> QED BY <2>5, <2>6
<1>8. \A id \in DOMAIN added : \E d \in Data : id = Md5(d) /\ added[id] = d
  <2> SUFFICES ASSUME NEW id \in DOMAIN added PROVE \E d \in Data : id = Md5(d) /\ added[id] = d
    OBVIOUS
  <2> DEFINE i == CHOOSE i \in DOMAIN images : ids[i] = id
  <2>1. \E e \in DOMAIN images : ids[e] = id
    OBVIOUS
  <2>2. i \in DOMAIN images /\ ids[i] = id /\ added[id] = images[i]
    BY <2>1
  <2> HIDE DEF i, ids, images, added
  <2> QED BY <1>4, <1>5, <2>2
<1>9. \A i \in DOMAIN images : ids[i] \in DOMAIN added
  OBVIOUS
<1>10. DOMAIN dst' = DOMAIN dst /\ dst'.type = dst.type
       /\ Extends(dst'.rows, dst.rows, new) /\ Extends(dst'.images, dst.images, im)
  <2>1. DOMAIN dst = DOMAIN NoFile
    BY DEF DstOk
  <2> HIDE DEF added, fanned, ids, images
  <2> QED BY <1>3, <2>1, OverlayExtends DEF NoFile
<1>11. DOMAIN new \subseteq DOMAIN Wanted /\ \A c \in DOMAIN new : new[c] = NewRow(dst.type, c)
  <2> HIDE DEF fanned
  <2> QED BY <1>7 DEF Empty
<1>12. \A id \in DOMAIN im : \E d \in Data : id = Md5(d) /\ im[id] = d
  <2> HIDE DEF added
  <2> QED BY <1>8 DEF Empty
<1>13. dst.type = "normalized" => DOMAIN new = {}
  BY DEF Empty
<1>14. dst.type # "normalized" =>
         \A c \in DOMAIN src.rows : src.rows[c].hash \in DOMAIN images => c \in DOMAIN new
  BY DEF FannedOut
<1>15. dst.type = "normalized" =>
         /\ DOMAIN idMap' = DOMAIN idMap \cup DOMAIN images
         /\ \A i \in DOMAIN images : idMap'[i] = ids[i] /\ ids[i] \in DOMAIN im
         /\ \A i \in DOMAIN idMap \ DOMAIN images : idMap'[i] = idMap[i]
  <2> HIDE DEF ids, images, added
  <2> QED BY <1>3, <1>4, <1>9 DEF Overlay
<1> HIDE DEF new, im, added, fanned, ids, images
<1>16. /\ DstOk(dst') /\ \A c \in DOMAIN new : NewAt(dst', c)
       /\ \A c : NewAt(dst, c) => NewAt(dst', c)
       /\ DOMAIN dst.images \cup DOMAIN im \subseteq DOMAIN dst'.images
  BY <1>10, <1>11, <1>12, <1>13, Written
<1>17. DstOk(dst)'
  BY <1>1, <1>16, RightAgain
<1>18. IdsOk(dst, idMap)'
  <2>1. \A i \in DOMAIN idMap' :
          /\ i \in Items /\ Outcome(i) \in Data
          /\ idMap'[i] = Md5(Outcome(i)) /\ idMap'[i] \in DOMAIN dst'.images
    BY <1>3, <1>4, <1>5, <1>15, <1>16 DEF RunOk, IdsOk
  <2> QED BY <1>1, <2>1, SameJob, SameOutcome DEF IdsOk
<1>19. ASSUME NEW i \in Items, Outcome(i) # Failed PROVE Placed(i)'
  <2>1. Landed(dst, idMap, i) => Landed(dst, idMap, i)'
    BY <1>1, <1>3, <1>10, <1>15, <1>16, LandedAgain
  <2>2. i \in DOMAIN images => Landed(dst, idMap, i)'
    <3>1. \A c : NewAt(dst', c) => NewAt(dst, c)'
      BY <1>1, SameJob DEF NewAt
    <3> QED BY <1>1, <1>10, <1>14, <1>15, <1>16, <3>1, SameJob DEF Landed
  <2> QED BY <1>1, <1>2, <1>19, <2>1, <2>2 DEF RunOk, Placed
<1> QED BY <1>1, <1>2, <1>6, <1>10, <1>17, <1>18, <1>19, SameJob, SameCache, SameOutcome DEF RunOk

LEMMA WriteTilesKeeps ==
  ASSUME TransformFits, JobFits(task), DstOk(dst), RunOk, WriteTiles
  PROVE  DstOk(dst)' /\ RunOk'
<1> DEFINE tiles == Overlay(unflushed, Head(encoded))
<1>1. /\ ~ByImage /\ encoded # <<>> /\ encoded' = Tail(encoded)
      /\ UNCHANGED <<task, unread, raw, computing, idMap, cache>>
  BY DEF WriteTiles
<1>2. /\ Head(encoded) \in Batches /\ encoded' \in Seq(Batches)
      /\ \A n \in DOMAIN encoded :
           encoded[n] = Head(encoded) \/ \E m \in DOMAIN encoded' : encoded'[m] = encoded[n]
  BY <1>1, Taken DEF RunOk
<1>3. tiles \in Batches /\ DOMAIN tiles = DOMAIN unflushed \cup DOMAIN Head(encoded)
  BY <1>2, JoinedBatch DEF RunOk
<1>4. \/ dst' \in InsertTiles(dst, tiles, "override") /\ unflushed' = Empty
      \/ dst' = dst /\ unflushed' = tiles
  BY DEF WriteTiles, Flushed
<1> HIDE DEF tiles
<1>5. /\ DstOk(dst') /\ dst'.type = dst.type
      /\ \A c : NewAt(dst, c) => NewAt(dst', c)
      /\ DOMAIN dst.images \subseteq DOMAIN dst'.images
      /\ \A c \in DOMAIN tiles : NewAt(dst', c) \/ c \in DOMAIN unflushed'
      /\ unflushed' \in Batches
  <2>1. CASE dst' \in InsertTiles(dst, tiles, "override") /\ unflushed' = Empty
    BY <1>1, <1>3, <2>1, TilesInserted, EmptyBatch DEF RunOk
  <2>2. CASE dst' = dst /\ unflushed' = tiles
    BY <1>3, <2>2
  <2> QED BY <1>4, <2>1, <2>2
<1>6. DstOk(dst)'
  BY <1>1, <1>5, RightAgain
<1>7. IdsOk(dst, idMap)'
  BY <1>1, <1>5, SameJob, SameOutcome DEF RunOk, IdsOk
<1>8. ASSUME NEW i \in Items, Outcome(i) # Failed PROVE Placed(i)'
  <2>1. Landed(dst, idMap, i) => Landed(dst, idMap, i)'
    BY <1>1, <1>5, LandedAgain
  <2>2. NewAt(dst', i) => Landed(dst, idMap, i)'
    BY <1>1, SameJob DEF Landed, NewAt
  <2> QED BY <1>1, <1>2, <1>3, <1>5, <1>8, <2>1, <2>2 DEF RunOk, Placed
<1> QED BY <1>1, <1>2, <1>5, <1>6, <1>7, <1>8, SameJob, SameCache, SameOutcome DEF RunOk

-----------------------------------------------------------------------------
(* The beginning and the ends of a run.                                    *)

LEMMA FreshIsRight ==
  ASSUME JobFits(task), NEW f, DOMAIN f = DOMAIN NoFile, f.rows = task.old.rows,
         f.images = task.old.images
  PROVE  DstOk(f)
  BY DEF DstOk, OldAt

LEMMA OpenKeeps ==
  ASSUME TransformFits, JobFits(task), Fresh, Open
  PROVE  DstOk(dst)' /\ RunOk'
<1>1. /\ UNCHANGED <<task, raw, encoded, computing, unflushed, idMap, cache>>
      /\ unread' = Items
      /\ dst' = [dst EXCEPT !.type = DstType,
                            !.title = IF src.title = {} THEN dst.title ELSE src.title,
                            !.agg = IF src.agg = {} THEN dst.agg ELSE src.agg]
  BY DEF Open, Items, DstType
<1>2. DOMAIN dst = DOMAIN NoFile /\ dst = task.old
  BY DEF Fresh, JobFits, IsFile
<1>3. /\ DOMAIN dst' = DOMAIN NoFile /\ dst'.type = DstType
      /\ dst'.rows = task.old.rows /\ dst'.images = task.old.images
  BY <1>1, <1>2 DEF NoFile
<1>4. DstOk(dst)'
  BY <1>1, <1>3, FreshIsRight, RightAgain
<1>5. IdsOk(dst, idMap)' /\ CacheOk'
  BY <1>1 DEF Fresh, IdsOk, CacheOk, Empty
<1>6. \A i \in Items : Placed(i)'
  BY <1>1 DEF Placed
<1>7. raw' \in Seq(SUBSET Items) /\ encoded' \in Seq(Batches) /\ unflushed' \in Batches
  BY <1>1, EmptyBatch DEF Fresh
<1> QED BY <1>1, <1>3, <1>4, <1>5, <1>6, <1>7, SameJob, SameOutcome DEF RunOk, Fresh

\* When everything is written, what was transformed has landed or is unflushed.
LEMMA AllLanded ==
  ASSUME RunOk, AllWritten, NEW i \in Items, Outcome(i) # Failed
  PROVE  i \in DOMAIN unflushed \/ Landed(dst, idMap, i)
<1>1. unread = {} /\ DOMAIN raw = {} /\ computing = {} /\ DOMAIN encoded = {}
  BY DEF AllWritten
<1> QED BY <1>1 DEF RunOk, Placed

LEMMA FinishImagesKeeps ==
  ASSUME TransformFits, JobFits(task), DstOk(dst), RunOk, FinishImages
  PROVE  /\ DstOk(dst)' /\ dst'.type = DstType' /\ task' = task
         /\ \A c \in DOMAIN Wanted' : NewAt(dst, c)'
<1> DEFINE found == {c \in DOMAIN src.rows : src.rows[c].hash \in DOMAIN idMap}
           mapped == [c \in found |-> [data |-> Null, hash |-> idMap[src.rows[c].hash]]]
           new == IF dst.type = "normalized" THEN mapped ELSE Empty
<1>1. ByImage /\ AllWritten /\ task' = task /\ unflushed = Empty
  BY DEF FinishImages, RunOk
<1>2. dst' = IF dst.type = "normalized" THEN [dst EXCEPT !.rows = Overlay(dst.rows, mapped)] ELSE dst
  BY DEF FinishImages
<1>3. DOMAIN dst = DOMAIN NoFile /\ dst.type = DstType
  BY DEF DstOk, RunOk
<1>4. /\ DOMAIN dst' = DOMAIN dst /\ dst'.type = dst.type
      /\ Extends(dst'.rows, dst.rows, new) /\ Extends(dst'.images, dst.images, Empty)
  <2> HIDE DEF mapped
  <2> QED BY <1>2, <1>3, OverlayExtends DEF NoFile
<1>5. ASSUME NEW c \in found
      PROVE  /\ c \in DOMAIN Wanted /\ idMap[src.rows[c].hash] = Md5(Wanted[c])
             /\ Md5(Wanted[c]) \in DOMAIN dst.images
  <2>1. /\ src.rows[c].hash \in Items /\ Outcome(src.rows[c].hash) \in Data
        /\ idMap[src.rows[c].hash] = Md5(Outcome(src.rows[c].hash))
        /\ idMap[src.rows[c].hash] \in DOMAIN dst.images
    BY DEF RunOk, IdsOk
  <2>2. Outcome(src.rows[c].hash) # Failed
    BY <2>1 DEF TransformFits
  <2> QED BY <1>1, <2>1, <2>2, WantedOfImage
<1>6. DOMAIN new \subseteq DOMAIN Wanted /\ \A c \in DOMAIN new : new[c] = NewRow(dst.type, c)
  <2>1. \A d, h : Stored("normalized", [data |-> d, hash |-> h]) = [data |-> Null, hash |-> h]
    BY DEF Stored, Normalized
  <2> QED BY <1>5, <2>1 DEF NewRow, Empty
<1>7. dst.type = "normalized" => DOMAIN new = found
  OBVIOUS
<1>8. DOMAIN Empty = {}
  BY DEF Empty
<1> HIDE DEF new, mapped
<1>9. /\ DstOk(dst') /\ \A c \in DOMAIN new : NewAt(dst', c)
      /\ \A c : NewAt(dst, c) => NewAt(dst', c)
  BY <1>4, <1>5, <1>6, <1>7, <1>8, Written
<1>10. ASSUME NEW c \in DOMAIN Wanted PROVE NewAt(dst', c)
  <2>1. c \in DOMAIN src.rows /\ src.rows[c].hash \in Items /\ Outcome(src.rows[c].hash) # Failed
    BY <1>1, WantedOfImage
  <2>2. Landed(dst, idMap, src.rows[c].hash)
    BY <1>1, <1>8, <2>1, AllLanded
  <2> QED BY <1>1, <1>7, <1>9, <2>1, <2>2 DEF Landed
<1>11. DstOk(dst)'
  BY <1>1, <1>9, RightAgain
<1> QED BY <1>1, <1>3, <1>4, <1>10, <1>11, SameJob DEF NewAt

LEMMA FinishTilesKeeps ==
  ASSUME TransformFits, JobFits(task), DstOk(dst), RunOk, FinishTiles
  PROVE  /\ DstOk(dst)' /\ dst'.type = DstType' /\ task' = task
         /\ \A c \in DOMAIN Wanted' : NewAt(dst, c)'
<1>1. /\ ~ByImage /\ AllWritten /\ task' = task
      /\ dst' \in InsertTiles(dst, unflushed, "override")
  BY DEF FinishTiles, Flushed
<1>2. dst.type = DstType /\ unflushed \in Batches
  BY DEF RunOk
<1>3. /\ DstOk(dst') /\ dst'.type = dst.type
      /\ \A c \in DOMAIN unflushed : NewAt(dst', c)
      /\ \A c : NewAt(dst, c) => NewAt(dst', c)
  BY <1>1, <1>2, TilesInserted
<1>4. ASSUME NEW c \in DOMAIN Wanted PROVE NewAt(dst', c)
  <2>1. c \in Items /\ Outcome(c) # Failed
    BY <1>1, WantedOfRow
  <2> QED BY <1>1, <1>3, <2>1, AllLanded DEF Landed
<1>5. DstOk(dst)'
  BY <1>1, <1>3, RightAgain
<1> QED BY <1>1, <1>2, <1>3, <1>4, <1>5, SameJob DEF NewAt

-----------------------------------------------------------------------------
(* The invariant, and what follows from it.                                *)

JobsFit == \A job \in Jobs : JobFits(job)

LEMMA TranscodeInit ==
  ASSUME JobsFit, Init
  PROVE  TranscodeInv
<1>1. task \in Jobs /\ JobFits(task) /\ dst = task.old /\ Fresh /\ transcoding = "closed"
  BY DEF JobsFit, Init, Fresh
<1>2. DOMAIN dst = DOMAIN NoFile
  BY <1>1 DEF JobFits, IsFile
<1> QED BY <1>1, <1>2, FreshIsRight DEF TranscodeInv

LEMMA TranscodeStep ==
  ASSUME TransformFits, JobsFit, TranscodeInv, [Next]_vars
  PROVE  TranscodeInv'
<1>1. JobFits(task)
  BY DEF JobsFit, TranscodeInv
<1>2. task' = task
  BY DEF Next, vars, Open, Read, TakeBatch, Encode, Evict, SendBatch, WriteImages, WriteTiles,
         FinishImages, FinishTiles, Fail
<1>3. EachTileHashed(src)' <=> EachTileHashed(src)
  BY <1>2, SameJob
<1>4. transcoding' \in {"closed", "running", "ok", "error"}
  BY DEF TranscodeInv, Next, vars, Open, Read, TakeBatch, Encode, Evict, SendBatch, WriteImages,
         WriteTiles, FinishImages, FinishTiles, Fail
<1> SUFFICES ASSUME EachTileHashed(src)
             PROVE  /\ DstOk(dst)'
                    /\ transcoding' = "closed" => Fresh'
                    /\ transcoding' # "closed" => dst'.type = DstType'
                    /\ transcoding' = "running" => RunOk'
                    /\ transcoding' = "ok" => \A c \in DOMAIN Wanted' : NewAt(dst, c)'
  BY <1>2, <1>3, <1>4 DEF TranscodeInv
<1>5. /\ DstOk(dst)
      /\ transcoding = "closed" => Fresh
      /\ transcoding # "closed" => dst.type = DstType
      /\ transcoding = "running" => RunOk
      /\ transcoding = "ok" => \A c \in DOMAIN Wanted : NewAt(dst, c)
  BY DEF TranscodeInv
<1>6. CASE UNCHANGED vars
  <2>1. Fresh => Fresh'
    BY <1>6 DEF vars, Fresh
  <2>2. DstOk(dst)' /\ (transcoding # "closed" => dst'.type = DstType')
    BY <1>5, <1>6, SameJob DEF vars, DstOk, OldAt, NewAt
  <2>3. transcoding' = "ok" => \A c \in DOMAIN Wanted' : NewAt(dst, c)'
    BY <1>5, <1>6, SameJob DEF vars, NewAt
  <2>4. ASSUME RunOk PROVE RunOk'
    <3>1. UNCHANGED <<task, dst, unread, raw, encoded, computing, unflushed, idMap, cache>>
      BY <1>6 DEF vars
    <3>2. ASSUME NEW i \in Items, Outcome(i) # Failed PROVE Placed(i)'
      BY <1>5, <2>4, <3>1, <3>2, SameDst DEF RunOk, Placed
    <3> QED BY <1>5, <2>4, <3>1, <3>2, SameJob, SameDst, SameCache, SameOutcome DEF RunOk
  <2> QED BY <1>5, <1>6, <2>1, <2>2, <2>3, <2>4 DEF vars
<1>7. CASE Open
  <2>1. transcoding = "closed" /\ transcoding' = "running"
    BY <1>7 DEF Open
  <2> QED BY <1>1, <1>5, <1>7, <2>1, OpenKeeps DEF RunOk
<1>8. CASE Read \/ TakeBatch \/ Encode \/ Evict \/ SendBatch \/ WriteImages \/ WriteTiles
  <2>1. transcoding = "running" /\ transcoding' = "running"
    BY <1>8 DEF Read, TakeBatch, Encode, Evict, SendBatch, WriteImages, WriteTiles
  <2>2. DstOk(dst)' /\ RunOk'
    BY <1>1, <1>5, <1>8, <2>1, ReadKeeps, TakeBatchKeeps, EncodeKeeps, EvictKeeps, SendBatchKeeps,
       WriteImagesKeeps, WriteTilesKeeps
  <2> QED BY <2>1, <2>2 DEF RunOk
<1>9. CASE FinishImages \/ FinishTiles
  <2>1. transcoding = "running" /\ transcoding' = "ok"
    BY <1>9 DEF FinishImages, FinishTiles
  <2> QED BY <1>1, <1>5, <1>9, <2>1, FinishImagesKeeps, FinishTilesKeeps
<1>10. CASE Fail
  <2>1. transcoding = "running" /\ transcoding' = "error" /\ UNCHANGED <<task, dst>>
    BY <1>10 DEF Fail
  <2>2. DstOk(dst)'
    BY <1>5, <2>1, RightAgain
  <2> QED BY <1>5, <2>1, <2>2, SameJob
<1> QED BY <1>6, <1>7, <1>8, <1>9, <1>10 DEF Next

LEMMA TranscodeIsFaithful ==
  ASSUME TransformFits, JobsFit, TranscodeInv
  PROVE  TranscodedFaithfully
<1> SUFFICES ASSUME EachTileHashed(src)
             PROVE  /\ transcoding = "ok" => Tiles(dst) = Overlay(Tiles(task.old), Wanted)
                    /\ \A c \in DOMAIN Tiles(dst) :
                         \/ c \in DOMAIN Tiles(task.old) /\ Tiles(dst)[c] = Tiles(task.old)[c]
                         \/ c \in DOMAIN Wanted /\ Tiles(dst)[c] = Wanted[c]
                    /\ dst.type # "none" => EachTileHashed(dst)
  BY DEF TranscodedFaithfully
<1>1. JobFits(task) /\ DstOk(dst)
  BY DEF JobsFit, TranscodeInv
<1>2. CASE transcoding = "closed"
  <2>1. dst = task.old
    BY <1>2 DEF TranscodeInv, Fresh
  <2>2. dst.type # "none" => EachTileHashed(dst)
    BY <1>1, <2>1 DEF JobFits, NoFile
  <2> QED BY <1>2, <2>1, <2>2
<1>3. CASE transcoding # "closed"
  <2>1. dst.type = DstType
    BY <1>3 DEF TranscodeInv
  <2>2. transcoding = "ok" => \A c \in DOMAIN Wanted : NewAt(dst, c)
    BY DEF TranscodeInv
  <2> QED BY <1>1, <2>1, <2>2, ShownTiles, AllShown, ShownHashed
<1> QED BY <1>2, <1>3

\* A finished run of the transcoder (transcoder.rs) has put every tile whose
\* transformation succeeded into its destination and left the others as they were; at
\* any time a tile is an old one or a transformed one, and is under its hash: between
\* any two schemas, in any batches, and whatever the cache keeps or evicts.
THEOREM TranscodesFaithfully ==
  ASSUME TransformFits, JobsFit
  PROVE  Init /\ [][Next]_vars => []TranscodedFaithfully
<1>1. Init => TranscodeInv
  BY TranscodeInit
<1>2. TranscodeInv /\ [Next]_vars => TranscodeInv'
  BY TranscodeStep
<1>3. TranscodeInv => TranscodedFaithfully
  BY TranscodeIsFaithful
<1> QED BY <1>1, <1>2, <1>3, PTL
=============================================================================
