----------------------------- MODULE Transcode -----------------------------
(***************************************************************************)
(* MbtilesTranscoder (transcoder.rs): a reader, a compute stage and a      *)
(* writer, joined by two bounded channels of batches, that put the tiles   *)
(* of one file into another, each through a transformation that may fail.  *)
(* A normalized source is read image by image and spread over its map by   *)
(* the writer; a flat one is read tile by tile, and a cache of results     *)
(* keeps tiles with the same contents from being transformed twice.        *)
(*                                                                         *)
(* What is read, an image id or a coordinate, is called an item.  Not      *)
(* modelled: adding to a destination that already has the dedup-id schema. *)
(***************************************************************************)
EXTENDS MbtilesFile, Sequences, FiniteSets

CONSTANTS
  Transform,   \* [Data -> Data \cup {Failed}]
  Failed,
  SmallData,   \* contents within max_tile_track_size
  BatchSize,
  Capacity,    \* of a channel, in batches
  Jobs         \* set of [src, old: files, type: dst_type]

VARIABLES
  transcoding,  \* "closed", "running", "ok" or "error"
  task,         \* the job
  dst,          \* the destination
  unread,       \* items the reader has not sent
  raw, encoded, \* the channels: sequences of sets of items; of [item -> data]
  computing,    \* the compute stage: {} or {[todo, done]}
  unflushed,    \* tiles that the general writer has not inserted yet
  idMap,        \* the temporary table from old image ids to new ones
  cache         \* [key -> transformed data]

vars == <<transcoding, task, dst, unread, raw, encoded, computing, unflushed, idMap, cache>>

src == task.src
ByImage == src.type \in Normalized

Init ==
  /\ transcoding = "closed"
  /\ task \in Jobs
  /\ dst = task.old
  /\ unread = {} /\ raw = <<>> /\ encoded = <<>> /\ computing = {}
  /\ unflushed = Empty /\ idMap = Empty /\ cache = Empty

Payload(item) == IF ByImage THEN src.images[item] ELSE src.rows[item].data

\* run, up to the pipeline.  The metadata is copied with the aggregate hash in
\* it.  A new normalized file has the tables of the hash schema.
Open ==
  /\ transcoding = "closed"
  /\ transcoding' = "running"
  /\ dst' = [dst EXCEPT
       !.type = IF task.type \in Normalized THEN "normalized" ELSE task.type,
       !.title = IF src.title = {} THEN @ ELSE src.title,
       !.agg = IF src.agg = {} THEN @ ELSE src.agg]
  /\ unread' = {i \in IF ByImage THEN DOMAIN src.images ELSE DOMAIN src.rows :
                  Payload(i) # Null}
  /\ UNCHANGED <<task, raw, encoded, computing, unflushed, idMap, cache>>

\* normalized_reader and general_reader: full batches, and then the rest.
Read ==
  /\ transcoding = "running"
  /\ unread # {}
  /\ Len(raw) < Capacity
  /\ \E batch \in SUBSET unread :
       /\ Cardinality(batch) = IF Cardinality(unread) < BatchSize
                               THEN Cardinality(unread) ELSE BatchSize
       /\ raw' = Append(raw, batch)
       /\ unread' = unread \ batch
  /\ UNCHANGED <<transcoding, task, dst, encoded, computing, unflushed, idMap, cache>>

-----------------------------------------------------------------------------
\* normalized_compute and general_compute

TakeBatch ==
  /\ transcoding = "running"
  /\ computing = {} /\ raw # <<>>
  /\ computing' = {[todo |-> Head(raw), done |-> Empty]}
  /\ raw' = Tail(raw)
  /\ UNCHANGED <<transcoding, task, dst, unread, encoded, unflushed, idMap, cache>>

\* The stored hash is the key, xxh3 of the data where there is none.
Key(c) ==
  IF src.type = "flat-with-hash" /\ src.rows[c].hash # Null
  THEN src.rows[c].hash ELSE <<"xxh3", Payload(c)>>

Result(result, b, item) ==
  {[todo |-> b.todo \ {item},
    done |-> IF result = Failed THEN b.done
             ELSE Overlay(b.done, [x \in {item} |-> result])]}

\* One item of the batch; rayon takes them in any order.  transcode_cached
\* caches no failure.
Encode ==
  /\ transcoding = "running"
  /\ \E b \in computing : \E item \in b.todo :
       LET data == Payload(item)
           cached == ~ByImage /\ data \in SmallData
           hit == cached /\ Key(item) \in DOMAIN cache
           result == IF hit THEN cache[Key(item)] ELSE Transform[data]
       IN /\ computing' = Result(result, b, item)
          /\ cache' = IF cached /\ result # Failed
                      THEN Overlay(cache, [k \in {Key(item)} |-> result]) ELSE cache
  /\ UNCHANGED <<transcoding, task, dst, unread, raw, encoded, unflushed, idMap>>

\* The cache is bounded by weight.
Evict ==
  /\ transcoding = "running"
  /\ \E k \in DOMAIN cache : cache' = Only(cache, DOMAIN cache \ {k})
  /\ UNCHANGED <<transcoding, task, dst, unread, raw, encoded, computing, unflushed, idMap>>

SendBatch ==
  /\ transcoding = "running"
  /\ \E b \in computing :
       /\ b.todo = {}
       /\ \/ b.done = Empty /\ encoded' = encoded
          \/ b.done # Empty /\ Len(encoded) < Capacity /\ encoded' = Append(encoded, b.done)
  /\ computing' = {}
  /\ UNCHANGED <<transcoding, task, dst, unread, raw, unflushed, idMap, cache>>

-----------------------------------------------------------------------------
\* normalized_writer and general_writer

\* write_normalized_chunk for flat destinations: an image for every coordinate
\* of the source's map that refers to it.
FannedOut(images) ==
  LET coords == {c \in DOMAIN src.rows : src.rows[c].hash \in DOMAIN images}
      hash(data) == IF dst.type = "flat" THEN Null ELSE Md5(data)
  IN [c \in coords |-> [data |-> images[src.rows[c].hash],
                        hash |-> hash(images[src.rows[c].hash])]]

Rehashed(images) == [id \in DOMAIN images |-> Md5(images[id])]

\* A batch in one transaction.  The tables of the dedup-id schema are not there.
WriteImages ==
  /\ transcoding = "running"
  /\ ByImage /\ encoded # <<>>
  /\ LET images == Head(encoded)
         new == Rehashed(images)
     IN /\ task.type # "dedup-id"
        /\ IF dst.type = "normalized"
           THEN /\ dst' = [dst EXCEPT !.images =
                     Overlay(@, [id \in {new[i] : i \in DOMAIN images} |->
                                   images[CHOOSE i \in DOMAIN images : new[i] = id]])]
                /\ idMap' = Overlay(idMap, new)
           ELSE /\ dst' = [dst EXCEPT !.rows = Overlay(@, FannedOut(images))]
                /\ idMap' = idMap
  /\ encoded' = Tail(encoded)
  /\ UNCHANGED <<transcoding, task, unread, raw, computing, unflushed, cache>>

\* insert_tiles under override, of all that is not flushed yet.
Flushed(tiles, full) ==
  IF full THEN dst' \in InsertTiles(dst, tiles, "override") /\ unflushed' = Empty
  ELSE dst' = dst /\ unflushed' = tiles

\* A batch, and a flush when there is enough or FLUSH_INTERVAL has passed.
WriteTiles ==
  /\ transcoding = "running"
  /\ ~ByImage /\ encoded # <<>>
  /\ LET tiles == Overlay(unflushed, Head(encoded))
     IN \E timer \in BOOLEAN :
          Flushed(tiles, timer \/ Cardinality(DOMAIN tiles) >= BatchSize)
  /\ encoded' = Tail(encoded)
  /\ UNCHANGED <<transcoding, task, unread, raw, computing, idMap, cache>>

AllWritten == unread = {} /\ raw = <<>> /\ computing = {} /\ encoded = <<>>

\* The end of normalized_writer: the map of a normalized destination, joined
\* with the new ids.
FinishImages ==
  /\ transcoding = "running"
  /\ ByImage /\ AllWritten
  /\ task.type # "dedup-id"
  /\ dst' = IF dst.type = "normalized"
            THEN [dst EXCEPT !.rows = Overlay(@,
                    [c \in {c \in DOMAIN src.rows : src.rows[c].hash \in DOMAIN idMap} |->
                       [data |-> Null, hash |-> idMap[src.rows[c].hash]]])]
            ELSE dst
  /\ transcoding' = "ok"
  /\ UNCHANGED <<task, unread, raw, encoded, computing, unflushed, idMap, cache>>

\* The end of general_writer: the last tiles.
FinishTiles ==
  /\ transcoding = "running"
  /\ ~ByImage /\ AllWritten
  /\ Flushed(unflushed, TRUE)
  /\ transcoding' = "ok"
  /\ UNCHANGED <<task, unread, raw, encoded, computing, idMap, cache>>

\* Any stage fails, try_join drops the others, and what is in flight is lost.
Fail ==
  /\ transcoding = "running"
  /\ transcoding' = "error"
  /\ unread' = {} /\ raw' = <<>> /\ encoded' = <<>> /\ computing' = {}
  /\ unflushed' = Empty /\ idMap' = Empty /\ cache' = Empty
  /\ UNCHANGED <<task, dst>>

Next ==
  \/ Open \/ Read \/ TakeBatch \/ Encode \/ Evict \/ SendBatch
  \/ WriteImages \/ WriteTiles \/ FinishImages \/ FinishTiles \/ Fail

\* Each stage runs while it can; a writer that finds no table fails.
Progress ==
  Open \/ Read \/ TakeBatch \/ Encode \/ SendBatch
    \/ WriteImages \/ WriteTiles \/ FinishImages \/ FinishTiles
    \/ (task.type = "dedup-id" /\ ByImage /\ (encoded # <<>> \/ AllWritten) /\ Fail)

-----------------------------------------------------------------------------
\* Properties

\* What the destination is to have of the source.
Wanted ==
  LET tiles == Tiles(src)
      result(c) == Transform[tiles[c]]
  IN [c \in {c \in DOMAIN tiles : tiles[c] # Null /\ result(c) # Failed} |-> result(c)]

\* A finished run has put every tile whose transformation succeeded into the
\* destination, between any two schemas, and left the others as they were; at
\* any earlier time, and after a failure, a tile is an old one or a
\* transformed one.  Every tile is stored under the hash of its new contents.
\* A source whose stored hashes are wrong is excluded: its hashes are the
\* cache's keys.
TranscodedFaithfully ==
  EachTileHashed(src) =>
    /\ transcoding = "ok" => Tiles(dst) = Overlay(Tiles(task.old), Wanted)
    /\ \A c \in DOMAIN Tiles(dst) :
         \/ c \in DOMAIN Tiles(task.old) /\ Tiles(dst)[c] = Tiles(task.old)[c]
         \/ c \in DOMAIN Wanted /\ Tiles(dst)[c] = Wanted[c]
    /\ dst.type # "none" => EachTileHashed(dst)

\* A run ends: the bounded channels never leave the stages waiting for each
\* other.
TranscodeEnds == <>(transcoding \in {"ok", "error"})
=============================================================================
