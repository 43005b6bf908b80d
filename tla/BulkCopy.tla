------------------------------ MODULE BulkCopy ------------------------------
(***************************************************************************)
(* martin-cp (martin-cp.rs): the tiles of some boxes and zoom levels are   *)
(* fetched from a source, Concurrency at a time, and sent through a        *)
(* bounded channel to a receiver that inserts them in batches.  Then the   *)
(* zoom levels in the metadata (update.rs) and the aggregate hash are      *)
(* brought up to date.  The file is kept between commands, so that a copy  *)
(* may meet what an earlier one, or the part of it before a failure, left. *)
(*                                                                         *)
(* A tile is keyed as it is requested; insert_tiles and get_tile both      *)
(* invert y.  What the source holds does not change during a behaviour.    *)
(***************************************************************************)
EXTENDS MbtilesFile, Integers, FiniteSets, SequencesExt

CONSTANTS
  Content,      \* [Coords -> Data \cup {Nothing}]: the tiles of the source
  Nothing,      \* an empty tile
  Commands,     \* set of [boxes, zooms: sequences, mode, type, skipHash]
  Concurrency,
  ChannelSize,  \* 500
  BatchRows,    \* BATCH_SIZE, 1000
  MaxRuns,
  Unset         \* an option that is not given, a value that is not there

VARIABLES
  copying,   \* "idle", "tiles" or "metadata"
  outcome,   \* of the last copy: "none", "ok", "error" or "refused"
  command,   \* the last copy
  output,    \* the file
  zoomMeta,  \* [min, max]: the file's minzoom and maxzoom
  todo,      \* coordinates that are not being fetched yet, in order
  fetching,  \* coordinates that are
  channel,   \* coordinates of the tiles in it
  batch,     \* [coordinate -> data] that is not inserted yet
  copied,    \* did_copy_tiles
  before,    \* history: the tiles of the file when the copy began
  runs

vars == <<copying, outcome, command, output, zoomMeta, todo, fetching, channel,
          batch, copied, before, runs>>

NoMeta == [min |-> Unset, max |-> Unset]

Init ==
  /\ copying = "idle" /\ outcome = "none"
  /\ command \in Commands
  /\ output = NoFile /\ zoomMeta = NoMeta
  /\ todo = <<>> /\ fetching = {} /\ channel = <<>> /\ batch = Empty
  /\ copied = FALSE /\ before = Empty /\ runs = 0

-----------------------------------------------------------------------------
\* What is to be copied: rectangles of tiles (rectangle.rs), inclusive on all sides,
\* in a list that append_rect keeps free of overlaps.  Boxes of coordinates are
\* rectangles of the largest zoom level.

Lesser(a, b) == IF a <= b THEN a ELSE b
Greater(a, b) == IF a >= b THEN a ELSE b

\* TileRect::new, whose assertion fails on an inverted rectangle.
Rect(zoom, minX, minY, maxX, maxY) ==
  [zoom |-> zoom, minX |-> minX, minY |-> minY, maxX |-> maxX, maxY |-> maxY]

IsRect(r) ==
  /\ r = Rect(r.zoom, r.minX, r.minY, r.maxX, r.maxY)
  /\ {r.zoom, r.minX, r.minY, r.maxX, r.maxY} \subseteq Nat
  /\ r.minX <= r.maxX /\ r.minY <= r.maxY

HasTile(r, t) ==
  /\ t[1] = r.zoom
  /\ r.minX <= t[2] /\ t[2] <= r.maxX
  /\ r.minY <= t[3] /\ t[3] <= r.maxY

IsOverlapping(r, other) ==
  /\ r.zoom = other.zoom
  /\ r.minX <= other.maxX /\ r.maxX >= other.minX
  /\ r.minY <= other.maxY /\ r.maxY >= other.minY

\* get_non_overlapping: the parts of o outside r, to its left and its right in
\* full height, above and below it only as wide as r.
NonOverlapping(r, o) ==
  LET minX == Greater(o.minX, r.minX)
      maxX == Lesser(o.maxX, r.maxX)
  IN <<IF o.minX < r.minX THEN <<Rect(o.zoom, o.minX, o.minY, r.minX - 1, o.maxY)>> ELSE <<>>,
       IF o.maxX > r.maxX THEN <<Rect(o.zoom, r.maxX + 1, o.minY, o.maxX, o.maxY)>> ELSE <<>>,
       IF o.minY < r.minY THEN <<Rect(o.zoom, minX, o.minY, maxX, r.minY - 1)>> ELSE <<>>,
       IF o.maxY > r.maxY THEN <<Rect(o.zoom, minX, r.maxY + 1, maxX, o.maxY)>> ELSE <<>> >>

Outside(r, o) == IF IsOverlapping(r, o) THEN FlattenSeq(NonOverlapping(r, o)) ELSE <<o>>

\* append_rect: a rectangle that overlaps one of the list is replaced by its parts
\* outside that one, and these again by theirs.  (The parts do not overlap.)
AppendRect(rects, new) ==
  LET parts[i \in 0..Len(rects)] ==
        IF i = 0 THEN <<new>>
        ELSE FlattenSeq([k \in DOMAIN parts[i - 1] |-> Outside(rects[i], parts[i - 1][k])])
  IN rects \o parts[Len(rects)]

\* A bounding box at another zoom level (bbox_to_xyz): the tiles of its corners.
AtZoom(box, zoom) ==
  LET scale == 2 ^ (box.zoom - zoom)
  IN Rect(zoom, box.minX \div scale, box.minY \div scale, box.maxX \div scale, box.maxY \div scale)

\* compute_tile_ranges: every box at every zoom level.
Boxes(boxes, zooms) ==
  FlattenSeq([z \in DOMAIN zooms |-> [b \in DOMAIN boxes |-> AtZoom(boxes[b], zooms[z])]])

TileRanges(boxes, zooms) ==
  LET all == Boxes(boxes, zooms)
      ranges[i \in 0..Len(all)] == IF i = 0 THEN <<>> ELSE AppendRect(ranges[i - 1], all[i])
  IN ranges[Len(all)]

\* iterate_tiles: column by column.
TilesOf(r) ==
  FlattenSeq([i \in 1..(r.maxX - r.minX + 1) |->
                [j \in 1..(r.maxY - r.minY + 1) |-> <<r.zoom, r.minX + i - 1, r.minY + j - 1>>]])

IterateTiles(rects) == FlattenSeq([i \in DOMAIN rects |-> TilesOf(rects[i])])

Requested(c) == IterateTiles(TileRanges(c.boxes, c.zooms))

ZoomsOf(c) == {c.zooms[i] : i \in DOMAIN c.zooms}
LeastOf(S) == CHOOSE z \in S : \A y \in S : z <= y
GreatestOf(S) == CHOOSE z \in S : \A y \in S : z >= y

-----------------------------------------------------------------------------
\* update_metadata

\* set_zoom_value.  A value that does not parse is replaced in every mode.
SetZoom(old, isMax, new, update) ==
  LET outside == IF isMax THEN old < new ELSE old > new
  IN IF old = Unset THEN new
     ELSE IF update = "skip" THEN old
     ELSE IF update = "reset" \/ outside THEN new ELSE old

\* update_metadata, from the zoom levels of the tiles (compute_min_max_zoom).
UpdatedZooms(meta, tiles, update) ==
  LET zooms == {c[1] : c \in DOMAIN tiles}
  IN IF zooms # {}
     THEN [min |-> SetZoom(meta.min, FALSE, LeastOf(zooms), update),
           max |-> SetZoom(meta.max, TRUE, GreatestOf(zooms), update)]
     ELSE IF update = "reset" THEN NoMeta ELSE meta

-----------------------------------------------------------------------------
\* run_tile_copy

\* The mode the copy inserts with.
Mode(c) == IF c.mode = Unset THEN "override" ELSE c.mode

\* A file that is not empty is refused unless --on-duplicate is given; an empty
\* one gets its schema and the requested zoom levels (init_schema).
Start(c) ==
  /\ copying = "idle"
  /\ runs < MaxRuns
  /\ runs' = runs + 1
  /\ command' = c
  /\ before' = Tiles(output)
  /\ IF c.mode = Unset /\ output # NoFile
     THEN /\ outcome' = "refused"
          /\ UNCHANGED <<copying, output, zoomMeta, todo, copied>>
     ELSE /\ outcome' = "none"
          /\ copying' = "tiles"
          /\ output' = IF output = NoFile THEN [output EXCEPT !.type = c.type] ELSE output
          /\ zoomMeta' = IF output = NoFile
                         THEN [min |-> LeastOf(ZoomsOf(c)), max |-> GreatestOf(ZoomsOf(c))]
                         ELSE zoomMeta
          /\ todo' = Requested(c)
          /\ copied' = FALSE
  /\ UNCHANGED <<fetching, channel, batch>>

Fetch ==
  /\ copying = "tiles" /\ todo # <<>>
  /\ Cardinality(fetching) < Concurrency
  /\ fetching' = fetching \cup {Head(todo)}
  /\ todo' = Tail(todo)
  /\ UNCHANGED <<copying, outcome, command, output, zoomMeta, channel, batch, copied, before, runs>>

\* A tile was fetched, and is sent once the channel has room.
Deliver(c) ==
  /\ copying = "tiles" /\ c \in fetching
  /\ Len(channel) < ChannelSize
  /\ channel' = Append(channel, c)
  /\ fetching' = fetching \ {c}
  /\ UNCHANGED <<copying, outcome, command, output, zoomMeta, todo, batch, copied, before, runs>>

\* The copy ends with an error: try_join drops the other half, with all that is
\* in flight and the batch.
EndedWith(result) ==
  /\ copying' = "idle"
  /\ outcome' = result
  /\ todo' = <<>> /\ fetching' = {} /\ channel' = <<>> /\ batch' = Empty

\* The batch is inserted, or the copy ends.
Saved(tiles) ==
  LET files == InsertTiles(output, tiles, Mode(command))
  IN IF files = {}
     THEN EndedWith("error") /\ UNCHANGED output
     ELSE /\ output' \in files
          /\ batch' = Empty
          /\ UNCHANGED <<outcome, todo, fetching>>

\* The receiver takes a tile.  Empty ones are only counted.  A batch is saved
\* when it is full, or when SAVE_EVERY has passed.
Receive(timer) ==
  /\ copying = "tiles" /\ channel # <<>>
  /\ LET c == Head(channel)
         tiles == Overlay(batch, [x \in {c} |-> Content[c]])
     IN IF Content[c] = Nothing
        THEN /\ channel' = Tail(channel)
             /\ UNCHANGED <<copying, outcome, output, todo, fetching, batch, copied>>
        ELSE /\ copied' = TRUE
             /\ IF timer \/ Cardinality(DOMAIN tiles) >= BatchRows
                THEN /\ Saved(tiles)
                     /\ outcome' # "error" => channel' = Tail(channel) /\ UNCHANGED copying
                ELSE /\ batch' = tiles
                     /\ channel' = Tail(channel)
                     /\ UNCHANGED <<copying, outcome, output, todo, fetching>>
  /\ UNCHANGED <<command, zoomMeta, before, runs>>

\* Mutant: the last batch is saved only if it is full.
SaveRestIfFull ==
  /\ copying = "tiles"
  /\ todo = <<>> /\ fetching = {} /\ channel = <<>>
  /\ copying' = "metadata"
  /\ batch' = Empty
  /\ UNCHANGED <<outcome, command, output, zoomMeta, todo, fetching, channel, copied, before, runs>>

\* All senders are gone and the channel is drained.
SaveRest ==
  /\ copying = "tiles"
  /\ todo = <<>> /\ fetching = {} /\ channel = <<>>
  /\ Saved(batch)
  /\ outcome' # "error" => copying' = "metadata" /\ UNCHANGED channel
  /\ UNCHANGED <<command, zoomMeta, copied, before, runs>>

\* The zoom levels, and the aggregate hash if a tile was copied.
Finish ==
  /\ copying = "metadata"
  /\ zoomMeta' = UpdatedZooms(zoomMeta, Tiles(output), "grow-only")
  /\ output' = IF ~command.skipHash /\ copied THEN UpdateAggHash(output) ELSE output
  /\ EndedWith("ok")
  /\ UNCHANGED <<command, copied, before, runs>>

\* A tile cannot be fetched, a statement fails, or the process dies.
Fail ==
  /\ copying # "idle"
  /\ EndedWith("error")
  /\ UNCHANGED <<command, output, zoomMeta, copied, before, runs>>

\* mbtiles meta-update, between copies.
MetaUpdate(update) ==
  /\ copying = "idle" /\ output # NoFile
  /\ zoomMeta' = UpdatedZooms(zoomMeta, Tiles(output), update)
  /\ UNCHANGED <<copying, outcome, command, output, todo, fetching, channel, batch,
                 copied, before, runs>>

Next ==
  \/ \E c \in Commands : Start(c)
  \/ Fetch
  \/ \E c \in Coords : Deliver(c)
  \/ \E timer \in BOOLEAN : Receive(timer)
  \/ SaveRest \/ Finish \/ Fail
  \/ \E update \in {"reset", "grow-only", "skip"} : MetaUpdate(update)

Progress == Fetch \/ (\E c \in Coords : Deliver(c)) \/ Receive(FALSE) \/ SaveRest \/ Finish

-----------------------------------------------------------------------------
\* Properties

Asked(c) == {t \in Coords : \E b \in DOMAIN c.boxes : \E z \in DOMAIN c.zooms :
               HasTile(AtZoom(c.boxes[b], c.zooms[z]), t)}

Found(c) == [t \in {t \in Asked(c) : Content[t] # Nothing} |-> Content[t]]

\* A copy that ends well has put every tile of the boxes into the file, fetched
\* once however the boxes overlap, with those that were there before kept or
\* replaced as --on-duplicate says; whatever earlier copies left.  While it
\* runs and after a failure a tile is the old one or the source's, stored under
\* its hash.
CopiedFaithfully ==
  /\ outcome = "ok" =>
       Tiles(output) = IF Mode(command) = "ignore" THEN Overlay(Found(command), before)
                       ELSE Overlay(before, Found(command))
  /\ output # NoFile => EachTileHashed(output)
  /\ \A t \in DOMAIN Tiles(output) :
       \/ t \in DOMAIN before /\ Tiles(output)[t] = before[t]
       \/ t \in DOMAIN Found(command) /\ Tiles(output)[t] = Content[t]
  /\ copying = "tiles" =>
       \A i \in DOMAIN todo : /\ todo[i] \in Asked(command) \ fetching
                              /\ \A j \in DOMAIN todo : todo[i] = todo[j] => i = j

\* After a copy that ended well, the zoom levels in the metadata enclose those of
\* the tiles, also of the tiles that failed copies left.
ZoomsEnclose ==
  outcome = "ok" =>
    \A t \in DOMAIN Tiles(output) :
      zoomMeta.min # Unset /\ zoomMeta.min <= t[1] /\ t[1] <= zoomMeta.max

\* A copy ends.
CopyEnds == copying # "idle" ~> copying = "idle"

\* --on-duplicate says "what to do if a tile with the same Z/X/Y already exists":
\* under abort, an insertion fails only if one does.
AbortsOnDuplicateOnly ==
  [][ (\E timer \in BOOLEAN : Receive(timer)) \/ SaveRest =>
        (outcome' = "error" => DOMAIN before \cap Asked(command) # {}) ]_vars
=============================================================================
