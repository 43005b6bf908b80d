--------------------------- MODULE MbtilesSource ---------------------------
(***************************************************************************)
(* An MBTiles file from its creation to the tiles martin serves from it.   *)
(* martin-cp creates the schema statement by statement, may be killed      *)
(* between two of them and run again on what is there; `mbtiles validate`  *)
(* and martin open whatever they find: the schema is recognised from the   *)
(* tables, the format from a few sampled tiles and the metadata.           *)
(***************************************************************************)
EXTENDS Integers, Sequences, FiniteSets, TileKinds

CONSTANTS
  Foreign,    \* [objects, rows, meta]: files other programs wrote
  Asked,      \* the types martin-cp is asked for
  Modes,      \* what it is told to do with duplicates, "none" if nothing
  Bodies,     \* the tiles its sources give
  Places,     \* [z, x, y]: where it puts them, rows counted from the north
  MetaFormats, MetaPackings,  \* what the metadata says of them ({} or {value})
  MaxZoom,    \* the deepest zoom there is (30 in the code)
  LastZoom,   \* the deepest zoom sampled when the metadata names none (18)
  MaxRows,    \* bound: rows one run writes
  MaxRuns     \* bound: runs of martin-cp on one file

VARIABLES
  objects,  \* {[name, table, columns, unique, over]}: tables and views
  rows,     \* {[in, z, x, y, body]}: stored tiles; no body is a NULL
  meta,     \* [min, max, format, packing]: metadata, each {} or {value}
  tool,     \* martin-cp: [phase, type, mode, todo, runs, left, wrote]
  source,   \* martin on the file: [state, info, seen, zooms]
  valid     \* `mbtiles validate` on it: [state, seen]

vars == <<objects, rows, meta, tool, source, valid>>

At == {"zoom_level", "tile_column", "tile_row"}
NoMeta == [min |-> {}, max |-> {}, format |-> {}, packing |-> {}]
NotOpened == [state |-> "none", info |-> {}, seen |-> {}, zooms |-> {}]
NotChecked == [state |-> "none", seen |-> {}]
NoTool == [phase |-> "idle", type |-> "none", mode |-> "none", todo |-> <<>>,
           runs |-> 0, left |-> 0, wrote |-> {}]

Table(name, columns, unique) ==
  [name |-> name, table |-> TRUE, columns |-> columns, unique |-> unique, over |-> name]
View(name, columns, over) ==
  [name |-> name, table |-> FALSE, columns |-> columns, unique |-> FALSE, over |-> over]

Metadata == Table("metadata", {"name", "value"}, FALSE)
TilesTable == Table("tiles", At \cup {"tile_data"}, TRUE)
HashTable == Table("tiles_with_hash", At \cup {"tile_data", "tile_hash"}, TRUE)
Map == Table("map", At \cup {"tile_id"}, TRUE)
Images == Table("images", {"tile_id", "tile_data"}, FALSE)
TilesView(over) == View("tiles", At \cup {"tile_data"}, over)
HashView == View("tiles_with_hash", At \cup {"tile_data", "tile_hash"}, "map")

\* The statements that make a file of a type, each committed by itself.
Statements(type) ==
  <<Metadata>> \o
  CASE type = "flat" -> <<TilesTable>>
    [] type = "flat-with-hash" -> <<HashTable, TilesView("tiles_with_hash")>>
    [] type = "normalized" -> <<Map, Images, TilesView("map")>>
    [] type = "normalized-with-view" -> <<Map, Images, TilesView("map"), HashView>>

\* A table, or a table or view, that has the columns; others do no harm.
HasTable(objs, name, columns) == \E o \in objs : o.name = name /\ o.table /\ columns \subseteq o.columns
HasColumns(objs, name, columns) == \E o \in objs : o.name = name /\ columns \subseteq o.columns

IsNormalized(objs) ==
  /\ HasTable(objs, "map", At \cup {"tile_id"})
  /\ HasTable(objs, "images", {"tile_id", "tile_data"})
IsDedup(objs) ==
  /\ HasTable(objs, "tiles_shallow", At \cup {"tile_data_id"})
  /\ HasTable(objs, "tiles_data", {"tile_data_id", "tile_data"})
HasHash(objs) == HasColumns(objs, "tiles_with_hash", At \cup {"tile_data", "tile_hash"})
IsFlatWithHash(objs) == HasHash(objs) /\ \E o \in objs : o.name = "tiles_with_hash" /\ o.table
IsFlat(objs) == HasTable(objs, "tiles", At \cup {"tile_data"})

MainTable(type) ==
  CASE type = "flat" -> "tiles"
    [] type = "flat-with-hash" -> "tiles_with_hash"
    [] type = "dedup" -> "tiles_shallow"
    [] OTHER -> "map"

\* The type of the tables there are, in the order they are looked for.
TypeOfTables(objs) ==
  IF IsNormalized(objs) THEN IF HasHash(objs) THEN "normalized-with-view" ELSE "normalized"
  ELSE IF IsDedup(objs) THEN "dedup"
  ELSE IF IsFlatWithHash(objs) THEN "flat-with-hash"
  ELSE IF IsFlat(objs) THEN "flat"
  ELSE "unknown"

\* A type whose main table has no unique index on the coordinates is refused.
DetectedType(objs) ==
  LET type == TypeOfTables(objs)
  IN  IF \E o \in objs : o.name = MainTable(type) /\ o.unique THEN type ELSE "unknown"

Readable == HasColumns(objects, "tiles", At \cup {"tile_data"})

\* What is read through `tiles`, a table or a view.
Tiles == {r \in rows : \E o \in objects : o.name = "tiles" /\ o.over = r.in}
TilesAt(z) == {r \in Tiles : r.z = z}
-----------------------------------------------------------------------------
Init ==
  /\ \/ objects = {} /\ rows = {} /\ meta = NoMeta
     \/ \E f \in Foreign : objects = f.objects /\ rows = f.rows /\ meta = f.meta
  /\ tool = NoTool /\ source = NotOpened /\ valid = NotChecked

\* martin-cp on a new file makes the schema it is asked for; on any other it
\* takes the type it finds, if it was told what to do with duplicates (main,
\* init_schema).
Start(type, mode) ==
  /\ tool.phase \in {"idle", "killed", "failed", "done"} /\ tool.runs < MaxRuns
  /\ tool' = [tool EXCEPT
                !.runs = @ + 1, !.left = MaxRows, !.mode = IF mode = "none" THEN "override" ELSE mode,
                !.type = IF objects = {} THEN type ELSE DetectedType(objects),
                !.todo = IF objects = {} THEN Statements(type) ELSE <<>>,
                !.phase = CASE objects = {} -> "create"
                            [] objects # {} /\ (mode = "none" \/ DetectedType(objects) = "unknown") -> "failed"
                            [] OTHER -> "write"]
  /\ UNCHANGED <<objects, rows, meta, source, valid>>

\* CREATE ... IF NOT EXISTS.
CreateNext ==
  /\ tool.phase = "create" /\ tool.todo # <<>>
  /\ objects' = IF \E o \in objects : o.name = Head(tool.todo).name THEN objects
                ELSE objects \cup {Head(tool.todo)}
  /\ tool' = [tool EXCEPT !.todo = Tail(@)]
  /\ UNCHANGED <<rows, meta, source, valid>>

\* A new file gets the format of its source and the zooms asked for.
WriteMetadata ==
  /\ tool.phase = "create" /\ tool.todo = <<>>
  /\ \E format \in MetaFormats, packing \in MetaPackings :
       meta' = [min |-> {0}, max |-> {MaxZoom}, format |-> format, packing |-> packing]
  /\ tool' = [tool EXCEPT !.phase = "write"]
  /\ UNCHANGED <<objects, rows, source, valid>>

\* Every normalized type is written as `map` and `images`.
WrittenTable(type) == IF type = "dedup" THEN "map" ELSE MainTable(type)
Writable(objs, type) ==
  CASE type = "flat" -> IsFlat(objs)
    [] type = "flat-with-hash" -> IsFlatWithHash(objs)
    [] OTHER -> IsNormalized(objs)

\* A tile goes into the table of the type, where rows are counted from the
\* south; a tile at its place is replaced, kept, or ends the run, as does a
\* table that is not there (insert_tiles).
Insert(place, body) ==
  /\ tool.phase = "write" /\ tool.left > 0
  /\ LET table == WrittenTable(tool.type)
         row == [in |-> table, z |-> place.z, x |-> place.x, y |-> 2 ^ place.z - 1 - place.y, body |-> {body}]
         there == {r \in rows : [r EXCEPT !.body = {body}] = row}
         fails == ~Writable(objects, tool.type) \/ (there # {} /\ tool.mode = "abort")
         kept == there # {} /\ tool.mode = "ignore"
     IN  IF fails \/ kept
         THEN /\ tool' = [tool EXCEPT !.left = @ - 1, !.phase = IF fails THEN "failed" ELSE @]
              /\ rows' = rows
         ELSE /\ tool' = [tool EXCEPT !.left = @ - 1,
                            !.wrote = {w \in @ : w.place # place} \cup {[place |-> place, body |-> body]}]
              /\ rows' = (rows \ there) \cup {row}
  /\ UNCHANGED <<objects, meta, source, valid>>

Finish ==
  /\ tool.phase = "write"
  /\ tool' = [tool EXCEPT !.phase = "done"]
  /\ UNCHANGED <<objects, rows, meta, source, valid>>

\* The tool is killed: what it committed stays.
Kill ==
  /\ tool.phase \in {"create", "write"}
  /\ tool' = [tool EXCEPT !.phase = "killed", !.todo = <<>>]
  /\ UNCHANGED <<objects, rows, meta, source, valid>>
-----------------------------------------------------------------------------
Sampled(row) == {Detect(b) : b \in row.body}

\* A zoom the metadata names, unless it is not a byte's number (get_metadata).
ZoomOr(named, default) ==
  IF named \cap 0..255 = {} THEN default ELSE CHOOSE z \in named \cap 0..255 : TRUE

\* The zooms looked at: what the metadata names, or all the usual ones.
Zooms == ZoomOr(meta.min, 0)..ZoomOr(meta.max, LastZoom)

\* A mutant: the format the metadata names wins.
MetaWins(found) ==
  IF meta.format # {} THEN {OfFormat(f) : f \in meta.format} ELSE found

\* The metadata is used only when no tile told (check_format_metadata).
WithFormat(found) ==
  IF found = {} THEN {OfFormat(f) : f \in meta.format} ELSE found

\* So is its compression, on the format it named (check_compression_metadata).
WithPacking(found, told) ==
  IF told \/ meta.packing = {} THEN found
  ELSE {Info(i.format, p) : i \in found, p \in meta.packing}

\* martin opens the file, at any time (MbtSource::new, detect_format): some
\* first tile, then one of each zoom it was not of; two that differ, or nothing
\* that tells, refuse the file.
Open ==
  /\ source = NotOpened /\ objects # {}
  /\ LET eligible == {r \in Tiles : r.z >= 0}
     IN  \E first \in IF eligible = {} THEN {{}} ELSE {{r} : r \in eligible} :
           LET zooms == {z \in Zooms : TilesAt(z) # {} /\ \A r \in first : r.z # z}
           IN  \E pick \in [zooms -> Tiles] :
                 LET found == UNION ({Sampled(r) : r \in first} \cup {Sampled(pick[z]) : z \in zooms})
                     info == WithPacking(WithFormat(found), found # {})
                     refused == ~Readable \/ Metadata \notin objects
                                \/ Cardinality(found) > 1 \/ info = {}
                 IN  /\ \A z \in zooms : pick[z] \in TilesAt(z)
                     /\ source' = [state |-> IF refused THEN "refused" ELSE "open",
                                   info |-> IF refused THEN {} ELSE info,
                                   seen |-> Tiles, zooms |-> Zooms]
  /\ UNCHANGED <<objects, rows, meta, tool, valid>>

\* A file that stays locked through all the retries is refused as well.
OpenBusy ==
  /\ source = NotOpened /\ tool.phase \in {"create", "write"}
  /\ source' = [NotOpened EXCEPT !.state = "refused"]
  /\ UNCHANGED <<objects, rows, meta, tool, valid>>

\* The coordinates of a stored tile are on the grid (check_tiles_type_validity).
OnGrid(r) == r.z \in 0..MaxZoom /\ r.x \in 0..(2 ^ r.z - 1) /\ r.y \in 0..(2 ^ r.z - 1)

\* `mbtiles validate`: SQLite's own check and those of the hashes, which are
\* MbtilesFile's, may go either way; the type and the coordinates are checked here.
Validate(sound) ==
  /\ valid = NotChecked /\ objects # {}
  /\ valid' = [state |-> IF sound /\ Readable /\ DetectedType(objects) # "unknown"
                            /\ \A r \in Tiles : OnGrid(r)
                         THEN "valid" ELSE "invalid",
               seen |-> Tiles]
  /\ UNCHANGED <<objects, rows, meta, tool, source>>

Next ==
  \/ \E type \in Asked, mode \in Modes : Start(type, mode)
  \/ CreateNext
  \/ WriteMetadata
  \/ \E place \in Places, body \in Bodies : Insert(place, body)
  \/ Finish
  \/ Kill
  \/ Open
  \/ OpenBusy
  \/ \E sound \in BOOLEAN : Validate(sound)

Spec == Init /\ [][Next]_vars
-----------------------------------------------------------------------------
\* The tile a request for a place finds: rows are counted from the north in a
\* request and from the south in the file (get_tile, invert_y_value).
Found(seen, z, x, y) == {r \in seen : r.z = z /\ r.x = x /\ r.y = 2 ^ z - 1 - y}

\* What martin-cp wrote is what a request for its place finds, however often it
\* was killed and run again while it made the tables.
WrittenIsFound ==
  Readable => \A w \in tool.wrote :
                {r.body : r \in Found(Tiles, w.place.z, w.place.x, w.place.y)} = {{w.body}}

\* Whichever tiles Open looks at, one of them has bytes: those of a zoom it
\* looks at have, or all have.
Telling ==
  \E zooms \in {{r.z : r \in source.seen} \cap Nat} \cup {{z} : z \in source.zooms} :
    /\ \E r \in source.seen : r.z \in zooms
    /\ \A r \in source.seen : r.z \in zooms => r.body # {}

\* A file whose tiles are all alike, of a kind the sniffers know, is served
\* under that kind whatever its metadata says.
ServedAsStored ==
  source.state = "open" /\ Telling =>
    LET bodies == UNION {r.body : r \in source.seen}
    IN  (\A b, c \in bodies : Recognised(b) /\ Detect(b) = Detect(c)) =>
          \A info \in source.info, b \in bodies : Tells(info, b)

\* A file whose zooms hold tiles of different kinds is not opened.
MixedIsRefused ==
  source.state = "open" =>
    LET At0(z) == {r \in source.seen : r.z = z}
        uniform == \A z \in source.zooms : \A r, s \in At0(z) : r.body # {} /\ Sampled(r) = Sampled(s)
    IN  uniform => \A r, s \in source.seen :
                     r.z \in source.zooms /\ s.z \in source.zooms => Sampled(r) = Sampled(s)

\* Each tile of a file that validated is found by one request that exists.
ValidatedIsReachable ==
  valid.state = "valid" =>
    \A r \in valid.seen :
      \E z \in 0..MaxZoom : \E x, y \in 0..(2 ^ z - 1) : r \in Found(valid.seen, z, x, y)

\* What goes into a file, through crashes of the tool that makes it, comes out
\* of it, under its own label, or the file is refused.
FilesServedAsWritten == WrittenIsFound /\ ServedAsStored /\ MixedIsRefused /\ ValidatedIsReachable
=============================================================================
