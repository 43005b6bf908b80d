---------------------------- MODULE MbtilesFile ----------------------------
(***************************************************************************)
(* What an MBTiles file holds and how the mbtiles crate reads and writes   *)
(* it: the schemas of mbtiles-schema.md, the tiles view over them, the     *)
(* hashes of validation.rs and the inserts of mbtiles.rs.                  *)
(*                                                                         *)
(* Every schema is one record.  rows is the table keyed by coordinates; in *)
(* the flat schemas a row has its data, in the normalized ones its hash    *)
(* column is the id of an image.  MD5 is taken to be free of collisions,   *)
(* so a hash is its input, and the aggregate hash is the tiles view.       *)
(* A metadata value is {} when its key is missing and {v} otherwise, and    *)
(* so is the table of binary patches.                                      *)
(***************************************************************************)
EXTENDS Naturals

CONSTANTS
  Coords,   \* tile coordinates
  Data,     \* contents of tiles
  Titles,   \* values of the metadata keys that are not hashes
  Null      \* SQL's NULL

Flat == {"flat", "flat-with-hash"}
Normalized == {"normalized", "dedup-id"}   \* NormalizedSchema::Hash and ::DedupId
Types == Flat \cup Normalized

Modes == {"override", "ignore", "abort"}   \* CopyDuplicateMode

Md5(data) == IF data = Null THEN Null ELSE <<"md5", data>>
Md5Empty == <<"">>      \* the text '' that stands for the hash of a NULL tile

\* NULL is no value, and no text.
ASSUME NullAssumption ==
  /\ Null \notin Data \cup Titles
  /\ Null # Md5Empty /\ \A d \in Data : Null # Md5(d)

Empty == [x \in {} |-> Null]

NoFile ==
  [type |-> "none", rows |-> Empty, images |-> Empty, binary |-> {},
   title |-> {}, agg |-> {}, before |-> {}, after |-> {}]

-----------------------------------------------------------------------------

\* g where it is defined, f elsewhere.
Overlay(f, g) ==
  [x \in DOMAIN f \cup DOMAIN g |-> IF x \in DOMAIN g THEN g[x] ELSE f[x]]

Only(f, S) == [x \in DOMAIN f \cap S |-> f[x]]

\* The tiles view: a coordinate whose image is missing is not in it.
Tiles(f) ==
  IF f.type \in Normalized
  THEN [c \in {c \in DOMAIN f.rows : f.rows[c].hash \in DOMAIN f.images}
          |-> f.images[f.rows[c].hash]]
  ELSE [c \in DOMAIN f.rows |-> f.rows[c].data]

\* The tiles with a hash column, computed where the schema has none.
HashedTiles(f) ==
  [c \in DOMAIN Tiles(f) |->
     [data |-> Tiles(f)[c],
      hash |-> IF f.type = "flat" THEN Md5(Tiles(f)[c]) ELSE f.rows[c].hash]]

\* Mutant: a normalized file keeps the data with the coordinates.
StoredWithData(type, row) == IF type = "flat" THEN [row EXCEPT !.hash = Null] ELSE row

\* What a row of a selection becomes in a table of this type.
Stored(type, row) ==
  CASE type = "flat" -> [row EXCEPT !.hash = Null]
    [] type = "flat-with-hash" -> row
    [] type \in Normalized -> [row EXCEPT !.data = Null]

\* Mutant: override and ignore are swapped.
InsertSwapped(table, new, mode) ==
  CASE mode = "ignore" -> {Overlay(table, new)}
    [] mode = "override" -> {Overlay(new, table)}
    [] mode = "abort" ->
         IF DOMAIN table \cap DOMAIN new = {} THEN {Overlay(table, new)} ELSE {}

\* INSERT OR REPLACE, OR IGNORE and OR ABORT: the tables it can leave, none
\* when the statement fails.
Insert(table, new, mode) ==
  CASE mode = "override" -> {Overlay(table, new)}
    [] mode = "ignore" -> {Overlay(new, table)}
    [] mode = "abort" ->
         IF DOMAIN table \cap DOMAIN new = {} THEN {Overlay(table, new)} ELSE {}

\* The images of a selection, by id.  The column is NOT NULL, and INSERT OR IGNORE
\* passes over what violates that.
Images(selection) ==
  [id \in {selection[c].hash : c \in DOMAIN selection} \ {Null} |->
     selection[CHOOSE c \in DOMAIN selection : selection[c].hash = id].data]

-----------------------------------------------------------------------------

\* insert_tiles and get_insert_sql: a batch in one transaction, in a normalized
\* file the images first, one by one and under the same mode.  The files it can
\* leave, none when it fails.
InsertTiles(f, tiles, mode) ==
  LET new == [c \in DOMAIN tiles |-> [data |-> tiles[c], hash |-> Md5(tiles[c])]]
      images ==
        IF f.type \notin Normalized THEN {f.images}
        ELSE IF mode = "abort" /\ \E c, d \in DOMAIN tiles : c # d /\ tiles[c] = tiles[d]
        THEN {}
        ELSE Insert(f.images, Images(new), mode)
      hashed(c) == IF f.type = "flat" THEN [new[c] EXCEPT !.hash = Null] ELSE new[c]
      rows == Insert(f.rows, [c \in DOMAIN tiles |-> Stored(f.type, hashed(c))], mode)
  IN {[f EXCEPT !.images = tables[1], !.rows = tables[2]] : tables \in images \X rows}

-----------------------------------------------------------------------------

\* calc_agg_tiles_hash and update_agg_tiles_hash.
AggHash(f) == Tiles(f)
UpdateAggHash(f) == [f EXCEPT !.agg = {AggHash(f)}]

\* check_each_tile_hash.  A comparison with NULL is no mismatch, and a row without
\* an id refers to no image.
Matches(hash, data) == Null \in {hash, data} \/ hash = Md5(data)

EachTileHashed(f) ==
  CASE f.type = "flat" -> TRUE
    [] f.type = "flat-with-hash" ->
         \A c \in DOMAIN f.rows : Matches(f.rows[c].hash, f.rows[c].data)
    [] f.type = "normalized" ->
         /\ \A c \in DOMAIN f.rows : f.rows[c].hash \in DOMAIN f.images \cup {Null}
         /\ \A id \in DOMAIN f.images : Matches(id, f.images[id])
    [] f.type = "dedup-id" ->
         \A c \in DOMAIN f.rows : f.rows[c].hash \in DOMAIN f.images \cup {Null}

IsFile(f) ==
  /\ DOMAIN f = DOMAIN NoFile
  /\ f.type \in Types \cup {"none"}
  /\ DOMAIN f.rows \subseteq Coords
  /\ \A c \in DOMAIN f.rows :
       /\ DOMAIN f.rows[c] = {"data", "hash"}
       /\ f.rows[c].data \in Data \cup {Null}
       /\ f.type \in Normalized => f.rows[c].data = Null
  /\ \A id \in DOMAIN f.images : f.images[id] \in Data \cup {Null}
  /\ \A patches \in f.binary :
       \A c \in DOMAIN patches : c \in Coords /\ patches[c].to \in Data
  /\ \A option \in {f.binary, f.title, f.agg, f.before, f.after} :
       \E v \in option \cup {Null} : option \in {{}, {v}}
  /\ f.title \subseteq Titles \cup {Null}

\* A file that holds these tiles, as the tools that write whole files leave it.
\* The ids of the dedup-id schema are numbers without relation to the data.
FileWith(type, tiles, title, id) ==
  LET hash(c) == CASE type = "flat" -> Null
                   [] type = "dedup-id" -> <<"id", id[tiles[c]]>>
                   [] OTHER -> Md5(tiles[c])
      selection == [c \in DOMAIN tiles |-> [data |-> tiles[c], hash |-> hash(c)]]
  IN [NoFile EXCEPT
        !.type = type,
        !.rows = [c \in DOMAIN tiles |-> Stored(type, selection[c])],
        !.images = IF type \in Normalized THEN Images(selection) ELSE Empty,
        !.title = title,
        !.agg = {tiles}]
=============================================================================
