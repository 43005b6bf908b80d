------------------------------ MODULE TileTree ------------------------------
(***************************************************************************)
(* mbtiles pack and unpack (pack.rs): a directory tree z/x/y.ext becomes a *)
(* flat MBTiles file and a file becomes a tree.  Tiles are read in the     *)
(* order of the walk, which is any, and inserted in batches; whatever is   *)
(* wrong with one of them ends the command, and the batches before it are  *)
(* in the file.                                                            *)
(*                                                                         *)
(* A file of the tree is [name, coord, format, encoding, data]; names that *)
(* differ by leading zeros have the same coordinates.  Its encoding is the *)
(* one TileInfo::detect finds: "internal" for PNG, JPEG and WebP.          *)
(***************************************************************************)
EXTENDS Naturals, FiniteSets

CONSTANTS
  Trees,         \* sets of files of a tree
  PackBatchSize  \* PACK_BATCH_SIZE, 1000

VARIABLES
  tree,          \* the files pack reads
  packing,       \* "packing", "packed", "unpacking", "unpacked" or "failed"
  options,       \* [pack, unpack: scheme, compression]
  walked,        \* the files of the tree that pack has taken
  packed,        \* a batch: a set of [coord, encoding, data]
  packFormat,    \* {} or {the format of the tiles}
  archive,       \* [tiles, format]: what the file holds
  written        \* the files unpack wrote

vars == <<tree, packing, options, walked, packed, packFormat, archive, written>>

Schemes == {"xyz", "tms"}
Compressions == {"auto", "none", "gzip"}

Init ==
  /\ tree \in Trees
  /\ packing = "packing"
  /\ options \in [pack: Schemes, unpack: Schemes, compression: Compressions]
  /\ walked = {} /\ packed = {} /\ packFormat = {} /\ written = {}
  /\ archive = [tiles |-> {}, format |-> {}]

\* invert_y_value
InvertY(coord) == <<coord[1], coord[2], (2 ^ coord[1]) - 1 - coord[3]>>

Oriented(coord, scheme) == IF scheme = "tms" THEN InvertY(coord) ELSE coord

\* What pack encodes a tile of this format to.
Target(format) ==
  IF options.compression = "gzip" \/ (options.compression = "auto" /\ format = "mvt")
  THEN "gzip" ELSE "none"

\* recode_tile; {} when it fails.  A tile that keeps its own encoding is plain.
Recoded(file, target) ==
  CASE file.encoding = target -> {target}
    [] file.encoding \in {"br", "zstd"} -> {}
    [] target = "none" /\ file.encoding = "internal" -> {"internal"}
    [] OTHER -> {target}

CoordsIn(tiles) == {t.coord : t \in tiles}

\* insert_tiles into a flat file under abort.
Insertable(tiles) ==
  /\ CoordsIn(tiles) \cap CoordsIn(archive.tiles) = {}
  /\ Cardinality(CoordsIn(tiles)) = Cardinality(tiles)

Walk ==
  /\ packing = "packing"
  /\ \E file \in tree \ walked :
       LET encodings == Recoded(file, Target(file.format))
           tile(e) == [coord |-> Oriented(file.coord, options.pack),
                       encoding |-> e, data |-> file.data, name |-> file.name]
           fails == \/ file.format = "unknown" \/ encodings = {}
                    \/ packFormat \notin {{}, {file.format}}
           tiles == packed \cup {tile(e) : e \in encodings}
           full == Cardinality(tiles) >= PackBatchSize
       IN /\ walked' = walked \cup {file}
          /\ IF fails \/ (full /\ ~Insertable(tiles))
             THEN packing' = "failed" /\ UNCHANGED <<packed, packFormat, archive>>
             ELSE /\ packing' = packing
                  /\ packFormat' = {file.format}
                  /\ packed' = IF full THEN {} ELSE tiles
                  /\ archive' = IF full THEN [archive EXCEPT !.tiles = @ \cup tiles] ELSE archive
  /\ UNCHANGED <<tree, options, written>>

\* The last batch, and the metadata.
EndPack ==
  /\ packing = "packing"
  /\ walked = tree
  /\ IF Insertable(packed)
     THEN /\ packing' = "packed"
          /\ archive' = [tiles |-> archive.tiles \cup packed, format |-> packFormat]
     ELSE packing' = "failed" /\ UNCHANGED archive
  /\ packed' = {}
  /\ UNCHANGED <<tree, options, walked, packFormat, written>>

\* unpack, which needs the format in the metadata.
StartUnpack ==
  /\ packing = "packed"
  /\ packing' = IF archive.format = {} THEN "failed" ELSE "unpacking"
  /\ UNCHANGED <<tree, options, walked, packed, packFormat, archive, written>>

\* A gzipped tile is written decompressed.  Any tile may be the next one.
WriteFile ==
  /\ packing = "unpacking"
  /\ \E t \in archive.tiles, format \in archive.format :
       /\ Oriented(t.coord, options.unpack) \notin CoordsIn(written)
       /\ written' = written \cup
            {[coord |-> Oriented(t.coord, options.unpack), format |-> format,
              encoding |-> IF t.encoding = "gzip" THEN "none" ELSE t.encoding,
              data |-> t.data]}
  /\ packing' = IF Cardinality(written') = Cardinality(archive.tiles)
                THEN "unpacked" ELSE packing
  /\ UNCHANGED <<tree, options, walked, packed, packFormat, archive>>

Next == Walk \/ EndPack \/ StartUnpack \/ WriteFile

-----------------------------------------------------------------------------
\* Properties

Names(file) == [coord |-> file.coord, format |-> file.format, data |-> file.data]

\* What was packed and unpacked again is the tree it came from, with plain tiles
\* under names without leading zeros, whatever the compression between; a tree
\* of several formats, or with two names for one tile, is refused.
RoundTrips ==
  /\ packing \in {"packed", "unpacking", "unpacked"} =>
       /\ Cardinality({file.format : file \in tree}) <= 1
       /\ Cardinality({file.coord : file \in tree}) = Cardinality(tree)
  /\ packing = "unpacked" =>
       /\ {Names(file) : file \in written} =
            {[Names(file) EXCEPT !.coord =
                IF options.pack = options.unpack THEN @ ELSE InvertY(@)] : file \in tree}
       /\ \A file \in written : file.encoding \in {"none", "internal"}
=============================================================================
