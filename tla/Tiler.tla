------------------------------- MODULE Tiler -------------------------------
(***************************************************************************)
(* martin-tiler's generate (generate.rs): the stages that make tile maps   *)
(* of some rasters, one per grid, and at the end a single COG if wanted.   *)
(* The stages pass their results through files below the output directory: *)
(* a work directory named after the map, and one MBTiles file per grid.    *)
(* Nothing keeps two runs, of one desktop application or of several        *)
(* processes, from using one name, and a run that fails leaves what it     *)
(* made.                                                                   *)
(*                                                                         *)
(* The GDAL tools are external: one reads what its arguments name, when it *)
(* runs, and fails if that is gone; a virtual raster names its inputs.  A  *)
(* map is the set of the contents of its rasters, each cut to one tile.    *)
(***************************************************************************)
EXTENDS Naturals, Sequences, FiniteSets

CONSTANTS
  Runs,
  Options,   \* set of [name: sanitized, inputs: paths, grids: sequence, cog, keep,
             \*  zooms: "given", "auto" or "inverted"]
  Rasters,   \* [path -> content]: what there is at first
  CogPath,   \* [name -> path]: {output_dir}/{name}-cog.tif
  Custom,    \* the grids that are cut in image space (TileGrid::Custom)
  Aligned,   \* contents that are an aligned Web Mercator COG
  Gone,      \* what is at a path where nothing is
  MaxStarts

VARIABLES
  raster,    \* [path -> content]
  workDir,   \* [name -> {} or {[mosaic, warped, tiles]}]
  tileMap,   \* [<<name, grid>> -> [tiles, meta]]
  run,       \* [Runs -> [at, opts, i: the grid, packed, overlapped: history]]
  starts

vars == <<raster, workDir, tileMap, run, starts>>

Named == {o.name : o \in Options}
Grids == UNION {{o.grids[i] : i \in DOMAIN o.grids} : o \in Options}

NoMap == [tiles |-> {}, meta |-> "none"]
NewWork == [mosaic |-> {}, warped |-> {}, tiles |-> {}]

Init ==
  /\ raster = Rasters
  /\ workDir = [n \in Named |-> {}]
  /\ tileMap = [m \in Named \X Grids |-> NoMap]
  /\ \E o \in Options :
       run = [r \in Runs |-> [at |-> "idle", opts |-> o, i |-> 1, packed |-> {}, overlapped |-> FALSE]]
  /\ starts = 0

At(r, at) == run[r].at = at
Active(r) == run[r].at \notin {"idle", "done", "failed"}
Name(r) == run[r].opts.name
Inputs(r) == run[r].opts.inputs
Map(r) == <<Name(r), run[r].opts.grids[run[r].i]>>
Grid(r) == Map(r)[2]

Goes(r, at) == run' = [run EXCEPT ![r].at = at]
Present(paths) == \A p \in paths : raster[p] # Gone

\* The work directory of r, with what a tool makes of it.
Works(r, W(_)) == workDir' = [workDir EXCEPT ![Name(r)] = {W(w) : w \in @}]

-----------------------------------------------------------------------------

\* The checks, and the inspection of the inputs.
Begin(r, o) ==
  /\ ~Active(r)
  /\ starts < MaxStarts
  /\ starts' = starts + 1
  /\ LET others == {q \in Runs \ {r} : Active(q) /\ Name(q) = o.name}
         new == [at |-> IF o.inputs # {} /\ Present(o.inputs) THEN "inspected" ELSE "failed",
                 opts |-> o, i |-> 1, packed |-> {}, overlapped |-> others # {}]
     IN run' = [q \in Runs |-> IF q = r THEN new
                               ELSE IF q \in others THEN [run[q] EXCEPT !.overlapped = TRUE]
                               ELSE run[q]]
  /\ UNCHANGED <<raster, workDir, tileMap>>

\* Mutant: what is in the work directory is kept.
KeepWork(r) ==
  /\ At(r, "inspected")
  /\ workDir' = [workDir EXCEPT ![Name(r)] = IF @ = {} THEN {NewWork} ELSE @]
  /\ Goes(r, "mosaic")
  /\ UNCHANGED <<raster, tileMap, starts>>

MakeWork(r) ==
  /\ At(r, "inspected")
  /\ workDir' = [workDir EXCEPT ![Name(r)] = {NewWork}]
  /\ Goes(r, "mosaic")
  /\ UNCHANGED <<raster, tileMap, starts>>

\* build_mosaic: a virtual raster of the inputs.
BuildMosaic(r) ==
  /\ At(r, "mosaic")
  /\ workDir[Name(r)] # {} /\ Present(Inputs(r))
  /\ LET W(w) == [w EXCEPT !.mosaic = Inputs(r)] IN Works(r, W)
  /\ Goes(r, IF run[r].opts.grids = <<>> THEN "cog" ELSE "reproject")
  /\ UNCHANGED <<raster, tileMap, starts>>

\* What the virtual rasters below r's work directory can read.
Mosaic(r) == UNION {w.mosaic : w \in workDir[Name(r)]}
Readable(r) == Mosaic(r) # {} /\ Present(Mosaic(r))

\* The zoom range is the user's except on a custom grid.
BadZooms(r) == run[r].opts.zooms = "inverted" /\ Grid(r) \notin Custom

Reproject(r) ==
  /\ At(r, "reproject")
  /\ Readable(r)
  /\ LET W(w) == [w EXCEPT !.warped = @ \cup {Grid(r)}] IN Works(r, W)
  /\ Goes(r, IF BadZooms(r) THEN "failed" ELSE "tile")
  /\ UNCHANGED <<raster, tileMap, starts>>

\* run_gdal2tiles: the tiles, one by one, then count_tiles.
Cut(r) == {<<Grid(r), raster[p]>> : p \in Mosaic(r)}
Tree(r) == {t \in UNION {w.tiles : w \in workDir[Name(r)]} : t[1] = Grid(r)}

CutTile(r) ==
  /\ At(r, "tile")
  /\ Readable(r) /\ \A w \in workDir[Name(r)] : Grid(r) \in w.warped
  /\ \E t \in Cut(r) \ Tree(r) :
       LET W(w) == [w EXCEPT !.tiles = @ \cup {t}] IN Works(r, W)
  /\ UNCHANGED <<raster, tileMap, run, starts>>

EndCut(r) ==
  /\ At(r, "tile")
  /\ Readable(r) /\ Cut(r) \subseteq Tree(r)
  /\ Goes(r, "pack")
  /\ UNCHANGED <<raster, workDir, tileMap, starts>>

\* pack, into a new file.
OpenMap(r) ==
  /\ At(r, "pack")
  /\ tileMap' = [tileMap EXCEPT ![Map(r)] = [tiles |-> {}, meta |-> "new"]]
  /\ run' = [run EXCEPT ![r].at = "packing", ![r].packed = {}]
  /\ UNCHANGED <<raster, workDir, starts>>

\* A tile that is in the file already fails the run.
PackTile(r) ==
  /\ At(r, "packing")
  /\ \E t \in Tree(r) \ run[r].packed :
       IF t \in tileMap[Map(r)].tiles
       THEN Goes(r, "failed") /\ UNCHANGED tileMap
       ELSE /\ tileMap' = [tileMap EXCEPT ![Map(r)].tiles = @ \cup {t}]
            /\ run' = [run EXCEPT ![r].packed = @ \cup {t}]
  /\ UNCHANGED <<raster, workDir, starts>>

EndPack(r) ==
  /\ At(r, "packing")
  /\ workDir[Name(r)] # {} /\ Tree(r) \subseteq run[r].packed
  /\ tileMap' = [tileMap EXCEPT ![Map(r)].meta = "zooms"]
  /\ Goes(r, "metadata")
  /\ UNCHANGED <<raster, workDir, starts>>

\* write_metadata, key by key, of which the last matters; then the next grid.
WriteMetadata(r) ==
  /\ At(r, "metadata")
  /\ tileMap' = [tileMap EXCEPT ![Map(r)].meta = "whole"]
  /\ run' = IF run[r].i < Len(run[r].opts.grids)
            THEN [run EXCEPT ![r].at = "reproject", ![r].i = @ + 1]
            ELSE [run EXCEPT ![r].at = "cog"]
  /\ UNCHANGED <<raster, workDir, starts>>

\* What is at the path of its COG changes: others that read it are overlapped.
Replaces(r, content, at) ==
  /\ raster' = [raster EXCEPT ![CogPath[Name(r)]] = content]
  /\ run' = [q \in Runs |->
       IF q = r THEN [run[q] EXCEPT !.at = at]
       ELSE IF Active(q) /\ CogPath[Name(r)] \in Inputs(q) THEN [run[q] EXCEPT !.overlapped = TRUE]
       ELSE run[q]]

\* The optional COG.  Whatever is at its path is removed first.
RemoveCog(r) ==
  /\ At(r, "cog")
  /\ IF run[r].opts.cog THEN Replaces(r, Gone, "build")
     ELSE Goes(r, "clean") /\ UNCHANGED raster
  /\ UNCHANGED <<workDir, tileMap, starts>>

\* is_aligned_webmerc_cog, of a single input.
IsAligned(r) == \E p \in Inputs(r) : Inputs(r) = {p} /\ raster[p] \in Aligned

\* build_cog, from the mosaic.
Built(r) == {raster[p] : p \in Mosaic(r)}

\* An aligned COG is copied; all else is built.
Copied(r) == raster[CHOOSE p \in Inputs(r) : TRUE]

BuildCog(r) ==
  /\ At(r, "build")
  /\ IsAligned(r) \/ Readable(r)
  /\ Replaces(r, IF IsAligned(r) THEN Copied(r) ELSE Built(r), "clean")
  /\ UNCHANGED <<workDir, tileMap, starts>>

Clean(r) ==
  /\ At(r, "clean")
  /\ workDir' = IF run[r].opts.keep THEN workDir ELSE [workDir EXCEPT ![Name(r)] = {}]
  /\ Goes(r, "done")
  /\ UNCHANGED <<raster, tileMap, starts>>

\* A tool fails, for want of its input or for another reason, or the process dies.
Fail(r) ==
  /\ Active(r)
  /\ Goes(r, "failed")
  /\ UNCHANGED <<raster, workDir, tileMap, starts>>

Next ==
  \E r \in Runs :
    \/ \E o \in Options : Begin(r, o)
    \/ MakeWork(r) \/ BuildMosaic(r) \/ Reproject(r) \/ CutTile(r) \/ EndCut(r)
    \/ OpenMap(r) \/ PackTile(r) \/ EndPack(r) \/ WriteMetadata(r)
    \/ RemoveCog(r) \/ BuildCog(r) \/ Clean(r) \/ Fail(r)

-----------------------------------------------------------------------------
\* Properties

\* A run that reports success has made, for each grid, a file with the tiles of
\* its own rasters, all of them and no others, and the COG of them if one was
\* wanted; whatever failed runs of its name left behind, whatever was made of its
\* rasters before, and whatever other runs do meanwhile; unless one of these has its
\* name or replaces one of its rasters, which nothing prevents.
Finished(r) ==
  LET contents == {raster[p] : p \in Inputs(r)}
      grids == run[r].opts.grids
  IN Clean(r) /\ ~run[r].overlapped =>
       /\ \A i \in DOMAIN grids :
            tileMap[<<Name(r), grids[i]>>] = [tiles |-> {grids[i]} \X contents, meta |-> "whole"]
       /\ run[r].opts.cog =>
            raster[CogPath[Name(r)]] = IF IsAligned(r) THEN Copied(r) ELSE contents

GeneratedWhole == [][\A r \in Runs : Finished(r)]_vars
=============================================================================
