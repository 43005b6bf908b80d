---------------------------- MODULE MCPipelines ----------------------------
(* Work handed from stage to stage, each a scene of its own: binary patches   *)
(* (BinDiff), transcoding (Transcode), martin-cp (BulkCopy), pack and unpack  *)
(* (TileTree) and martin-tiler (Tiler); and the pool that renders images      *)
(* (RenderPool).                                                             *)
EXTENDS BinDiff, Sequences, TLC

CONSTANTS
  Scenes,    \* which of the pipelines are run
  Coords, Data, Titles, Null, Nothing, Failed, Unset,
  Transform, SmallData, BatchSize, Jobs,
  Content, Commands, Concurrency, ChannelSize, BatchRows, MaxRuns,
  Trees, PackBatchSize,
  Runs, Options, Rasters, CogPath, Custom, Aligned, Gone, MaxStarts,
  Workers, Requests, ImageOf, Broken, QueueSize, MaxPanics,
  d1, d2, d3

VARIABLES
  scene,
  transcoding, task, dst, unread, raw, encoded, computing, unflushed, idMap, cache,
  copying, outcome, command, output, zoomMeta, todo, fetching, channel, batch,
  copied, before, runs,
  tree, packing, options, walked, packed, packFormat, archive, written,
  raster, workDir, tileMap, run, starts,
  queue, worker, asker, pool

transcodeVars ==
  <<transcoding, task, dst, unread, raw, encoded, computing, unflushed, idMap, cache>>
copyVars ==
  <<copying, outcome, command, output, zoomMeta, todo, fetching, channel, batch,
    copied, before, runs>>
treeVars == <<tree, packing, options, walked, packed, packFormat, archive, written>>
tilerVars == <<raster, workDir, tileMap, run, starts>>
renderVars == <<queue, worker, asker, pool>>

MCCoords == {<<0, 0, 0>>, <<1, 0, 0>>, <<1, 0, 1>>, <<1, 1, 0>>, <<1, 1, 1>>}
MCData == {d1, d2, d3}

\* Two contents become one, and one cannot be transformed.
MCTransform == d1 :> d3 @@ d2 :> Failed @@ d3 :> d3

\* The source is empty in one corner.
MCContent ==
  [c \in MCCoords |-> CASE c = <<1, 1, 1>> -> Nothing
                        [] c \in {<<1, 0, 0>>, <<1, 1, 0>>} -> d1
                        [] OTHER -> d2]

F == INSTANCE MbtilesFile

Ids == d1 :> 1 @@ d2 :> 2 @@ d3 :> 3

\* Sources of three tiles, and an old destination with a tile of its own and one
\* that the source has too.
MCJobs ==
  LET tiles == [{<<0, 0, 0>>, <<1, 0, 0>>, <<1, 0, 1>>} -> MCData]
      old == <<0, 0, 0>> :> d2 @@ <<1, 1, 1>> :> d3
      olds(type) ==
        {F!NoFile} \cup
        (IF type = "dedup-id" THEN {} ELSE {F!FileWith(type, old, {}, Ids)})
  IN UNION {{[src |-> F!FileWith(from, t, {}, Ids), old |-> f, type |-> to] :
               t \in tiles, f \in olds(to)} : from \in F!Types, to \in F!Types}

\* Two boxes, of which one is a corner of the other, or one, at one level or both.
Box(minX, minY, maxX, maxY) ==
  [zoom |-> 1, minX |-> minX, minY |-> minY, maxX |-> maxX, maxY |-> maxY]

MCCommands ==
  [boxes: {<<Box(0, 0, 0, 0), Box(0, 0, 1, 1)>>, <<Box(0, 0, 1, 0)>>},
   zooms: {<<1>>, <<0, 1>>}, mode: F!Modes \cup {Unset},
   type: {"flat-with-hash", "normalized"}, skipHash: {FALSE}]

T == INSTANCE TranscodeProofs

B == INSTANCE BulkCopyProofs

\* What the theorems about the two are about (TranscodeProofs, BulkCopyProofs).
ASSUME FilesAssumption ==
  /\ F!NullAssumption
  /\ T!TransformFits /\ T!JobsFit
  /\ B!CopyFits

\* Files that can be packed together, one whose name means the same as another's,
\* and ones that cannot be packed.
Leaf(name, coord, format, encoding, data) ==
  [name |-> name, coord |-> coord, format |-> format, encoding |-> encoding, data |-> data]

MCTrees ==
  SUBSET {Leaf("0", <<1, 0, 0>>, "mvt", "none", d1), Leaf("00", <<1, 0, 0>>, "mvt", "gzip", d1),
          Leaf("1", <<1, 0, 1>>, "mvt", "gzip", d1), Leaf("0", <<1, 1, 0>>, "mvt", "zlib", d2),
          Leaf("1", <<1, 1, 1>>, "png", "internal", d3), Leaf("0", <<0, 0, 0>>, "png", "internal", d3),
          Leaf("2", <<2, 1, 2>>, "mvt", "br", d1), Leaf("3", <<2, 1, 3>>, "unknown", "none", d1)}

P == INSTANCE TileTree

\* A tree has finitely many files, and a path in it is of one.
ASSUME TreesAssumption ==
  \A files \in Trees :
    /\ IsFiniteSet(files)
    /\ \A f \in files :
         /\ f.coord = <<f.coord[1], f.coord[2], f.coord[3]>>
         /\ f.coord[1] \in Nat /\ f.coord[3] \in Nat
    /\ \A f, g \in files :
         f.name = g.name /\ f.coord = g.coord /\ f.format = g.format => f = g

\* Two names; one map is made again from other rasters, or from its own COG, of
\* which the other is made too.
MCOptions ==
  LET Option(name, inputs, grids, cog, keep, zooms) ==
        [name |-> name, inputs |-> inputs, grids |-> grids, cog |-> cog, keep |-> keep,
         zooms |-> zooms]
  IN {Option("m", {"i"}, <<"mercator", "custom">>, TRUE, FALSE, "inverted"),
      Option("m", {"j"}, <<"mercator">>, TRUE, TRUE, "given"),
      Option("m", {"i", "j"}, <<"mercator", "custom">>, FALSE, TRUE, "auto"),
      Option("m", {"m-cog"}, <<"custom">>, TRUE, FALSE, "auto"),
      Option("n", {"m-cog"}, <<"mercator">>, FALSE, FALSE, "auto"),
      Option("n", {"m-cog", "i"}, <<>>, TRUE, FALSE, "auto")}

MCRasters == "i" :> d1 @@ "j" :> d2 @@ "m-cog" :> d3 @@ "n-cog" :> Gone
MCCogPath == "m" :> "m-cog" @@ "n" :> "n-cog"

G == INSTANCE Tiler

\* Every path is known, each name has a COG of its own, and nothing is no COG.
ASSUME TilerAssumption ==
  /\ Rasters = [p \in DOMAIN Rasters |-> Rasters[p]] /\ Gone \notin Aligned
  /\ \A o \in Options : o.grids \in Seq(G!Grids) /\ o.inputs \subseteq DOMAIN Rasters
  /\ \A m, n \in G!Named :
       CogPath[n] \in DOMAIN Rasters /\ (CogPath[m] = CogPath[n] => m = n)

\* Two requests of one size, of which one is for a broken style, and one of another.
MCImageOf ==
  "p" :> [style |-> "a", size |-> "1"] @@ "q" :> [style |-> "b", size |-> "1"]
    @@ "s" :> [style |-> "a", size |-> "2"]

R == INSTANCE RenderPool WITH caller <- asker

ASSUME StylesAssumption == \A r \in Requests : ImageOf[r].style # R!Absent

-----------------------------------------------------------------------------

BinDiffIdle ==
  /\ query = [at |-> "ended", left |-> {}, row |-> {}, failed |-> FALSE]
  /\ work = {} /\ results = {} /\ pending = {} /\ stored = {} /\ hasErrors = FALSE
  /\ processor = [p \in Processors |-> [at |-> "stopped", row |-> {}]]
  /\ caller = "error"

TranscodeIdle ==
  /\ transcoding = "idle" /\ task = "none" /\ dst = F!NoFile
  /\ unread = {} /\ raw = <<>> /\ encoded = <<>> /\ computing = {}
  /\ unflushed = F!Empty /\ idMap = F!Empty /\ cache = F!Empty

CopyIdle ==
  /\ copying = "idle" /\ outcome = "none" /\ command = "none"
  /\ output = F!NoFile /\ zoomMeta = B!NoMeta
  /\ todo = <<>> /\ fetching = {} /\ channel = <<>> /\ batch = F!Empty
  /\ copied = FALSE /\ before = F!Empty /\ runs = 0

TreeIdle ==
  /\ tree = {} /\ packing = "idle" /\ options = "none" /\ walked = {} /\ packed = {}
  /\ packFormat = {} /\ archive = "none" /\ written = {}

TilerIdle == raster = "none" /\ workDir = "none" /\ tileMap = "none" /\ run = "none" /\ starts = 0

AllInit ==
  /\ scene \in Scenes
  /\ IF scene = "bindiff" THEN Init ELSE BinDiffIdle
  /\ IF scene = "transcode" THEN T!Init ELSE TranscodeIdle
  /\ IF scene = "copy" THEN B!Init ELSE CopyIdle
  /\ IF scene = "tree" THEN P!Init ELSE TreeIdle
  /\ IF scene = "tiler" THEN G!Init ELSE TilerIdle
  /\ R!Init

AllNext ==
  /\ UNCHANGED scene
  /\ \/ /\ scene = "bindiff" /\ Next
        /\ UNCHANGED <<transcodeVars, copyVars, treeVars, tilerVars, renderVars>>
     \/ /\ scene = "transcode" /\ T!Next
        /\ UNCHANGED <<vars, copyVars, treeVars, tilerVars, renderVars>>
     \/ /\ scene = "copy" /\ B!Next
        /\ UNCHANGED <<vars, transcodeVars, treeVars, tilerVars, renderVars>>
     \/ /\ scene = "tree" /\ P!Next
        /\ UNCHANGED <<vars, transcodeVars, copyVars, tilerVars, renderVars>>
     \/ /\ scene = "tiler" /\ G!Next
        /\ UNCHANGED <<vars, transcodeVars, copyVars, treeVars, renderVars>>
     \/ /\ scene = "render" /\ R!Next
        /\ UNCHANGED <<vars, transcodeVars, copyVars, treeVars, tilerVars>>

allVars == <<scene, vars, transcodeVars, copyVars, treeVars, tilerVars, renderVars>>

\* Every stage of a pipeline that can make progress does.
AllSpec ==
  /\ AllInit /\ [][AllNext]_allVars
  /\ WF_vars(scene = "bindiff" /\ Query)
  /\ WF_vars(scene = "bindiff" /\ Run)
  /\ \A p \in Processors : WF_vars(scene = "bindiff" /\ Process(p))
  /\ WF_transcodeVars(scene = "transcode" /\ T!Progress)
  /\ WF_copyVars(scene = "copy" /\ B!Progress)
  /\ WF_renderVars(scene = "render" /\ R!Progress)

-----------------------------------------------------------------------------

\* TranscodedFaithfully of Transcode, CopiedFaithfully and ZoomsEnclose of BulkCopy,
\* and RoundTrips of TileTree.
FilesFaithful ==
  /\ scene = "transcode" => T!TranscodedFaithfully
  /\ scene = "copy" => B!CopiedFaithfully /\ B!ZoomsEnclose
  /\ scene = "tree" => P!RoundTrips

\* RendersItsStyle of RenderPool.
RendersItsStyle == scene = "render" => R!RendersItsStyle

\* GeneratedWhole of Tiler.
GeneratedWhole ==
  [][ scene = "tiler" => \A r \in Runs : G!Finished(r) ]_allVars

\* RunReturns and TasksEnd of BinDiff, TranscodeEnds, CopyEnds and RendersEnd.
PipelinesEnd ==
  /\ RunReturns /\ TasksEnd
  /\ scene = "transcode" => T!TranscodeEnds
  /\ B!CopyEnds
  /\ scene = "render" => R!RendersEnd

AbortsOnDuplicateOnly == B!AbortsOnDuplicateOnly
=============================================================================
