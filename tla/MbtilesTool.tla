---------------------------- MODULE MbtilesTool ----------------------------
(***************************************************************************)
(* The commands of the mbtiles tool that write files: copy, diff and copy  *)
(* --apply-patch (copier.rs), apply-patch (patcher.rs), and validate with  *)
(* --agg-hash update.  A command is a list of SQL statements; SQLite makes *)
(* each of them atomic, and nothing makes the list atomic, so a command    *)
(* may stop, by an error or by the death of the tool, after any of them.   *)
(*                                                                         *)
(* Not modelled: --force, filters by zoom and area, and the pipeline that  *)
(* computes binary patches, which is BinDiff's.                            *)
(***************************************************************************)
EXTENDS MbtilesFile, Sequences

CONSTANTS
  Names,         \* the names of files
  CopyTypes,     \* what is copied: "all", "tiles", "metadata" (CopyType)
  InitialFiles,  \* [Names -> File]: the files there may be at first
  MaxCommands,   \* a bound on the commands started
  MaxCopies      \* only the first so many of them copy

ASSUME BoundsAssumption == MaxCommands \in Nat /\ MaxCopies \in Nat

\* Files have the tables of a file, and their metadata at most one title.
ASSUME InitialFilesAssumption ==
  \A f \in InitialFiles :
    /\ DOMAIN f = Names
    /\ \A n \in Names : /\ DOMAIN f[n] = DOMAIN NoFile
                        /\ f[n].title \in {{}} \cup {{v} : v \in Titles \cup {Null}}

VARIABLES
  file,       \* [Names -> File]
  job,        \* the command that runs
  standing,   \* history: how the last commands left a file
  commands    \* how many commands were started

vars == <<file, job, standing, commands>>

\* Its last command ended well; apply-patch has not ended yet, or died, and to is
\* the hash it promised; another command has not ended, or died.
Standings == {"sound", "half patched", "unknown"}

Left(state, to) == [state |-> state, to |-> to]

Sound(n) == standing[n].state = "sound"

Statements ==
  {"images", "tiles", "metadata", "binary", "before", "after", "agg", "check",
   "upsert", "upsert_images", "delete", "collect", "replace", "forget"}

NoJob ==
  [command |-> "none", src |-> "", dif |-> "", dst |-> "", mode |-> "override",
   binary |-> FALSE, todo |-> <<>>]

Src == file[job.src]
Dif == file[job.dif]
Dst == file[job.dst]

Value(option) == IF option = {} THEN Null ELSE CHOOSE v \in option : TRUE

IsEmpty(f) == f.type = "none"

\* assert_hashes and validate_diff_info, without --force.
CanBeDiffed(f) == f.agg # {} /\ f.before = {} /\ f.after = {}
HasBinary(f) == f.binary # {}
IsPatch(f) == f.before # {} /\ f.after # {}

TypeOK ==
  /\ DOMAIN file = Names
  /\ \A n \in Names : IsFile(file[n])
  /\ DOMAIN job = DOMAIN NoJob
  /\ job.command \in {"none", "copy", "diff", "patch", "apply"}
  /\ \A i \in DOMAIN job.todo : job.todo[i] \in Statements
  /\ job.command = "none" <=> job.todo = <<>>
  /\ DOMAIN standing = Names
  /\ \A n \in Names : standing[n].state \in Standings
  /\ commands \in 0..MaxCommands

Init ==
  /\ file \in InitialFiles
  /\ job = NoJob
  /\ standing = [n \in Names |-> Left("sound", {})]
  /\ commands = 0

-----------------------------------------------------------------------------
\* Starting commands

Start(command, src, dif, dst, mode, binary, type, todo) ==
  /\ job = NoJob
  /\ commands < MaxCommands
  /\ commands' = commands + 1
  /\ job' = [command |-> command, src |-> src, dif |-> dif, dst |-> dst,
             mode |-> mode, binary |-> binary, todo |-> todo]
  /\ file' = [file EXCEPT ![dst].type = type]
  /\ standing' = [standing EXCEPT ![dst] =
                    IF command = "apply" THEN Left("half patched", file[dif].after)
                    ELSE Left("unknown", {})]

ImagesFirst(type, todo) ==
  IF type \in Normalized THEN <<"images">> \o todo ELSE todo

\* run_simple.  A new file of the dedup-id schema is never made.  What a failed
\* command left is not copied on, and a patch is copied to new files only.
\* (Nor does this model compare or patch what a failed copy left: such a file
\* still names the hash it had before.)
StartCopy(src, dst, what, mode, type) ==
  /\ commands < MaxCopies
  /\ src # dst
  /\ ~IsEmpty(file[src])
  /\ Sound(src)
  /\ IF IsEmpty(file[dst])
     THEN /\ mode = "override"
          /\ type # "dedup-id"
     ELSE /\ type = file[dst].type
          /\ ~IsPatch(file[src]) /\ ~IsPatch(file[dst])
  /\ Start("copy", src, "", dst, mode, FALSE, type,
           (IF what = "metadata" THEN <<>> ELSE ImagesFirst(type, <<"tiles">>))
             \o (IF what = "tiles" THEN <<>> ELSE <<"metadata">>)
             \o (IF what = "metadata" THEN <<>> ELSE <<"agg">>))

\* run_with_diff.
StartDiff(src, dif, dst, binary, type) ==
  /\ src # dif /\ dst \notin {src, dif}
  /\ ~IsEmpty(file[src]) /\ CanBeDiffed(file[src]) /\ Sound(src)
  /\ ~IsEmpty(file[dif]) /\ CanBeDiffed(file[dif]) /\ Sound(dif)
  /\ IsEmpty(file[dst])
  /\ type = "dedup-id" => file[src].type = "dedup-id"
  /\ binary => type \in Flat
  /\ Start("diff", src, dif, dst, "override", binary, type,
           ImagesFirst(type, <<"tiles", "metadata">>)
             \o (IF binary THEN <<"binary">> ELSE <<>>)
             \o <<"before", "after", "agg">>)

\* run_with_patch.
StartPatch(src, dif, dst, type) ==
  /\ dst \notin {src, dif}
  /\ IsPatch(file[dif])
  /\ ~IsEmpty(file[src]) /\ CanBeDiffed(file[src]) /\ Sound(src)
  /\ IsEmpty(file[dst])
  /\ type = "dedup-id" => file[src].type = "dedup-id"
  /\ HasBinary(file[dif]) => type \in Flat
  /\ Start("patch", src, dif, dst, "override", FALSE, type,
           ImagesFirst(type, <<"tiles", "metadata">>)
             \o (IF HasBinary(file[dif]) THEN <<"binary">> ELSE <<>>)
             \o <<"agg", "check">>)

\* apply_patch.
StartApply(dif, dst) ==
  /\ IsPatch(file[dif])
  /\ ~HasBinary(file[dif])
  /\ ~IsEmpty(file[dst]) /\ CanBeDiffed(file[dst]) /\ standing[dst].state # "unknown"
  /\ file[dst].agg = file[dif].before
  /\ Start("apply", "", dif, dst, "override", FALSE, file[dst].type,
           <<"upsert">>
             \o (IF file[dst].type \in Normalized
                 THEN <<"upsert_images", "delete", "collect">> ELSE <<"delete">>)
             \o <<"replace", "forget">>)

\* validate --agg-hash update.
Revalidate(n) ==
  /\ job = NoJob
  /\ Sound(n)
  /\ ~IsEmpty(file[n])
  /\ EachTileHashed(file[n])
  /\ file' = [file EXCEPT ![n] = UpdateAggHash(file[n])]
  /\ UNCHANGED <<job, standing, commands>>

-----------------------------------------------------------------------------
\* One statement of the command that runs

Doing(statement) == job.todo # <<>> /\ Head(job.todo) = statement

\* The statement leaves one of these files; it fails when there is none.
Becomes(files) ==
  /\ IF files = {}
     THEN /\ job' = NoJob
          /\ UNCHANGED <<file, standing>>
     ELSE /\ file' \in {[file EXCEPT ![job.dst] = f] : f \in files}
          /\ job' = IF Tail(job.todo) = <<>> THEN NoJob
                    ELSE [job EXCEPT !.todo = Tail(job.todo)]
          /\ standing' = IF Tail(job.todo) = <<>>
                         THEN [standing EXCEPT ![job.dst] = Left("sound", {})] ELSE standing
  /\ UNCHANGED commands

\* get_select_from_with_diff: what has to change in src to become dif, as the
\* rows of dif, or NULL where dif has none.  A binary patch leaves out the tiles
\* that both have.
Difference(src, dif, binary) ==
  LET old == Tiles(src)
      new == HashedTiles(dif)
      changed == {c \in DOMAIN old \cup DOMAIN new :
                    \/ c \notin DOMAIN old \/ c \notin DOMAIN new
                    \/ Null \in {old[c], new[c].data}
                    \/ ~binary /\ old[c] # new[c].data}
      row(c) == IF c \in DOMAIN new THEN new[c] ELSE [data |-> Null, hash |-> Null]
  IN [c \in changed |->
        IF row(c).hash = Null THEN [row(c) EXCEPT !.hash = Md5Empty] ELSE row(c)]

\* The binary patches of dif for tiles that src has.
Patches(src, dif) ==
  Only(IF HasBinary(dif) THEN Value(dif.binary) ELSE Empty, DOMAIN Tiles(src))

\* get_select_from_apply_patch: the rows of dif where it has one, and of src
\* elsewhere, without those that dif deletes or has a binary patch for.
Patched(src, dif) ==
  LET merged == Overlay(HashedTiles(src), HashedTiles(dif))
      deleted == {c \in DOMAIN Tiles(dif) : Tiles(dif)[c] = Null}
  IN Only(merged, DOMAIN merged \ (deleted \cup DOMAIN Patches(src, dif)))

Selected ==
  CASE job.command = "copy" -> HashedTiles(Src)
    [] job.command = "diff" -> Difference(Src, Dif, job.binary)
    [] job.command = "patch" -> Patched(Src, Dif)

\* get_on_duplicate_sql_cond: under abort, the rows whose coordinates the
\* destination has with other data are left out.  The condition names the
\* destination's table in the source, so the types have to agree.
Distinct(table, row, c) ==
  LET column == IF Dst.type \in Normalized THEN "hash" ELSE "data"
  IN Null \notin {table[c][column], row[c][column]} /\ table[c][column] # row[c][column]

Insertable(selection) ==
  IF job.mode = "abort"
  THEN Only(selection, {c \in DOMAIN selection :
         c \in DOMAIN Dst.rows => ~Distinct(Dst.rows, selection, c)})
  ELSE selection

AbortWorks == Dst.type \in {"flat", Src.type}

\* copy_tiles, which knows the tables of the dedup-id schema nowhere.
CopyImages ==
  /\ Doing("images")
  /\ Becomes(IF Dst.type = "dedup-id" THEN {}
             ELSE {[Dst EXCEPT !.images = Overlay(Images(Selected), Dst.images)]})

CopyTiles ==
  /\ Doing("tiles")
  /\ LET new == Insertable(Selected)
         stored == [c \in DOMAIN new |-> Stored(Dst.type, new[c])]
     IN Becomes(IF job.mode = "abort" /\ ~AbortWorks THEN {}
                ELSE {[Dst EXCEPT !.rows = t] : t \in Insert(Dst.rows, stored, job.mode)})

\* copy_metadata.  A diff and a patch treat the three hashes on their own.
MergedOption(dst, src) ==
  IF src = {} \/ (dst # {} /\ job.mode = "ignore") THEN dst ELSE src

\* Mutant: only keys that dif has.
DiffOptionWithoutDeletions(src, dif) ==
  IF dif # {} /\ (Value(src) # Value(dif) \/ Value(dif) = Null) THEN {Value(dif)} ELSE {}

DiffOption(src, dif) ==
  IF src \cup dif # {} /\ (Value(src) # Value(dif) \/ Value(dif) = Null)
  THEN {Value(dif)} ELSE {}

PatchOption(src, dif) ==
  IF dif = {} THEN src ELSE IF Value(dif) = Null THEN {} ELSE dif

Clashes(f, g) ==
  \E key \in {"title", "agg", "before", "after"} : f[key] # {} /\ g[key] # {}

CopyMetadata ==
  /\ Doing("metadata")
  /\ Becomes(
       CASE job.command = "diff" ->
              {[Dst EXCEPT !.title = DiffOption(Src.title, Dif.title)]}
         [] job.command = "patch" ->
              {[Dst EXCEPT !.title = PatchOption(Src.title, Dif.title)]}
         [] OTHER ->
              IF job.mode = "abort" /\ Clashes(Dst, Src) THEN {}
              ELSE {[Dst EXCEPT !.title = MergedOption(Dst.title, Src.title),
                                !.agg = MergedOption(Dst.agg, Src.agg),
                                !.before = MergedOption(Dst.before, Src.before),
                                !.after = MergedOption(Dst.after, Src.after)]})

\* BinDiffDiffer and BinDiffPatcher: the tiles that both files have.  A patch
\* checks that it turned the tile it found into the one the diff saw.  Rows are
\* committed as they come, so a failure leaves some of them.
BinaryRows ==
  LET old == Tiles(Src)
      new == Tiles(Dif)
  IN [c \in {c \in DOMAIN old \cap DOMAIN new :
               Null \notin {old[c], new[c]} /\ old[c] # new[c]}
        |-> [from |-> old[c], to |-> new[c]]]

Fitting == {c \in DOMAIN Patches(Src, Dif) : Patches(Src, Dif)[c].from = Tiles(Src)[c]}

WithBinary(coords) ==
  IF job.command = "diff" THEN [Dst EXCEPT !.binary = {Only(BinaryRows, coords)}]
  ELSE [Dst EXCEPT !.rows = Overlay(@,
          [c \in coords |->
             Stored(Dst.type, [data |-> Patches(Src, Dif)[c].to, hash |-> Md5(Patches(Src, Dif)[c].to)])])]

ToMake == IF job.command = "diff" THEN DOMAIN BinaryRows ELSE DOMAIN Patches(Src, Dif)
Makeable == IF job.command = "diff" THEN DOMAIN BinaryRows ELSE Fitting

CopyBinary ==
  /\ Doing("binary")
  /\ ToMake = Makeable
  /\ Becomes({WithBinary(ToMake)})

StopBinary ==
  /\ Doing("binary")
  /\ \E coords \in SUBSET Makeable :
       file' = [file EXCEPT ![job.dst] = WithBinary(coords)]
  /\ job' = NoJob
  /\ UNCHANGED <<standing, commands>>

SetBefore == Doing("before") /\ Becomes({[Dst EXCEPT !.before = Src.agg]})
SetAfter == Doing("after") /\ Becomes({[Dst EXCEPT !.after = Dif.agg]})
UpdateAgg == Doing("agg") /\ Becomes({UpdateAggHash(Dst)})

\* The result is compared with what the patch promises, after it was written.
CheckAfter ==
  /\ Doing("check")
  /\ Becomes(IF Dst.agg = Dif.after THEN {Dst} ELSE {})

\* apply_patch, in place.
Upserted == Only(HashedTiles(Dif), {c \in DOMAIN Tiles(Dif) : Tiles(Dif)[c] # Null})

Upsert ==
  /\ Doing("upsert")
  /\ Becomes({[Dst EXCEPT !.rows =
       Overlay(@, [c \in DOMAIN Upserted |-> Stored(Dst.type, Upserted[c])])]})

UpsertImages ==
  /\ Doing("upsert_images")
  /\ Becomes({[Dst EXCEPT !.images = Overlay(@, Images(Upserted))]})

\* Mutant: every tile of the patch is deleted.
DeleteAll ==
  /\ Doing("delete")
  /\ Becomes({[Dst EXCEPT !.rows = Only(@, DOMAIN @ \ DOMAIN Tiles(Dif))]})

Delete ==
  /\ Doing("delete")
  /\ Becomes({[Dst EXCEPT !.rows =
       Only(@, DOMAIN @ \ {c \in DOMAIN Tiles(Dif) : Tiles(Dif)[c] = Null})]})

\* Mutant: an image is kept only if the patch has it.
CollectShared ==
  /\ Doing("collect")
  /\ Becomes({[Dst EXCEPT !.images = Only(@, DOMAIN Images(Upserted))]})

Collect ==
  /\ Doing("collect")
  /\ Becomes({[Dst EXCEPT !.images =
       Only(@, {Dst.rows[c].hash : c \in DOMAIN Dst.rows})]})

ReplacedOption(dst, dif) == IF dif = {} THEN dst ELSE dif
RemainingOption(dst, dif) == IF dif = {Null} THEN {} ELSE dst

Replace ==
  /\ Doing("replace")
  /\ Becomes({[Dst EXCEPT !.title = ReplacedOption(@, Dif.title), !.agg = Dif.after]})

Forget ==
  /\ Doing("forget")
  /\ Becomes({[Dst EXCEPT !.title = RemainingOption(@, Dif.title)]})

\* The tool dies between two statements.
Crash ==
  /\ job # NoJob
  /\ job' = NoJob
  /\ UNCHANGED <<file, standing, commands>>

Next ==
  \/ \E src, dst \in Names, what \in CopyTypes, mode \in Modes, type \in Types :
       StartCopy(src, dst, what, mode, type)
  \/ \E src, dif, dst \in Names, binary \in BOOLEAN, type \in Types :
       StartDiff(src, dif, dst, binary, type)
  \/ \E src, dif, dst \in Names, type \in Types : StartPatch(src, dif, dst, type)
  \/ \E dif, dst \in Names : StartApply(dif, dst)
  \/ \E n \in Names : Revalidate(n)
  \/ CopyImages \/ CopyTiles \/ CopyMetadata \/ CopyBinary \/ StopBinary
  \/ SetBefore \/ SetAfter \/ UpdateAgg \/ CheckAfter
  \/ Upsert \/ UpsertImages \/ Delete \/ Collect \/ Replace \/ Forget
  \/ Crash

Spec == Init /\ [][Next]_vars

-----------------------------------------------------------------------------
\* Properties

\* The aggregate hash of a sound file, one whose last command succeeded, is the hash of its
\* tiles.  apply_patch never computes it: it takes the hash that the patch
\* promises, so this says that a patch applied to the file it was made for, in
\* whatever schema, after however many attempts that died, gives the tiles it
\* was made from, and that what a failed diff leaves cannot be applied.
AggHashTrue ==
  \A n \in Names : Sound(n) => file[n].agg \subseteq {AggHash(file[n])}

\* check_each_tile_hash holds of every sound file: the
\* images a row refers to are there, under the hash of their data.
TilesHashed ==
  \A n \in Names : Sound(n) /\ ~IsEmpty(file[n]) => EachTileHashed(file[n])

\* Every hash in a sound file is the hash of what it stands for.
HashesTrue == AggHashTrue /\ TilesHashed

\* Wherever apply_patch dies, the file can be patched again, or has become what
\* the patch promises.
Resumable ==
  job.command = "apply" =>
    \/ Dst.agg = Dif.before
    \/ Dst.agg = Dif.after /\ Dif.after = {AggHash(Dst)}

\* While apply_patch rewrites a file that is being read, a tile is read as it was
\* or as it will be.  In a normalized file it may be missing for a while, since
\* the rows come before their images, but it is never another tile.
TileAt(tiles, c) == IF c \in DOMAIN tiles THEN tiles[c] ELSE Null

ReadsOldOrNew ==
  job.command = "apply" =>
    \A c \in Coords :
      \/ TileAt(Tiles(Dst), c) \in
            {TileAt(Value(Dif.before), c), TileAt(Value(Dif.after), c)}
      \/ Dst.type \in Normalized /\ c \notin DOMAIN Tiles(Dst)

\* A patch may die and be read at any point.
PatchedSafely == Resumable /\ ReadsOldOrNew

\* The metadata of the file a patch was made for becomes that of the file it was
\* made from, whether the patch is applied in place or to a copy.  A NULL value,
\* which the table may hold and a failed diff leaves, means deletion to a patch.
TitlesFollow ==
  \A src, dif \in {n \in Names : Sound(n) /\ file[n].title # {Null}} :
    LET patch == DiffOption(file[src].title, file[dif].title)
        inPlace == RemainingOption(ReplacedOption(file[src].title, patch), patch)
    IN CanBeDiffed(file[src]) /\ CanBeDiffed(file[dif]) =>
         /\ inPlace = file[dif].title
         /\ PatchOption(file[src].title, patch) = file[dif].title

\* A copy into an existing file replaces the tiles it has under override, and
\* keeps them under ignore, between any two schemas.
Copied(old, new, mode) ==
  IF mode = "ignore" THEN Overlay(new, old) ELSE Overlay(old, new)

CopyFollowsMode ==
  [][ (CopyTiles /\ job.command = "copy" /\ job.mode # "abort" /\ job' # NoJob) =>
        Tiles(Dst)' = Copied(Tiles(Dst), Tiles(Src), job.mode) ]_vars
=============================================================================
