------------------------- MODULE MbtilesToolProofs -------------------------
(***************************************************************************)
(* Theorems about the commands of MbtilesTool, for any coordinates,        *)
(* contents, titles and files.                                             *)
(*                                                                         *)
(* First, of any schema the model has: a diff is undone by either way of   *)
(* applying it, tile by tile, the metadata follows, and files and the      *)
(* running command are of their types.                                     *)
(*                                                                         *)
(* Then, over the schemas flat, flat-with-hash and normalized: the         *)
(* aggregate hash is that of the tiles, apply-patch can be resumed, and a  *)
(* copy follows its mode.  The invariant says what every file is, by how   *)
(* it was left (FilesInv), and what the running command has put into its   *)
(* file so far, statement by statement (JobInv).  The sections: rows and   *)
(* the tiles view; what one insert does to a table; how far each command   *)
(* got, one ...Goes lemma per statement; what a list of statements is; one *)
(* ...Keep lemma per action.                                               *)
(***************************************************************************)
EXTENDS MbtilesTool, SequenceTheorems, TLAPS

-----------------------------------------------------------------------------
(* Tiles: what a diff leaves out is what it need not change.               *)

\* A file of the two schemas that keep a tile with its coordinates.
IsFlat(f) == DOMAIN f = DOMAIN NoFile /\ f.type \in Flat

LEMMA HashedData ==
  ASSUME NEW f
  PROVE  /\ DOMAIN HashedTiles(f) = DOMAIN Tiles(f)
         /\ \A c \in DOMAIN Tiles(f) : HashedTiles(f)[c].data = Tiles(f)[c]
  BY DEF HashedTiles

\* A flat table keeps the data of a row.
LEMMA StoredData ==
  ASSUME NEW type \in Flat, NEW d, NEW h
  PROVE  Stored(type, [data |-> d, hash |-> h]).data = d
<1>1. CASE type = "flat"
  <2>1. Stored(type, [data |-> d, hash |-> h]) = [data |-> d, hash |-> Null]
    BY <1>1 DEF Stored, Normalized
  <2> QED BY <2>1
<1>2. CASE type = "flat-with-hash"
  <2>1. Stored(type, [data |-> d, hash |-> h]) = [data |-> d, hash |-> h]
    BY <1>2 DEF Stored, Normalized
  <2> QED BY <2>1
<1> QED BY <1>1, <1>2 DEF Flat

\* The diff of two files as a file of a flat schema, which run_with_diff leaves
\* when it is not asked for binary patches.
DiffFile(src, dif, type) ==
  [NoFile EXCEPT !.type = type,
                 !.rows = [c \in DOMAIN Difference(src, dif, FALSE) |->
                             Stored(type, Difference(src, dif, FALSE)[c])]]

\* What a patch says about a tile: its new data, its removal, or nothing.
LEMMA DiffRows ==
  ASSUME NEW src, NEW dif, NEW type \in Flat,
         \A c \in DOMAIN Tiles(dif) : Tiles(dif)[c] # Null
  PROVE  LET patch == DiffFile(src, dif, type) IN
         /\ \A c \in DOMAIN Tiles(patch) : c \in DOMAIN Tiles(src) \cup DOMAIN Tiles(dif)
         /\ \A c \in DOMAIN Tiles(src) \cup DOMAIN Tiles(dif) :
              IF c \in DOMAIN Tiles(patch)
              THEN Tiles(patch)[c] = (IF c \in DOMAIN Tiles(dif) THEN Tiles(dif)[c] ELSE Null)
              ELSE /\ c \in DOMAIN Tiles(src) /\ c \in DOMAIN Tiles(dif)
                   /\ Tiles(src)[c] = Tiles(dif)[c]
<1> DEFINE patch == DiffFile(src, dif, type)
           rows == Difference(src, dif, FALSE)
           changed == {c \in DOMAIN Tiles(src) \cup DOMAIN HashedTiles(dif) :
                         \/ c \notin DOMAIN Tiles(src) \/ c \notin DOMAIN HashedTiles(dif)
                         \/ Null \in {Tiles(src)[c], HashedTiles(dif)[c].data}
                         \/ Tiles(src)[c] # HashedTiles(dif)[c].data}
<1>1. DOMAIN rows = changed
  BY DEF Difference
<1>2. \A c \in changed :
        rows[c].data = IF c \in DOMAIN Tiles(dif) THEN Tiles(dif)[c] ELSE Null
  BY DEF Difference, HashedTiles
<1>3. Tiles(patch) = [c \in changed |-> Stored(type, rows[c]).data]
  BY <1>1 DEF DiffFile, Tiles, NoFile, Flat, Normalized
<1>4. \A c \in changed : Stored(type, rows[c]).data = rows[c].data
  <2>1. ASSUME NEW c \in changed PROVE rows[c] = [data |-> rows[c].data, hash |-> rows[c].hash]
    BY DEF Difference, HashedTiles
  <2> HIDE DEF rows, changed
  <2> QED
    <3> TAKE c \in changed
    <3>1. rows[c] = [data |-> rows[c].data, hash |-> rows[c].hash]
      BY <2>1
    <3>2. Stored(type, [data |-> rows[c].data, hash |-> rows[c].hash]).data = rows[c].data
      BY StoredData
    <3> QED BY <3>1, <3>2
<1>5. \A c \in (DOMAIN Tiles(src) \cup DOMAIN Tiles(dif)) \ changed :
        c \in DOMAIN Tiles(src) /\ c \in DOMAIN Tiles(dif) /\ Tiles(src)[c] = Tiles(dif)[c]
  BY HashedData
<1> HIDE DEF rows, changed, patch
<1>6. \A c \in DOMAIN Tiles(patch) : c \in DOMAIN Tiles(src) \cup DOMAIN Tiles(dif)
  BY <1>3, HashedData DEF changed
<1>7. \A c \in changed : Tiles(patch)[c] = IF c \in DOMAIN Tiles(dif) THEN Tiles(dif)[c] ELSE Null
  BY <1>2, <1>3, <1>4
<1>8. DOMAIN Tiles(patch) = changed
  BY <1>3
<1> QED BY <1>5, <1>6, <1>7, <1>8 DEF patch

\* Applied to the file it was made for, copying to a new file, a diff gives the
\* tiles it was made from, whatever the schemas of those two (the selections of
\* get_select_from_with_diff and get_select_from_apply_patch).
THEOREM PatchUndoesDiff ==
  ASSUME NEW src, NEW dif, NEW type \in Flat,
         \A c \in DOMAIN Tiles(dif) : Tiles(dif)[c] # Null
  PROVE  LET selection == Patched(src, DiffFile(src, dif, type)) IN
         /\ DOMAIN selection = DOMAIN Tiles(dif)
         /\ \A c \in DOMAIN selection : selection[c].data = Tiles(dif)[c]
<1> DEFINE patch == DiffFile(src, dif, type)
           old == HashedTiles(src)
           new == HashedTiles(patch)
           merged == Overlay(old, new)
           deleted == {c \in DOMAIN Tiles(patch) : Tiles(patch)[c] = Null}
<1>1. DOMAIN new = DOMAIN Tiles(patch) /\ \A c \in DOMAIN Tiles(patch) : new[c].data = Tiles(patch)[c]
  BY HashedData
<1>2. DOMAIN Patches(src, patch) = {}
  BY DEF Patches, HasBinary, DiffFile, NoFile, Only, Empty
<1>3. Patched(src, patch) = Only(merged, DOMAIN merged \ deleted)
  BY <1>2 DEF Patched
<1> HIDE DEF patch
<1>4. /\ DOMAIN merged = DOMAIN Tiles(src) \cup DOMAIN Tiles(patch)
      /\ \A c \in DOMAIN Tiles(patch) : merged[c].data = Tiles(patch)[c]
      /\ \A c \in DOMAIN Tiles(src) \ DOMAIN Tiles(patch) : merged[c].data = Tiles(src)[c]
  BY <1>1, HashedData DEF Overlay
<1>5. /\ DOMAIN Patched(src, patch) = DOMAIN merged \ deleted
      /\ \A c \in DOMAIN merged \ deleted : Patched(src, patch)[c] = merged[c]
  BY <1>3 DEF Only
<1>6. /\ \A c \in DOMAIN Tiles(patch) : c \in DOMAIN Tiles(src) \cup DOMAIN Tiles(dif)
      /\ \A c \in DOMAIN Tiles(src) \cup DOMAIN Tiles(dif) :
           IF c \in DOMAIN Tiles(patch)
           THEN Tiles(patch)[c] = (IF c \in DOMAIN Tiles(dif) THEN Tiles(dif)[c] ELSE Null)
           ELSE /\ c \in DOMAIN Tiles(src) /\ c \in DOMAIN Tiles(dif)
                /\ Tiles(src)[c] = Tiles(dif)[c]
  BY DiffRows DEF patch
<1> HIDE DEF old, new, merged
<1>7. DOMAIN merged \ deleted = DOMAIN Tiles(dif)
  BY <1>4, <1>6
<1>8. \A c \in DOMAIN Tiles(dif) : merged[c].data = Tiles(dif)[c]
  BY <1>4, <1>6
<1> QED BY <1>5, <1>7, <1>8 DEF patch

\* Applied in place to a flat file, by the upserts and then the deletions of
\* apply_patch, a diff gives the tiles it was made from too.
THEOREM ApplyUndoesDiff ==
  ASSUME NEW src, NEW dif, NEW type \in Flat, IsFlat(src),
         \A c \in DOMAIN Tiles(dif) : Tiles(dif)[c] # Null
  PROVE  LET patch == Tiles(DiffFile(src, dif, type))
             upserted == Only(HashedTiles(DiffFile(src, dif, type)),
                              {c \in DOMAIN patch : patch[c] # Null})
             rows == Overlay(src.rows, [c \in DOMAIN upserted |-> Stored(src.type, upserted[c])])
         IN Tiles([src EXCEPT !.rows =
                     Only(rows, DOMAIN rows \ {c \in DOMAIN patch : patch[c] = Null})])
              = Tiles(dif)
<1> DEFINE file1 == DiffFile(src, dif, type)
           patch == Tiles(file1)
           deleted == {c \in DOMAIN patch : patch[c] = Null}
           upserted == Only(HashedTiles(file1), {c \in DOMAIN patch : patch[c] # Null})
           stored == [c \in DOMAIN upserted |-> Stored(src.type, upserted[c])]
           rows == Overlay(src.rows, stored)
           left == Only(rows, DOMAIN rows \ deleted)
<1>1. /\ DOMAIN upserted = DOMAIN patch \ deleted
      /\ \A c \in DOMAIN upserted :
           upserted[c] = [data |-> patch[c], hash |-> upserted[c].hash]
  BY DEF Only, HashedTiles
<1>2. Tiles(src) = [c \in DOMAIN src.rows |-> src.rows[c].data]
  BY DEF Tiles, IsFlat, Flat, Normalized
<1>3. /\ \A c \in DOMAIN patch : c \in DOMAIN Tiles(src) \cup DOMAIN Tiles(dif)
      /\ \A c \in DOMAIN Tiles(src) \cup DOMAIN Tiles(dif) :
           IF c \in DOMAIN patch
           THEN patch[c] = (IF c \in DOMAIN Tiles(dif) THEN Tiles(dif)[c] ELSE Null)
           ELSE /\ c \in DOMAIN Tiles(src) /\ c \in DOMAIN Tiles(dif)
                /\ Tiles(src)[c] = Tiles(dif)[c]
  BY DiffRows
<1>4. Tiles([src EXCEPT !.rows = left]) = [c \in DOMAIN left |-> left[c].data]
  <2>1. [src EXCEPT !.rows = left].type = src.type /\ [src EXCEPT !.rows = left].rows = left
    BY DEF IsFlat, NoFile
  <2> HIDE DEF left
  <2> QED BY <2>1 DEF Tiles, IsFlat, Flat, Normalized
<1> HIDE DEF patch
<1> HIDE DEF upserted
<1>5. \A c \in DOMAIN upserted : stored[c].data = patch[c]
  <2> TAKE c \in DOMAIN upserted
  <2>1. stored[c] = Stored(src.type, [data |-> patch[c], hash |-> upserted[c].hash])
    BY <1>1
  <2> QED BY <2>1, StoredData DEF IsFlat
<1> HIDE DEF stored
<1>6. DOMAIN stored = DOMAIN upserted
  BY DEF stored
<1>7. /\ DOMAIN left = (DOMAIN src.rows \cup DOMAIN upserted) \ deleted
      /\ \A c \in DOMAIN left :
           left[c] = IF c \in DOMAIN upserted THEN stored[c] ELSE src.rows[c]
  BY <1>6 DEF Only, Overlay
<1> HIDE DEF left
<1>8. DOMAIN left = DOMAIN Tiles(dif)
  BY <1>1, <1>2, <1>3, <1>7
<1>9. \A c \in DOMAIN left : left[c].data = Tiles(dif)[c]
  <2> TAKE c \in DOMAIN left
  <2>1. CASE c \in DOMAIN upserted
    <3>1. c \in DOMAIN patch /\ left[c].data = patch[c]
      BY <1>1, <1>5, <1>7, <2>1
    <3> QED BY <1>3, <1>8, <3>1
  <2>2. CASE c \notin DOMAIN upserted
    <3>1. c \in DOMAIN src.rows /\ c \notin DOMAIN patch /\ left[c] = src.rows[c]
      BY <1>1, <1>7, <2>2
    <3> QED BY <1>2, <1>3, <3>1
  <2> QED BY <2>1, <2>2
<1>10. \E S : Tiles(dif) = [c \in S |-> Tiles(dif)[c]]
  <2>1. CASE dif.type \in Normalized
    BY <2>1 DEF Tiles
  <2>2. CASE dif.type \notin Normalized
    BY <2>2 DEF Tiles
  <2> QED BY <2>1, <2>2
<1> HIDE DEF deleted
<1>11. [c \in DOMAIN left |-> left[c].data] = Tiles(dif)
  BY <1>8, <1>9, <1>10
<1> QED BY <1>4, <1>11 DEF left, stored, upserted, patch, deleted

-----------------------------------------------------------------------------
(* Metadata.                                                               *)

Options == {{}} \cup {{v} : v \in Titles \cup {Null}}

LEMMA ValueOf ==
  /\ Value({}) = Null
  /\ \A v : Value({v}) = v
  BY DEF Value

\* Every way to merge, diff or patch a metadata value gives one, or none.
LEMMA OptionsStay ==
  ASSUME NEW old \in Options, NEW new \in Options
  PROVE  /\ DiffOption(old, new) \in Options
         /\ PatchOption(old, new) \in Options
         /\ MergedOption(old, new) \in Options
         /\ ReplacedOption(old, new) \in Options
         /\ RemainingOption(old, new) \in Options
<1>1. Value(old) \in Titles \cup {Null} /\ Value(new) \in Titles \cup {Null}
  BY ValueOf DEF Options
<1> QED
  BY <1>1 DEF Options, DiffOption, PatchOption, MergedOption, ReplacedOption, RemainingOption

\* A patch turns the value it was made for into the value it was made from.
LEMMA TitlePatched ==
  ASSUME NEW old \in Options \ {{Null}}, NEW new \in Options \ {{Null}}
  PROVE  LET patch == DiffOption(old, new) IN
         /\ RemainingOption(ReplacedOption(old, patch), patch) = new
         /\ PatchOption(old, patch) = new
<1>1. CASE new = {}
  <2>1. Value(new) = Null
    BY <1>1, ValueOf
  <2>2. CASE old = {}
    BY <1>1, <2>2 DEF DiffOption, PatchOption, ReplacedOption, RemainingOption
  <2>3. CASE old # {}
    <3>1. DiffOption(old, new) = {Null}
      BY <1>1, <2>1, <2>3 DEF DiffOption
    <3> QED BY <1>1, <3>1, ValueOf DEF PatchOption, ReplacedOption, RemainingOption
  <2> QED BY <2>2, <2>3
<1>2. ASSUME NEW v \in Titles, new = {v} PROVE
        LET patch == DiffOption(old, new) IN
         /\ RemainingOption(ReplacedOption(old, patch), patch) = new
         /\ PatchOption(old, patch) = new
  <2>1. Value(new) = v /\ v # Null
    BY <1>2, ValueOf, NullAssumption
  <2>2. CASE old = new
    <3>1. DiffOption(old, new) = {}
      BY <2>1, <2>2 DEF DiffOption
    <3> QED BY <2>2, <3>1 DEF PatchOption, ReplacedOption, RemainingOption
  <2>3. CASE old # new
    <3>1. Value(old) # v
      BY <1>2, <2>1, <2>3, ValueOf, ZenonT(60) DEF Options
    <3>2. DiffOption(old, new) = new
      BY <1>2, <2>1, <3>1 DEF DiffOption
    <3> QED BY <1>2, <2>1, <3>2, ValueOf DEF PatchOption, ReplacedOption, RemainingOption
  <2> QED BY <2>2, <2>3
<1> QED BY <1>1, <1>2 DEF Options

IsTitled(f) == DOMAIN f = DOMAIN NoFile /\ f.title \in Options

\* The statements that a command may list.
Lists(command) ==
  CASE command = "copy" -> {"images", "tiles", "metadata", "agg"}
    [] command = "diff" ->
         {"images", "tiles", "metadata", "binary", "before", "after", "agg"}
    [] command = "patch" -> {"images", "tiles", "metadata", "binary", "agg", "check"}
    [] command = "apply" ->
         {"upsert", "upsert_images", "delete", "collect", "replace", "forget"}
    [] OTHER -> {}

TitleInv ==
  /\ DOMAIN file = Names
  /\ \A n \in Names : IsTitled(file[n])
  /\ job.todo \in Seq(Lists(job.command))
  /\ job.todo # <<>> =>
       /\ job.dst \in Names
       /\ job.command \in {"copy", "diff", "patch", "apply"}
       /\ job.command # "apply" => job.src \in Names
       /\ job.command # "copy" => job.dif \in Names
  /\ DOMAIN job = DOMAIN NoJob

LEMMA NoJobTyped == NoJob.todo = <<>> /\ <<>> \in Seq(Lists(NoJob.command))
  BY DEF NoJob

LEMMA TitleInit == Init => TitleInv
<1> SUFFICES ASSUME Init PROVE TitleInv
  OBVIOUS
<1>1. file \in InitialFiles
  BY DEF Init
<1>2. DOMAIN file = Names /\ \A n \in Names : IsTitled(file[n])
  BY <1>1, InitialFilesAssumption DEF IsTitled, Options
<1>3. job = NoJob
  BY DEF Init
<1> QED BY <1>2, <1>3, NoJobTyped DEF TitleInv

\* Starting a command.
LEMMA StartKeeps ==
  ASSUME TitleInv,
         NEW command \in {"copy", "diff", "patch", "apply"},
         NEW src, NEW dif, NEW dst \in Names, NEW mode, NEW binary, NEW type,
         NEW todo \in Seq(Lists(command)),
         command # "apply" => src \in Names, command # "copy" => dif \in Names,
         Start(command, src, dif, dst, mode, binary, type, todo)
  PROVE  TitleInv'
<1>1. job' = [command |-> command, src |-> src, dif |-> dif, dst |-> dst,
              mode |-> mode, binary |-> binary, todo |-> todo]
  BY DEF Start
<1>2. file' = [file EXCEPT ![dst] = [file[dst] EXCEPT !.type = type]]
  BY DEF Start
<1>3. IsTitled([file[dst] EXCEPT !.type = type])
  BY DEF TitleInv, IsTitled, NoFile
<1>4. DOMAIN file' = Names /\ \A n \in Names : IsTitled(file'[n])
  BY <1>2, <1>3 DEF TitleInv
<1> QED BY <1>1, <1>4 DEF TitleInv, NoJob

\* A statement that leaves a title leaves the invariant.
LEMMA BecomesKeeps ==
  ASSUME TitleInv, job.todo # <<>>, NEW files, Becomes(files),
         \A f \in files : IsTitled(f)
  PROVE  TitleInv'
<1>1. CASE files = {}
  BY <1>1, NoJobTyped DEF Becomes, TitleInv
<1>2. CASE files # {}
  <2>1. PICK f \in files : file' = [file EXCEPT ![job.dst] = f]
    BY <1>2 DEF Becomes
  <2>2. DOMAIN file' = Names /\ \A n \in Names : IsTitled(file'[n])
    BY <2>1 DEF TitleInv
  <2>3. job' = NoJob \/ job' = [job EXCEPT !.todo = Tail(job.todo)]
    BY <1>2 DEF Becomes
  <2>4. Tail(job.todo) \in Seq(Lists(job.command))
    <3> DEFINE S == Lists(job.command)
    <3>1. job.todo \in Seq(S) /\ job.todo # <<>>
      BY DEF TitleInv
    <3> HIDE DEF S
    <3>2. Tail(job.todo) \in Seq(S)
      BY <3>1
    <3> QED BY <3>2 DEF S
  <2>5. CASE job' = NoJob
    BY <2>2, <2>5, NoJobTyped DEF TitleInv
  <2>6. CASE job' = [job EXCEPT !.todo = Tail(job.todo)]
    <3>1. /\ job'.todo = Tail(job.todo) /\ job'.command = job.command
          /\ job'.src = job.src /\ job'.dif = job.dif /\ job'.dst = job.dst
          /\ DOMAIN job' = DOMAIN job
      BY <2>6 DEF TitleInv, NoJob
    <3> QED BY <2>2, <2>4, <3>1 DEF TitleInv
  <2> QED BY <2>3, <2>5, <2>6
<1> QED BY <1>1, <1>2

LEMMA ImagesFirstIn ==
  ASSUME NEW S, "images" \in S, NEW type, NEW todo \in Seq(S)
  PROVE  ImagesFirst(type, todo) \in Seq(S)
<1>1. <<"images">> \in Seq(S)
  OBVIOUS
<1> QED BY <1>1 DEF ImagesFirst

LEMMA StartStep ==
  ASSUME TitleInv,
         \/ \E src, dst \in Names, what \in CopyTypes, mode \in Modes, type \in Types :
              StartCopy(src, dst, what, mode, type)
         \/ \E src, dif, dst \in Names, binary \in BOOLEAN, type \in Types :
              StartDiff(src, dif, dst, binary, type)
         \/ \E src, dif, dst \in Names, type \in Types : StartPatch(src, dif, dst, type)
         \/ \E dif, dst \in Names : StartApply(dif, dst)
  PROVE  TitleInv'
<1>4. ASSUME NEW src \in Names, NEW dst \in Names, NEW what \in CopyTypes,
             NEW mode \in Modes, NEW type \in Types, StartCopy(src, dst, what, mode, type)
      PROVE  TitleInv'
  <2> DEFINE S == Lists("copy")
             tiles == IF what = "metadata" THEN <<>> ELSE ImagesFirst(type, <<"tiles">>)
             metadata == IF what = "tiles" THEN <<>> ELSE <<"metadata">>
             agg == IF what = "metadata" THEN <<>> ELSE <<"agg">>
             todo == tiles \o metadata \o agg
  <2>1. Start("copy", src, "", dst, mode, FALSE, type, todo)
    BY <1>4 DEF StartCopy
  <2>2. "images" \in S /\ "tiles" \in S /\ "metadata" \in S /\ "agg" \in S
    BY DEF Lists
  <2> HIDE DEF S
  <2>3. <<"tiles">> \in Seq(S) /\ metadata \in Seq(S) /\ agg \in Seq(S)
    BY <2>2
  <2>4. tiles \in Seq(S)
    BY <2>2, <2>3, ImagesFirstIn
  <2> HIDE DEF tiles, metadata, agg
  <2>5. todo \in Seq(S)
    BY <2>3, <2>4
  <2> QED BY <2>1, <2>5, StartKeeps DEF S
<1>5. ASSUME NEW src \in Names, NEW dif \in Names, NEW dst \in Names,
             NEW binary \in BOOLEAN, NEW type \in Types, StartDiff(src, dif, dst, binary, type)
      PROVE  TitleInv'
  <2> DEFINE S == Lists("diff")
             copied == ImagesFirst(type, <<"tiles", "metadata">>)
             patches == IF binary THEN <<"binary">> ELSE <<>>
             todo == copied \o patches \o <<"before", "after", "agg">>
  <2>1. Start("diff", src, dif, dst, "override", binary, type, todo)
    BY <1>5 DEF StartDiff
  <2>2. /\ "images" \in S /\ "tiles" \in S /\ "metadata" \in S /\ "binary" \in S
        /\ "before" \in S /\ "after" \in S /\ "agg" \in S
    BY DEF Lists
  <2> HIDE DEF S
  <2>3. /\ <<"tiles", "metadata">> \in Seq(S) /\ patches \in Seq(S)
        /\ <<"before", "after", "agg">> \in Seq(S)
    BY <2>2
  <2>4. copied \in Seq(S)
    BY <2>2, <2>3, ImagesFirstIn
  <2> HIDE DEF copied, patches
  <2>5. todo \in Seq(S)
    BY <2>3, <2>4
  <2> QED BY <2>1, <2>5, StartKeeps DEF S
<1>6. ASSUME NEW src \in Names, NEW dif \in Names, NEW dst \in Names, NEW type \in Types,
             StartPatch(src, dif, dst, type)
      PROVE  TitleInv'
  <2> DEFINE S == Lists("patch")
             copied == ImagesFirst(type, <<"tiles", "metadata">>)
             patches == IF HasBinary(file[dif]) THEN <<"binary">> ELSE <<>>
             todo == copied \o patches \o <<"agg", "check">>
  <2>1. Start("patch", src, dif, dst, "override", FALSE, type, todo)
    BY <1>6 DEF StartPatch
  <2>2. /\ "images" \in S /\ "tiles" \in S /\ "metadata" \in S /\ "binary" \in S
        /\ "agg" \in S /\ "check" \in S
    BY DEF Lists
  <2> HIDE DEF S
  <2>3. /\ <<"tiles", "metadata">> \in Seq(S) /\ patches \in Seq(S)
        /\ <<"agg", "check">> \in Seq(S)
    BY <2>2
  <2>4. copied \in Seq(S)
    BY <2>2, <2>3, ImagesFirstIn
  <2> HIDE DEF copied, patches
  <2>5. todo \in Seq(S)
    BY <2>3, <2>4
  <2> QED BY <2>1, <2>5, StartKeeps DEF S
<1>7. ASSUME NEW dif \in Names, NEW dst \in Names, StartApply(dif, dst) PROVE TitleInv'
  <2> DEFINE T == Lists("apply")
             images == IF file[dst].type \in Normalized
                       THEN <<"upsert_images", "delete", "collect">> ELSE <<"delete">>
             todo == <<"upsert">> \o images \o <<"replace", "forget">>
  <2>1. Start("apply", "", dif, dst, "override", FALSE, file[dst].type, todo)
    BY <1>7 DEF StartApply
  <2>2. {"upsert", "upsert_images", "delete", "collect", "replace", "forget"} \subseteq T
    BY DEF Lists
  <2> HIDE DEF T
  <2>3. /\ <<"upsert">> \in Seq(T) /\ images \in Seq(T) /\ <<"replace", "forget">> \in Seq(T)
    BY <2>2
  <2> HIDE DEF images
  <2>4. todo \in Seq(T)
    BY <2>3
  <2> QED BY <2>1, <2>4, StartKeeps DEF T
<1> QED BY <1>4, <1>5, <1>6, <1>7

\* What the statements other than those on metadata do to a title: nothing.
LEMMA KeepsTitle ==
  ASSUME NEW f, IsTitled(f), NEW v
  PROVE  /\ IsTitled([f EXCEPT !.images = v]) /\ IsTitled([f EXCEPT !.rows = v])
         /\ IsTitled([f EXCEPT !.binary = v]) /\ IsTitled([f EXCEPT !.agg = v])
         /\ IsTitled([f EXCEPT !.before = v]) /\ IsTitled([f EXCEPT !.after = v])
  BY DEF IsTitled, NoFile

LEMMA TitleStep == TitleInv /\ [Next]_vars => TitleInv'
<1> SUFFICES ASSUME TitleInv, [Next]_vars PROVE TitleInv'
  OBVIOUS
<1>0. job.todo # <<>> => IsTitled(Dst)
  BY DEF TitleInv, Dst
<1>h. ASSUME job.todo # <<>> PROVE Head(job.todo) \in Lists(job.command)
  <2> DEFINE S == Lists(job.command)
  <2>1. job.todo \in Seq(S) /\ job.todo # <<>>
    BY <1>h DEF TitleInv
  <2> HIDE DEF S
  <2>2. Head(job.todo) \in S
    BY <2>1
  <2> QED BY <2>2 DEF S
<1>1. ASSUME NEW n \in Names, Revalidate(n) PROVE TitleInv'
  <2>1. file' = [file EXCEPT ![n] = [file[n] EXCEPT !.agg = {AggHash(file[n])}]] /\ job' = job
    BY <1>1 DEF Revalidate, UpdateAggHash
  <2>2. IsTitled([file[n] EXCEPT !.agg = {AggHash(file[n])}])
    BY KeepsTitle DEF TitleInv
  <2>3. DOMAIN file' = Names /\ \A m \in Names : IsTitled(file'[m])
    BY <2>1, <2>2 DEF TitleInv
  <2> QED BY <2>1, <2>3 DEF TitleInv
<1>2. CASE CopyImages
  <2>1. \A v : IsTitled([Dst EXCEPT !.images = v])
    BY <1>0, <1>2, KeepsTitle DEF CopyImages, Doing
  <2> QED BY <1>2, <2>1, BecomesKeeps DEF CopyImages, Doing
<1>3. CASE CopyTiles
  <2>1. \A v : IsTitled([Dst EXCEPT !.rows = v])
    BY <1>0, <1>3, KeepsTitle DEF CopyTiles, Doing
  <2>2. \E tables : Becomes({}) \/ Becomes({[Dst EXCEPT !.rows = t] : t \in tables})
    <3>1. CASE job.mode = "abort" /\ ~AbortWorks
      BY <1>3, <3>1 DEF CopyTiles
    <3>2. CASE ~(job.mode = "abort" /\ ~AbortWorks)
      BY <1>3, <3>2 DEF CopyTiles
    <3> QED BY <3>1, <3>2
  <2>3. PICK tables : Becomes({}) \/ Becomes({[Dst EXCEPT !.rows = t] : t \in tables})
    BY <2>2
  <2>4. CASE Becomes({})
    BY <1>3, <2>4, BecomesKeeps DEF CopyTiles, Doing
  <2>5. CASE Becomes({[Dst EXCEPT !.rows = t] : t \in tables})
    BY <1>3, <2>1, <2>5, BecomesKeeps DEF CopyTiles, Doing
  <2> QED BY <2>3, <2>4, <2>5
<1>4. CASE CopyMetadata
  <2>1. job.todo # <<>> /\ Head(job.todo) = "metadata"
    BY <1>4 DEF CopyMetadata, Doing
  <2>2. /\ job.command \in {"copy", "diff", "patch"} /\ job.src \in Names
        /\ job.command # "copy" => job.dif \in Names
    BY <1>h, <2>1 DEF TitleInv, Lists
  <2>3. /\ Dst.title \in Options /\ Src.title \in Options
        /\ job.command # "copy" => Dif.title \in Options
    BY <1>0, <2>1, <2>2 DEF TitleInv, IsTitled, Src, Dif
  <2>4. \A t \in Options : IsTitled([Dst EXCEPT !.title = t])
    BY <1>0, <2>1 DEF IsTitled, NoFile
  <2>5. \A t \in Options : \A x, y, z :
          IsTitled([Dst EXCEPT !.title = t, !.agg = x, !.before = y, !.after = z])
    BY <1>0, <2>1 DEF IsTitled, NoFile
  <2>6. CASE job.command = "diff"
    <3>1. Becomes({[Dst EXCEPT !.title = DiffOption(Src.title, Dif.title)]})
      BY <1>4, <2>6 DEF CopyMetadata
    <3>2. IsTitled([Dst EXCEPT !.title = DiffOption(Src.title, Dif.title)])
      BY <2>3, <2>4, <2>6, OptionsStay
    <3> QED BY <2>1, <3>1, <3>2, BecomesKeeps
  <2>7. CASE job.command = "patch"
    <3>1. Becomes({[Dst EXCEPT !.title = PatchOption(Src.title, Dif.title)]})
      BY <1>4, <2>7 DEF CopyMetadata
    <3>2. IsTitled([Dst EXCEPT !.title = PatchOption(Src.title, Dif.title)])
      BY <2>3, <2>4, <2>7, OptionsStay
    <3> QED BY <2>1, <3>1, <3>2, BecomesKeeps
  <2>8. CASE job.command = "copy"
    <3> DEFINE merged == [Dst EXCEPT !.title = MergedOption(Dst.title, Src.title),
                                     !.agg = MergedOption(Dst.agg, Src.agg),
                                     !.before = MergedOption(Dst.before, Src.before),
                                     !.after = MergedOption(Dst.after, Src.after)]
    <3>1. Becomes({}) \/ Becomes({merged})
      BY <1>4, <2>8 DEF CopyMetadata
    <3>2. IsTitled(merged)
      BY <2>3, <2>5, OptionsStay
    <3> HIDE DEF merged
    <3> QED BY <2>1, <3>1, <3>2, BecomesKeeps
  <2> QED BY <2>2, <2>6, <2>7, <2>8
<1>5. CASE CopyBinary \/ StopBinary
  <2>1. job.todo # <<>> /\ IsTitled(Dst) /\ job.dst \in Names
    BY <1>0, <1>5 DEF CopyBinary, StopBinary, Doing, TitleInv
  <2>2. \A coords : IsTitled(WithBinary(coords))
    BY <2>1, KeepsTitle DEF WithBinary
  <2>3. CASE CopyBinary
    BY <2>1, <2>2, <2>3, BecomesKeeps DEF CopyBinary
  <2>4. CASE StopBinary
    <3>1. PICK coords : file' = [file EXCEPT ![job.dst] = WithBinary(coords)]
      BY <2>4 DEF StopBinary
    <3>2. DOMAIN file' = Names /\ \A n \in Names : IsTitled(file'[n])
      BY <2>1, <2>2, <3>1 DEF TitleInv
    <3>3. job' = NoJob
      BY <2>4 DEF StopBinary
    <3> QED BY <3>2, <3>3, NoJobTyped DEF TitleInv
  <2> QED BY <1>5, <2>3, <2>4
<1>6. CASE SetBefore \/ SetAfter \/ UpdateAgg
  <2>1. job.todo # <<>> /\ IsTitled(Dst)
    BY <1>0, <1>6 DEF SetBefore, SetAfter, UpdateAgg, Doing
  <2>2. /\ IsTitled([Dst EXCEPT !.before = Src.agg]) /\ IsTitled([Dst EXCEPT !.after = Dif.agg])
        /\ IsTitled([Dst EXCEPT !.agg = {AggHash(Dst)}])
    BY <2>1, KeepsTitle
  <2> QED BY <1>6, <2>1, <2>2, BecomesKeeps DEF SetBefore, SetAfter, UpdateAgg, UpdateAggHash
<1>7. CASE CheckAfter
  BY <1>0, <1>7, BecomesKeeps DEF CheckAfter, Doing
<1>8. CASE Upsert \/ Delete
  <2>1. job.todo # <<>> /\ \A v : IsTitled([Dst EXCEPT !.rows = v])
    BY <1>0, <1>8, KeepsTitle DEF Upsert, Delete, Doing
  <2>2. PICK v : Becomes({[Dst EXCEPT !.rows = v]})
    BY <1>8 DEF Upsert, Delete
  <2> QED BY <2>1, <2>2, BecomesKeeps
<1>9. CASE UpsertImages \/ Collect
  <2>1. job.todo # <<>> /\ \A v : IsTitled([Dst EXCEPT !.images = v])
    BY <1>0, <1>9, KeepsTitle DEF UpsertImages, Collect, Doing
  <2>2. PICK v : Becomes({[Dst EXCEPT !.images = v]})
    BY <1>9 DEF UpsertImages, Collect
  <2> QED BY <2>1, <2>2, BecomesKeeps
<1>10. CASE Replace \/ Forget
  <2>1. job.todo # <<>> /\ Head(job.todo) \in {"replace", "forget"}
    BY <1>10 DEF Replace, Forget, Doing
  <2>2. job.command = "apply" /\ job.dif \in Names
    BY <1>h, <2>1 DEF TitleInv, Lists
  <2>3. Dst.title \in Options /\ Dif.title \in Options /\ IsTitled(Dst)
    BY <1>0, <2>1, <2>2 DEF TitleInv, IsTitled, Dif
  <2>4. \A t \in Options : \A v : /\ IsTitled([Dst EXCEPT !.title = t])
                                  /\ IsTitled([Dst EXCEPT !.title = t, !.agg = v])
    BY <2>3 DEF IsTitled, NoFile
  <2>5. CASE Replace
    <3>1. Becomes({[Dst EXCEPT !.title = ReplacedOption(Dst.title, Dif.title), !.agg = Dif.after]})
      BY <2>5 DEF Replace
    <3>2. IsTitled([Dst EXCEPT !.title = ReplacedOption(Dst.title, Dif.title), !.agg = Dif.after])
      BY <2>3, <2>4, OptionsStay
    <3> QED BY <2>1, <3>1, <3>2, BecomesKeeps
  <2>6. CASE Forget
    <3>1. Becomes({[Dst EXCEPT !.title = RemainingOption(Dst.title, Dif.title)]})
      BY <2>6 DEF Forget
    <3>2. IsTitled([Dst EXCEPT !.title = RemainingOption(Dst.title, Dif.title)])
      BY <2>3, <2>4, OptionsStay
    <3> QED BY <2>1, <3>1, <3>2, BecomesKeeps
  <2> QED BY <1>10, <2>5, <2>6
<1>11. CASE Crash
  BY <1>11, NoJobTyped DEF Crash, TitleInv
<1>12. CASE UNCHANGED vars
  BY <1>12 DEF vars, TitleInv, IsTitled
<1> QED
  BY <1>1, <1>2, <1>3, <1>4, <1>5, <1>6, <1>7, <1>8, <1>9, <1>10, <1>11, <1>12, StartStep
  DEF Next

\* The metadata of the file a patch was made for becomes that of the file it was
\* made from, in place and in a copy, whatever commands ran, failed or died before.
THEOREM TitlesAreFollowed == Spec => []TitlesFollow
<1>1. ASSUME TitleInv PROVE TitlesFollow
  <2>1. ASSUME NEW n \in Names, file[n].title # {Null}
        PROVE  file[n].title \in Options \ {{Null}}
    BY <1>1, <2>1 DEF TitleInv, IsTitled
  <2> QED BY <2>1, TitlePatched DEF TitlesFollow
<1> QED BY <1>1, TitleInit, TitleStep, PTL DEF Spec

-----------------------------------------------------------------------------
(* Type correctness.                                                       *)

AtMostOne(option) == \E v \in option \cup {Null} : option \in {{}, {v}}

RowTyped(type, row) ==
  /\ DOMAIN row = {"data", "hash"} /\ row.data \in Data \cup {Null}
  /\ type \in Normalized => row.data = Null

RowsTyped(type, rows) ==
  DOMAIN rows \subseteq Coords /\ \A c \in DOMAIN rows : RowTyped(type, rows[c])

ImagesTyped(images) == \A id \in DOMAIN images : images[id] \in Data \cup {Null}

BinaryTyped(binary) ==
  \A patches \in binary : \A c \in DOMAIN patches : c \in Coords /\ patches[c].to \in Data

\* What a selection has for a table of any type.
SelectionTyped(sel) ==
  \A c \in DOMAIN sel :
    c \in Coords /\ DOMAIN sel[c] = {"data", "hash"} /\ sel[c].data \in Data \cup {Null}

LEMMA FileParts ==
  ASSUME NEW f
  PROVE  IsFile(f) <=>
           /\ DOMAIN f = DOMAIN NoFile /\ f.type \in Types \cup {"none"}
           /\ RowsTyped(f.type, f.rows) /\ ImagesTyped(f.images) /\ BinaryTyped(f.binary)
           /\ AtMostOne(f.binary) /\ AtMostOne(f.title) /\ AtMostOne(f.agg)
           /\ AtMostOne(f.before) /\ AtMostOne(f.after)
           /\ f.title \subseteq Titles \cup {Null}
  BY DEF IsFile, RowsTyped, RowTyped, ImagesTyped, BinaryTyped, AtMostOne

LEMMA Options1 == AtMostOne({}) /\ \A v : AtMostOne({v})
  BY DEF AtMostOne

LEMMA RowsKeepFile ==
  ASSUME NEW f, IsFile(f), NEW rows, RowsTyped(f.type, rows)
  PROVE  IsFile([f EXCEPT !.rows = rows])
<1> DEFINE g == [f EXCEPT !.rows = rows]
<1>1. DOMAIN f = DOMAIN NoFile
  BY DEF IsFile
<1>2. /\ DOMAIN g = DOMAIN NoFile /\ g.rows = rows /\ g.type = f.type /\ g.images = f.images
      /\ g.binary = f.binary /\ g.title = f.title /\ g.agg = f.agg
      /\ g.before = f.before /\ g.after = f.after
  BY <1>1 DEF NoFile
<1> HIDE DEF g
<1>3. IsFile(g)
  BY <1>2, FileParts
<1> QED BY <1>3 DEF g

LEMMA ImagesKeepFile ==
  ASSUME NEW f, IsFile(f), NEW images, ImagesTyped(images)
  PROVE  IsFile([f EXCEPT !.images = images])
<1> DEFINE g == [f EXCEPT !.images = images]
<1>1. DOMAIN f = DOMAIN NoFile
  BY DEF IsFile
<1>2. /\ DOMAIN g = DOMAIN NoFile /\ g.rows = f.rows /\ g.type = f.type /\ g.images = images
      /\ g.binary = f.binary /\ g.title = f.title /\ g.agg = f.agg
      /\ g.before = f.before /\ g.after = f.after
  BY <1>1 DEF NoFile
<1> HIDE DEF g
<1>3. IsFile(g)
  BY <1>2, FileParts
<1> QED BY <1>3 DEF g

\* The options of a file, one at a time.
LEMMA OptionsKeepFile ==
  ASSUME NEW f, IsFile(f), NEW option, AtMostOne(option)
  PROVE  /\ IsFile([f EXCEPT !.agg = option])
         /\ IsFile([f EXCEPT !.before = option])
         /\ IsFile([f EXCEPT !.after = option])
         /\ BinaryTyped(option) => IsFile([f EXCEPT !.binary = option])
         /\ option \subseteq Titles \cup {Null} => IsFile([f EXCEPT !.title = option])
<1>1. DOMAIN f = DOMAIN NoFile
  BY DEF IsFile
<1>2. IsFile([f EXCEPT !.agg = option])
  <2> DEFINE g == [f EXCEPT !.agg = option]
  <2>2. /\ DOMAIN g = DOMAIN NoFile /\ g.rows = f.rows /\ g.type = f.type /\ g.images = f.images
        /\ g.binary = f.binary /\ g.title = f.title /\ g.agg = option
        /\ g.before = f.before /\ g.after = f.after
    BY <1>1 DEF NoFile
  <2> HIDE DEF g
  <2>3. IsFile(g)
    BY <2>2, FileParts
  <2> QED BY <2>3 DEF g
<1>3. IsFile([f EXCEPT !.before = option])
  <2> DEFINE g == [f EXCEPT !.before = option]
  <2>2. /\ DOMAIN g = DOMAIN NoFile /\ g.rows = f.rows /\ g.type = f.type /\ g.images = f.images
        /\ g.binary = f.binary /\ g.title = f.title /\ g.agg = f.agg
        /\ g.before = option /\ g.after = f.after
    BY <1>1 DEF NoFile
  <2> HIDE DEF g
  <2>3. IsFile(g)
    BY <2>2, FileParts
  <2> QED BY <2>3 DEF g
<1>4. IsFile([f EXCEPT !.after = option])
  <2> DEFINE g == [f EXCEPT !.after = option]
  <2>2. /\ DOMAIN g = DOMAIN NoFile /\ g.rows = f.rows /\ g.type = f.type /\ g.images = f.images
        /\ g.binary = f.binary /\ g.title = f.title /\ g.agg = f.agg
        /\ g.before = f.before /\ g.after = option
    BY <1>1 DEF NoFile
  <2> HIDE DEF g
  <2>3. IsFile(g)
    BY <2>2, FileParts
  <2> QED BY <2>3 DEF g
<1>5. ASSUME BinaryTyped(option) PROVE IsFile([f EXCEPT !.binary = option])
  <2> DEFINE g == [f EXCEPT !.binary = option]
  <2>2. /\ DOMAIN g = DOMAIN NoFile /\ g.rows = f.rows /\ g.type = f.type /\ g.images = f.images
        /\ g.binary = option /\ g.title = f.title /\ g.agg = f.agg
        /\ g.before = f.before /\ g.after = f.after
    BY <1>1 DEF NoFile
  <2> HIDE DEF g
  <2>3. IsFile(g)
    BY <1>5, <2>2, FileParts
  <2> QED BY <2>3 DEF g
<1>6. ASSUME option \subseteq Titles \cup {Null} PROVE IsFile([f EXCEPT !.title = option])
  <2> DEFINE g == [f EXCEPT !.title = option]
  <2>2. /\ DOMAIN g = DOMAIN NoFile /\ g.rows = f.rows /\ g.type = f.type /\ g.images = f.images
        /\ g.binary = f.binary /\ g.title = option /\ g.agg = f.agg
        /\ g.before = f.before /\ g.after = f.after
    BY <1>1 DEF NoFile
  <2> HIDE DEF g
  <2>3. IsFile(g)
    BY <1>6, <2>2, FileParts
  <2> QED BY <2>3 DEF g
<1> QED BY <1>2, <1>3, <1>4, <1>5, <1>6

LEMMA TilesTyped ==
  ASSUME NEW f, IsFile(f)
  PROVE  \A c \in DOMAIN Tiles(f) : c \in Coords /\ Tiles(f)[c] \in Data \cup {Null}
  BY DEF IsFile, Tiles

LEMMA HashedTyped ==
  ASSUME NEW f, IsFile(f)
  PROVE  SelectionTyped(HashedTiles(f)) /\ DOMAIN HashedTiles(f) = DOMAIN Tiles(f)
  BY TilesTyped DEF HashedTiles, SelectionTyped

LEMMA OnlyTyped ==
  ASSUME NEW sel, SelectionTyped(sel), NEW S
  PROVE  SelectionTyped(Only(sel, S))
  BY DEF SelectionTyped, Only

LEMMA OverlayTyped ==
  ASSUME NEW old, SelectionTyped(old), NEW new, SelectionTyped(new)
  PROVE  SelectionTyped(Overlay(old, new))
<1> DEFINE S == Overlay(old, new)
<1>1. ASSUME NEW c \in DOMAIN S
      PROVE  (c \in DOMAIN new /\ S[c] = new[c]) \/ (c \in DOMAIN old /\ S[c] = old[c])
  BY DEF Overlay
<1> HIDE DEF S
<1>2. SelectionTyped(S)
  BY <1>1 DEF SelectionTyped
<1> QED BY <1>2 DEF S

LEMMA OverlayRows ==
  ASSUME NEW type, NEW old, RowsTyped(type, old), NEW new, RowsTyped(type, new)
  PROVE  RowsTyped(type, Overlay(old, new))
<1> DEFINE S == Overlay(old, new)
<1>1. ASSUME NEW c \in DOMAIN S
      PROVE  (c \in DOMAIN new /\ S[c] = new[c]) \/ (c \in DOMAIN old /\ S[c] = old[c])
  BY DEF Overlay
<1> HIDE DEF S
<1>2. RowsTyped(type, S)
  BY <1>1 DEF RowsTyped
<1> QED BY <1>2 DEF S

LEMMA OverlayImages ==
  ASSUME NEW old, ImagesTyped(old), NEW new, ImagesTyped(new)
  PROVE  ImagesTyped(Overlay(old, new))
  BY DEF ImagesTyped, Overlay

LEMMA OnlyKept ==
  ASSUME NEW S
  PROVE  /\ \A type, rows : RowsTyped(type, rows) => RowsTyped(type, Only(rows, S))
         /\ \A images : ImagesTyped(images) => ImagesTyped(Only(images, S))
  BY DEF RowsTyped, ImagesTyped, Only

LEMMA StoredTyped ==
  ASSUME NEW type \in Types, NEW row, DOMAIN row = {"data", "hash"}, row.data \in Data \cup {Null}
  PROVE  RowTyped(type, Stored(type, row))
<1>1. CASE type = "flat"
  <2>1. Stored(type, row) = [row EXCEPT !.hash = Null]
    BY <1>1 DEF Stored, Normalized
  <2> QED BY <1>1, <2>1 DEF RowTyped, Normalized
<1>2. CASE type = "flat-with-hash"
  <2>1. Stored(type, row) = row
    BY <1>2 DEF Stored, Normalized
  <2> QED BY <1>2, <2>1 DEF RowTyped, Normalized
<1>3. CASE type \in Normalized
  <2>1. Stored(type, row) = [row EXCEPT !.data = Null]
    BY <1>3 DEF Stored, Normalized
  <2> QED BY <1>3, <2>1 DEF RowTyped, Normalized
<1> QED BY <1>1, <1>2, <1>3 DEF Types, Flat

LEMMA StoredSelection ==
  ASSUME NEW type \in Types, NEW sel, SelectionTyped(sel)
  PROVE  RowsTyped(type, [c \in DOMAIN sel |-> Stored(type, sel[c])])
<1>1. ASSUME NEW c \in DOMAIN sel PROVE c \in Coords /\ RowTyped(type, Stored(type, sel[c]))
  BY StoredTyped DEF SelectionTyped
<1> QED BY <1>1 DEF RowsTyped

LEMMA InsertTyped ==
  ASSUME NEW type, NEW old, RowsTyped(type, old), NEW new, RowsTyped(type, new),
         NEW mode \in Modes, NEW t \in Insert(old, new, mode)
  PROVE  RowsTyped(type, t)
<1>1. t \in {Overlay(old, new), Overlay(new, old)}
  BY DEF Insert, Modes
<1> QED BY <1>1, OverlayRows

LEMMA ImagesAreTyped ==
  ASSUME NEW sel, SelectionTyped(sel)
  PROVE  ImagesTyped(Images(sel))
<1> SUFFICES ASSUME NEW id \in {sel[c].hash : c \in DOMAIN sel} \ {Null}
             PROVE  sel[CHOOSE c \in DOMAIN sel : sel[c].hash = id].data \in Data \cup {Null}
  BY DEF Images, ImagesTyped
<1>1. (CHOOSE c \in DOMAIN sel : sel[c].hash = id) \in DOMAIN sel
  OBVIOUS
<1> QED BY <1>1 DEF SelectionTyped

LEMMA DifferenceTyped ==
  ASSUME NEW src, IsFile(src), NEW dif, IsFile(dif), NEW binary
  PROVE  SelectionTyped(Difference(src, dif, binary))
<1> DEFINE new == HashedTiles(dif)
           row(c) == IF c \in DOMAIN new THEN new[c] ELSE [data |-> Null, hash |-> Null]
           D == Difference(src, dif, binary)
<1>1. ASSUME NEW c \in DOMAIN D
      PROVE  /\ c \in DOMAIN Tiles(src) \cup DOMAIN new
             /\ D[c] = IF row(c).hash = Null THEN [row(c) EXCEPT !.hash = Md5Empty] ELSE row(c)
  BY DEF Difference
<1> HIDE DEF D
<1>2. ASSUME NEW c \in DOMAIN D PROVE c \in Coords
  BY <1>1, TilesTyped, HashedTyped DEF SelectionTyped
<1> HIDE DEF new
<1>3. ASSUME NEW c
      PROVE  DOMAIN row(c) = {"data", "hash"} /\ row(c).data \in Data \cup {Null}
  <2>1. CASE c \in DOMAIN new
    BY <2>1, HashedTyped DEF SelectionTyped, new
  <2>2. CASE c \notin DOMAIN new
    BY <2>2
  <2> QED BY <2>1, <2>2
<1> HIDE DEF row
<1>4. ASSUME NEW c \in DOMAIN D
      PROVE  DOMAIN D[c] = {"data", "hash"} /\ D[c].data \in Data \cup {Null}
  BY <1>1, <1>3
<1>5. SelectionTyped(D)
  BY <1>2, <1>4 DEF SelectionTyped
<1> QED BY <1>5 DEF D

LEMMA PatchesTyped ==
  ASSUME NEW src, NEW dif, IsFile(dif)
  PROVE  \A c \in DOMAIN Patches(src, dif) :
           c \in Coords /\ Patches(src, dif)[c].to \in Data
<1>1. CASE HasBinary(dif)
  <2>1. Value(dif.binary) \in dif.binary
    BY <1>1 DEF HasBinary, Value
  <2>2. BinaryTyped(dif.binary)
    BY FileParts
  <2> DEFINE P == Value(dif.binary)
  <2>3. \A c \in DOMAIN P : c \in Coords /\ P[c].to \in Data
    BY <2>1, <2>2 DEF BinaryTyped
  <2> HIDE DEF P
  <2>4. Patches(src, dif) = Only(P, DOMAIN Tiles(src))
    BY <1>1 DEF Patches, P
  <2> QED BY <2>3, <2>4 DEF Only
<1>2. CASE ~HasBinary(dif)
  <2>1. DOMAIN Patches(src, dif) = {}
    BY <1>2 DEF Patches, Only, Empty
  <2> QED BY <2>1
<1> QED BY <1>1, <1>2

LEMMA PatchedTyped ==
  ASSUME NEW src, IsFile(src), NEW dif, IsFile(dif)
  PROVE  SelectionTyped(Patched(src, dif))
<1>1. SelectionTyped(Overlay(HashedTiles(src), HashedTiles(dif)))
  BY HashedTyped, OverlayTyped
<1> QED BY <1>1, OnlyTyped DEF Patched

-----------------------------------------------------------------------------
(* What is in the files, and the command that runs.                        *)

\* A file that does not exist has no rows.
FileTyped(f) == IsFile(f) /\ (f.type = "none" => DOMAIN f.rows = {})

InitiallyTyped == \A f \in InitialFiles : \A n \in Names : FileTyped(f[n])

TypeInv ==
  /\ \A n \in Names : FileTyped(file[n])
  /\ job.todo # <<>> => job.mode \in Modes /\ Dst.type \in Types
  /\ job.command \in {"none", "copy", "diff", "patch", "apply"}
  /\ job.command = "none" <=> job.todo = <<>>
  /\ DOMAIN standing = Names
  /\ \A n \in Names : standing[n].state \in Standings
  /\ commands \in 0..MaxCommands

LEMMA LeftStates ==
  \A to : /\ Left("sound", to).state \in Standings
          /\ Left("half patched", to).state \in Standings
          /\ Left("unknown", to).state \in Standings
  BY DEF Left, Standings

LEMMA NoJobIs ==
  NoJob.command = "none" /\ NoJob.todo = <<>>
  BY DEF NoJob

LEMMA TypeInit ==
  ASSUME InitiallyTyped, Init
  PROVE  TypeInv
<1>1. \A n \in Names : FileTyped(file[n])
  BY DEF Init, InitiallyTyped
<1>2. DOMAIN standing = Names /\ \A n \in Names : standing[n].state \in Standings
  BY LeftStates DEF Init
<1>3. commands \in 0..MaxCommands
  BY BoundsAssumption DEF Init
<1> QED BY <1>1, <1>2, <1>3, NoJobIs DEF Init, TypeInv

\* Starting a command on a file of this type.
LEMMA StartKeepsTypes ==
  ASSUME TitleInv, TypeInv,
         NEW command \in {"copy", "diff", "patch", "apply"},
         NEW src, NEW dif, NEW dst \in Names, NEW mode \in Modes, NEW binary,
         NEW type \in Types, IsEmpty(file[dst]) \/ type = file[dst].type,
         NEW todo, todo # <<>>,
         Start(command, src, dif, dst, mode, binary, type, todo)
  PROVE  TypeInv'
<1>1. job' = [command |-> command, src |-> src, dif |-> dif, dst |-> dst,
              mode |-> mode, binary |-> binary, todo |-> todo]
  BY DEF Start
<1>2. file' = [file EXCEPT ![dst] = [file[dst] EXCEPT !.type = type]]
  BY DEF Start
<1> DEFINE f == file[dst]
           g == [f EXCEPT !.type = type]
<1>3. IsFile(f) /\ (f.type = "none" => DOMAIN f.rows = {})
  BY DEF TypeInv, FileTyped
<1>4. DOMAIN f = DOMAIN NoFile
  BY <1>3 DEF IsFile
<1>5. /\ DOMAIN g = DOMAIN NoFile /\ g.rows = f.rows /\ g.type = type /\ g.images = f.images
      /\ g.binary = f.binary /\ g.title = f.title /\ g.agg = f.agg
      /\ g.before = f.before /\ g.after = f.after
  BY <1>4 DEF NoFile
<1>6. IsEmpty(f) => f.type = "none"
  BY DEF IsEmpty
<1>7. file' = [file EXCEPT ![dst] = g]
  BY <1>2
<1>8. IsEmpty(f) \/ type = f.type
  OBVIOUS
<1> HIDE DEF f, g
<1>9. RowsTyped(type, f.rows)
  BY <1>3, <1>6, <1>8, FileParts DEF RowsTyped
<1>10. IsFile(g)
  BY <1>3, <1>5, <1>9, FileParts
<1>11. FileTyped(g) /\ g.type \in Types
  BY <1>5, <1>10 DEF FileTyped, Types, Flat, Normalized
<1>12. DOMAIN file' = Names /\ \A n \in Names : FileTyped(file'[n])
  BY <1>7, <1>11 DEF TitleInv, TypeInv
<1>13. Dst'.type \in Types
  BY <1>1, <1>7, <1>11 DEF TitleInv, Dst
<1>14. DOMAIN standing' = Names /\ \A n \in Names : standing'[n].state \in Standings
  BY LeftStates DEF Start, TypeInv
<1>15. commands' \in 0..MaxCommands
  <2>1. commands < MaxCommands /\ commands' = commands + 1
    BY DEF Start
  <2>2. commands \in 0..MaxCommands
    BY DEF TypeInv
  <2> QED BY <2>1, <2>2, BoundsAssumption
<1> QED BY <1>1, <1>12, <1>13, <1>14, <1>15 DEF TypeInv

\* A statement that leaves a file of its type.
LEMMA BecomesKeepsTypes ==
  ASSUME TitleInv, TypeInv, job.todo # <<>>, NEW files, Becomes(files),
         \A f \in files : IsFile(f) /\ f.type = Dst.type
  PROVE  TypeInv'
<1>1. job.dst \in Names /\ Dst.type \in Types /\ job.mode \in Modes
  BY DEF TitleInv, TypeInv
<1>2. CASE files = {}
  BY <1>2, NoJobIs DEF Becomes, TypeInv
<1>3. CASE files # {}
  <2>1. PICK f \in files : file' = [file EXCEPT ![job.dst] = f]
    BY <1>3 DEF Becomes
  <2>2. FileTyped(f) /\ f.type \in Types
    BY <1>1, <2>1 DEF FileTyped, Types, Flat, Normalized
  <2>3. \A n \in Names : FileTyped(file'[n])
    BY <2>1, <2>2 DEF TitleInv, TypeInv
  <2>4. DOMAIN standing' = Names /\ \A n \in Names : standing'[n].state \in Standings
    BY <1>3, LeftStates DEF Becomes, TypeInv
  <2>5. commands' = commands
    BY DEF Becomes
  <2>6. CASE job' = NoJob
    BY <2>3, <2>4, <2>5, <2>6, NoJobIs DEF TypeInv
  <2>7. CASE job' # NoJob
    <3>1. job' = [job EXCEPT !.todo = Tail(job.todo)] /\ Tail(job.todo) # <<>>
      BY <1>3, <2>7 DEF Becomes
    <3>2. /\ job'.todo # <<>> /\ job'.command = job.command /\ job'.mode = job.mode
          /\ job'.dst = job.dst
      BY <3>1 DEF TitleInv, NoJob
    <3>3. Dst' = f
      BY <1>1, <2>1, <3>2 DEF TitleInv, Dst
    <3> QED BY <1>1, <2>2, <2>3, <2>4, <2>5, <3>2, <3>3 DEF TypeInv
  <2> QED BY <2>6, <2>7
<1> QED BY <1>2, <1>3

LEMMA StartKeepsTyped ==
  ASSUME TitleInv, TypeInv,
         \/ \E src, dst \in Names, what \in CopyTypes, mode \in Modes, type \in Types :
              StartCopy(src, dst, what, mode, type)
         \/ \E src, dif, dst \in Names, binary \in BOOLEAN, type \in Types :
              StartDiff(src, dif, dst, binary, type)
         \/ \E src, dif, dst \in Names, type \in Types : StartPatch(src, dif, dst, type)
         \/ \E dif, dst \in Names : StartApply(dif, dst)
  PROVE  TypeInv'
<1>1. ASSUME NEW S, NEW s \in Seq(S), NEW t \in Seq(S), s # <<>> \/ t # <<>>
      PROVE  s \o t # <<>>
  BY <1>1
<1>2. "override" \in Modes
  BY DEF Modes
<1> DEFINE S == Statements
<1>s. /\ "images" \in S /\ "tiles" \in S /\ "metadata" \in S /\ "binary" \in S
      /\ "before" \in S /\ "after" \in S /\ "agg" \in S /\ "check" \in S
      /\ "upsert" \in S /\ "upsert_images" \in S /\ "delete" \in S
      /\ "collect" \in S /\ "replace" \in S /\ "forget" \in S
  BY DEF Statements
<1> HIDE DEF S
<1>3. ASSUME NEW src \in Names, NEW dst \in Names, NEW what \in CopyTypes,
             NEW mode \in Modes, NEW type \in Types, StartCopy(src, dst, what, mode, type)
      PROVE  TypeInv'
  <2> DEFINE tiles == IF what = "metadata" THEN <<>> ELSE ImagesFirst(type, <<"tiles">>)
             metadata == IF what = "tiles" THEN <<>> ELSE <<"metadata">>
             agg == IF what = "metadata" THEN <<>> ELSE <<"agg">>
             todo == tiles \o metadata \o agg
  <2>1. Start("copy", src, "", dst, mode, FALSE, type, todo)
    BY <1>3 DEF StartCopy
  <2>2. IsEmpty(file[dst]) \/ type = file[dst].type
    BY <1>3 DEF StartCopy
  <2>3. tiles \in Seq(S) /\ metadata \in Seq(S) /\ agg \in Seq(S)
    <3>1. <<"tiles">> \in Seq(S) /\ <<"tiles", "metadata">> \in Seq(S) /\ <<"binary">> \in Seq(S)
      BY <1>s
    <3>2. ImagesFirst(type, <<"tiles">>) \in Seq(S)
      BY <1>s, <3>1, ImagesFirstIn
    <3>3. ImagesFirst(type, <<"tiles", "metadata">>) \in Seq(S)
      BY <1>s, <3>1, ImagesFirstIn
    <3> QED BY <1>s, <3>1, <3>2, <3>3
  <2>4. metadata # <<>> \/ agg # <<>>
    BY <1>s
  <2> HIDE DEF tiles, metadata, agg
  <2>5. todo # <<>>
    <3>1. CASE metadata # <<>>
      BY <1>1, <2>3, <3>1
    <3>2. CASE agg # <<>>
      BY <1>1, <2>3, <3>2
    <3> QED BY <2>4, <3>1, <3>2
  <2> HIDE DEF todo
  <2> QED BY <2>1, <2>2, <2>5, StartKeepsTypes
<1>4. ASSUME NEW src \in Names, NEW dif \in Names, NEW dst \in Names,
             NEW binary \in BOOLEAN, NEW type \in Types, StartDiff(src, dif, dst, binary, type)
      PROVE  TypeInv'
  <2> DEFINE begin == ImagesFirst(type, <<"tiles", "metadata">>)
                        \o (IF binary THEN <<"binary">> ELSE <<>>)
             todo == begin \o <<"before", "after", "agg">>
  <2>1. Start("diff", src, dif, dst, "override", binary, type, todo)
    BY <1>4 DEF StartDiff
  <2>2. IsEmpty(file[dst])
    BY <1>4 DEF StartDiff
  <2>3. begin \in Seq(S)
    <3>1. <<"tiles">> \in Seq(S) /\ <<"tiles", "metadata">> \in Seq(S) /\ <<"binary">> \in Seq(S)
      BY <1>s
    <3>2. ImagesFirst(type, <<"tiles">>) \in Seq(S)
      BY <1>s, <3>1, ImagesFirstIn
    <3>3. ImagesFirst(type, <<"tiles", "metadata">>) \in Seq(S)
      BY <1>s, <3>1, ImagesFirstIn
    <3> QED BY <1>s, <3>1, <3>2, <3>3
  <2> HIDE DEF begin
  <2>4. <<"before", "after", "agg">> \in Seq(S) /\ <<"before", "after", "agg">> # <<>>
    BY <1>s
  <2>5. todo # <<>>
    BY <1>1, <2>3, <2>4
  <2> HIDE DEF todo
  <2> QED BY <1>2, <2>1, <2>2, <2>5, StartKeepsTypes
<1>5. ASSUME NEW src \in Names, NEW dif \in Names, NEW dst \in Names, NEW type \in Types,
             StartPatch(src, dif, dst, type)
      PROVE  TypeInv'
  <2> DEFINE begin == ImagesFirst(type, <<"tiles", "metadata">>)
                        \o (IF HasBinary(file[dif]) THEN <<"binary">> ELSE <<>>)
             todo == begin \o <<"agg", "check">>
  <2>1. Start("patch", src, dif, dst, "override", FALSE, type, todo)
    BY <1>5 DEF StartPatch
  <2>2. IsEmpty(file[dst])
    BY <1>5 DEF StartPatch
  <2>3. begin \in Seq(S)
    <3>1. <<"tiles">> \in Seq(S) /\ <<"tiles", "metadata">> \in Seq(S) /\ <<"binary">> \in Seq(S)
      BY <1>s
    <3>2. ImagesFirst(type, <<"tiles">>) \in Seq(S)
      BY <1>s, <3>1, ImagesFirstIn
    <3>3. ImagesFirst(type, <<"tiles", "metadata">>) \in Seq(S)
      BY <1>s, <3>1, ImagesFirstIn
    <3> QED BY <1>s, <3>1, <3>2, <3>3
  <2> HIDE DEF begin
  <2>4. <<"agg", "check">> \in Seq(S) /\ <<"agg", "check">> # <<>>
    BY <1>s
  <2>5. todo # <<>>
    BY <1>1, <2>3, <2>4
  <2> HIDE DEF todo
  <2> QED BY <1>2, <2>1, <2>2, <2>5, StartKeepsTypes
<1>6. ASSUME NEW dif \in Names, NEW dst \in Names, StartApply(dif, dst)
      PROVE  TypeInv'
  <2> DEFINE begin == <<"upsert">>
                        \o (IF file[dst].type \in Normalized
                            THEN <<"upsert_images", "delete", "collect">> ELSE <<"delete">>)
             todo == begin \o <<"replace", "forget">>
  <2>1. Start("apply", "", dif, dst, "override", FALSE, file[dst].type, todo)
    BY <1>6 DEF StartApply
  <2>2. file[dst].type \in Types
    BY <1>6 DEF StartApply, IsEmpty, TypeInv, FileTyped, IsFile
  <2>3. begin \in Seq(S)
    BY <1>s
  <2> HIDE DEF begin
  <2>4. <<"replace", "forget">> \in Seq(S) /\ <<"replace", "forget">> # <<>>
    BY <1>s
  <2>5. todo # <<>>
    BY <1>1, <2>3, <2>4
  <2> HIDE DEF todo
  <2> QED BY <1>2, <2>1, <2>2, <2>5, StartKeepsTypes
<1> QED BY <1>3, <1>4, <1>5, <1>6

\* What a command that copies, compares or patches takes from its files.
LEMMA SelectedTyped ==
  ASSUME TitleInv, TypeInv, job.todo # <<>>, job.command \in {"copy", "diff", "patch"}
  PROVE  SelectionTyped(Selected)
<1>1. job.src \in Names /\ (job.command # "copy" => job.dif \in Names)
  BY DEF TitleInv
<1>2. IsFile(Src) /\ (job.command # "copy" => IsFile(Dif))
  BY <1>1 DEF TypeInv, FileTyped, Src, Dif
<1>3. CASE job.command = "copy"
  BY <1>2, <1>3, HashedTyped DEF Selected
<1>4. CASE job.command = "diff"
  <2>1. Selected = Difference(Src, Dif, job.binary)
    BY <1>4 DEF Selected
  <2> QED BY <1>2, <1>4, <2>1, DifferenceTyped
<1>5. CASE job.command = "patch"
  <2>1. Selected = Patched(Src, Dif)
    BY <1>5 DEF Selected
  <2> QED BY <1>2, <1>5, <2>1, PatchedTyped
<1> QED BY <1>3, <1>4, <1>5

\* What a binary statement writes.
LEMMA BinaryKeepsFile ==
  ASSUME TitleInv, TypeInv, job.todo # <<>>, job.command \in {"diff", "patch"},
         NEW coords, coords \subseteq ToMake
  PROVE  IsFile(WithBinary(coords)) /\ WithBinary(coords).type = Dst.type
<1>1. /\ job.src \in Names /\ job.dif \in Names /\ job.dst \in Names
      /\ Dst.type \in Types
  BY DEF TitleInv, TypeInv
<1>2. IsFile(Src) /\ IsFile(Dif) /\ IsFile(Dst)
  BY <1>1 DEF TypeInv, FileTyped, Src, Dif, Dst
<1>3. DOMAIN Dst = DOMAIN NoFile
  BY <1>2 DEF IsFile
<1>4. CASE job.command = "diff"
  <2>1. WithBinary(coords) = [Dst EXCEPT !.binary = {Only(BinaryRows, coords)}]
    BY <1>4 DEF WithBinary
  <2>2. \A c \in DOMAIN BinaryRows : c \in Coords /\ BinaryRows[c].to \in Data
    BY <1>2, TilesTyped DEF BinaryRows
  <2>3. \A c \in DOMAIN Only(BinaryRows, coords) :
          c \in DOMAIN BinaryRows /\ Only(BinaryRows, coords)[c] = BinaryRows[c]
    BY DEF Only
  <2>4. BinaryTyped({Only(BinaryRows, coords)})
    BY <2>2, <2>3 DEF BinaryTyped
  <2>5. IsFile([Dst EXCEPT !.binary = {Only(BinaryRows, coords)}])
    BY <1>2, <2>4, Options1, OptionsKeepFile
  <2> QED BY <1>3, <2>1, <2>5 DEF NoFile
<1>5. CASE job.command = "patch"
  <2> DEFINE P == Patches(Src, Dif)
             rows == [c \in coords |->
                        Stored(Dst.type, [data |-> P[c].to, hash |-> Md5(P[c].to)])]
  <2>1. WithBinary(coords) = [Dst EXCEPT !.rows = Overlay(Dst.rows, rows)]
    BY <1>5 DEF WithBinary
  <2>2. coords \subseteq DOMAIN P
    BY <1>5 DEF ToMake
  <2>3. \A c \in coords : c \in Coords /\ P[c].to \in Data
    BY <1>2, <2>2, PatchesTyped
  <2> HIDE DEF P
  <2>4. ASSUME NEW c \in coords
        PROVE  RowTyped(Dst.type, Stored(Dst.type, [data |-> P[c].to, hash |-> Md5(P[c].to)]))
    BY <1>1, <2>3, StoredTyped
  <2>5. RowsTyped(Dst.type, rows)
    BY <2>3, <2>4 DEF RowsTyped
  <2> HIDE DEF rows
  <2>6. RowsTyped(Dst.type, Overlay(Dst.rows, rows))
    BY <1>2, <2>5, FileParts, OverlayRows
  <2>7. IsFile([Dst EXCEPT !.rows = Overlay(Dst.rows, rows)])
    BY <1>2, <2>6, RowsKeepFile
  <2> QED BY <1>3, <2>1, <2>7 DEF NoFile
<1> QED BY <1>4, <1>5

LEMMA TypeKept ==
  ASSUME NEW f, IsFile(f), NEW v
  PROVE  /\ [f EXCEPT !.agg = v].type = f.type /\ [f EXCEPT !.before = v].type = f.type
         /\ [f EXCEPT !.after = v].type = f.type
  BY DEF IsFile, NoFile

LEMMA TypeStep ==
  ASSUME TitleInv, TypeInv, [Next]_vars
  PROVE  TypeInv'
<1>0. ASSUME job.todo # <<>>
      PROVE  /\ IsFile(Dst) /\ Dst.type \in Types /\ DOMAIN Dst = DOMAIN NoFile
             /\ Head(job.todo) \in Lists(job.command) /\ job.mode \in Modes
             /\ job.dst \in Names /\ job.command \in {"copy", "diff", "patch", "apply"}
             /\ job.command # "apply" => job.src \in Names /\ IsFile(Src)
             /\ job.command # "copy" => job.dif \in Names /\ IsFile(Dif)
  <2>1. /\ job.dst \in Names /\ job.mode \in Modes /\ Dst.type \in Types
        /\ job.command \in {"copy", "diff", "patch", "apply"}
        /\ job.command # "apply" => job.src \in Names
        /\ job.command # "copy" => job.dif \in Names
    BY <1>0 DEF TitleInv, TypeInv
  <2>2. IsFile(Dst)
    BY <2>1 DEF TypeInv, FileTyped, Dst
  <2>3. DOMAIN Dst = DOMAIN NoFile
    BY <2>2 DEF IsFile
  <2>4. Head(job.todo) \in Lists(job.command)
    <3> DEFINE S == Lists(job.command)
    <3>1. job.todo \in Seq(S) /\ job.todo # <<>>
      BY <1>0 DEF TitleInv
    <3> HIDE DEF S
    <3>2. Head(job.todo) \in S
      BY <3>1
    <3> QED BY <3>2 DEF S
  <2> QED BY <2>1, <2>2, <2>3, <2>4 DEF TypeInv, FileTyped, Src, Dif
\* What a statement may set of the file it works on.
<1>r. ASSUME job.todo # <<>>, NEW rows, RowsTyped(Dst.type, rows)
      PROVE  IsFile([Dst EXCEPT !.rows = rows]) /\ [Dst EXCEPT !.rows = rows].type = Dst.type
  BY <1>0, <1>r, RowsKeepFile DEF NoFile
<1>i. ASSUME job.todo # <<>>, NEW images, ImagesTyped(images)
      PROVE  /\ IsFile([Dst EXCEPT !.images = images])
             /\ [Dst EXCEPT !.images = images].type = Dst.type
  BY <1>0, <1>i, ImagesKeepFile DEF NoFile
<1>o. ASSUME job.todo # <<>>, NEW option, AtMostOne(option)
      PROVE  /\ IsFile([Dst EXCEPT !.agg = option]) /\ [Dst EXCEPT !.agg = option].type = Dst.type
             /\ IsFile([Dst EXCEPT !.before = option]) /\ [Dst EXCEPT !.before = option].type = Dst.type
             /\ IsFile([Dst EXCEPT !.after = option]) /\ [Dst EXCEPT !.after = option].type = Dst.type
             /\ option \subseteq Titles \cup {Null} =>
                  /\ IsFile([Dst EXCEPT !.title = option])
                  /\ [Dst EXCEPT !.title = option].type = Dst.type
  BY <1>0, <1>o, OptionsKeepFile DEF NoFile
<1>1. ASSUME NEW n \in Names, Revalidate(n) PROVE TypeInv'
  <2> DEFINE g == [file[n] EXCEPT !.agg = {AggHash(file[n])}]
  <2>1. file' = [file EXCEPT ![n] = g] /\ UNCHANGED <<job, standing, commands>>
    BY <1>1 DEF Revalidate, UpdateAggHash
  <2>2. IsFile(file[n]) /\ (file[n].type = "none" => DOMAIN file[n].rows = {})
    BY DEF TypeInv, FileTyped
  <2>3. IsFile(g)
    BY <2>2, Options1, OptionsKeepFile
  <2>4. g.type = file[n].type /\ g.rows = file[n].rows
    BY <2>2 DEF IsFile, NoFile
  <2> HIDE DEF g
  <2>5. FileTyped(g)
    BY <2>2, <2>3, <2>4 DEF FileTyped
  <2>6. \A m \in Names : FileTyped(file'[m]) /\ file'[m].type = file[m].type
    BY <2>1, <2>4, <2>5 DEF TitleInv, TypeInv
  <2>7. job.todo # <<>> => Dst'.type = Dst.type
    BY <1>0, <2>1, <2>6 DEF Dst
  <2> QED BY <2>1, <2>6, <2>7 DEF TypeInv
<1>2. CASE CopyImages
  <2>1. job.todo # <<>> /\ Head(job.todo) = "images"
    BY <1>2 DEF CopyImages, Doing
  <2>2. job.command \in {"copy", "diff", "patch"}
    BY <1>0, <2>1 DEF Lists
  <2>3. ImagesTyped(Overlay(Images(Selected), Dst.images))
    BY <1>0, <2>1, <2>2, SelectedTyped, ImagesAreTyped, OverlayImages, FileParts
  <2> DEFINE f == [Dst EXCEPT !.images = Overlay(Images(Selected), Dst.images)]
  <2>4. IsFile(f) /\ f.type = Dst.type
    BY <1>i, <2>1, <2>3
  <2>5. Becomes({}) \/ Becomes({f})
    BY <1>2 DEF CopyImages
  <2> HIDE DEF f
  <2> QED BY <2>1, <2>4, <2>5, BecomesKeepsTypes
<1>3. CASE CopyTiles
  <2>1. job.todo # <<>> /\ Head(job.todo) = "tiles"
    BY <1>3 DEF CopyTiles, Doing
  <2>2. job.command \in {"copy", "diff", "patch"}
    BY <1>0, <2>1 DEF Lists
  <2>3. SelectionTyped(Insertable(Selected))
    BY <2>1, <2>2, SelectedTyped, OnlyTyped DEF Insertable
  <2> DEFINE new == Insertable(Selected)
             stored == [c \in DOMAIN new |-> Stored(Dst.type, new[c])]
             files == {[Dst EXCEPT !.rows = t] : t \in Insert(Dst.rows, stored, job.mode)}
  <2>4. Becomes({}) \/ Becomes(files)
    BY <1>3 DEF CopyTiles
  <2> HIDE DEF new
  <2>5. RowsTyped(Dst.type, stored)
    BY <1>0, <2>1, <2>3, StoredSelection DEF new
  <2> HIDE DEF stored
  <2>6. ASSUME NEW t \in Insert(Dst.rows, stored, job.mode) PROVE RowsTyped(Dst.type, t)
    BY <1>0, <2>1, <2>5, FileParts, InsertTyped
  <2>7. \A f \in files : IsFile(f) /\ f.type = Dst.type
    BY <1>r, <2>1, <2>6
  <2> HIDE DEF files
  <2> QED BY <2>1, <2>4, <2>7, BecomesKeepsTypes
<1>4. CASE CopyMetadata
  <2>1. job.todo # <<>> /\ Head(job.todo) = "metadata"
    BY <1>4 DEF CopyMetadata, Doing
  <2>2. /\ job.command \in {"copy", "diff", "patch"} /\ IsFile(Src)
        /\ job.command # "copy" => IsFile(Dif)
    BY <1>0, <2>1 DEF Lists
  <2>3. /\ Dst.title \in Options /\ Src.title \in Options
        /\ job.command # "copy" => Dif.title \in Options
    BY <1>0, <2>1, <2>2 DEF TitleInv, IsTitled, Src, Dif, Dst
  <2>4. \A t \in Options : AtMostOne(t) /\ t \subseteq Titles \cup {Null}
    BY Options1 DEF Options
  <2>5. CASE job.command = "diff"
    <3> DEFINE t == DiffOption(Src.title, Dif.title)
    <3>1. Becomes({[Dst EXCEPT !.title = t]})
      BY <1>4, <2>5 DEF CopyMetadata
    <3>2. t \in Options
      BY <2>3, <2>5, OptionsStay
    <3> HIDE DEF t
    <3> QED BY <1>o, <2>1, <2>4, <3>1, <3>2, BecomesKeepsTypes
  <2>6. CASE job.command = "patch"
    <3> DEFINE t == PatchOption(Src.title, Dif.title)
    <3>1. Becomes({[Dst EXCEPT !.title = t]})
      BY <1>4, <2>6 DEF CopyMetadata
    <3>2. t \in Options
      BY <2>3, <2>6, OptionsStay
    <3> HIDE DEF t
    <3> QED BY <1>o, <2>1, <2>4, <3>1, <3>2, BecomesKeepsTypes
  <2>7. CASE job.command = "copy"
    <3> DEFINE title == MergedOption(Dst.title, Src.title)
               agg == MergedOption(Dst.agg, Src.agg)
               before == MergedOption(Dst.before, Src.before)
               after == MergedOption(Dst.after, Src.after)
               f1 == [Dst EXCEPT !.title = title]
               f2 == [f1 EXCEPT !.agg = agg]
               f3 == [f2 EXCEPT !.before = before]
               f4 == [f3 EXCEPT !.after = after]
    <3>1. Becomes({}) \/ Becomes({[Dst EXCEPT !.title = title, !.agg = agg,
                                              !.before = before, !.after = after]})
      BY <1>4, <2>7 DEF CopyMetadata
    <3>2. title \in Options
      BY <2>3, OptionsStay
    <3>3. AtMostOne(agg) /\ AtMostOne(before) /\ AtMostOne(after)
      BY <1>0, <2>1, <2>2, FileParts DEF MergedOption
    <3> HIDE DEF title, agg, before, after
    <3>4. [Dst EXCEPT !.title = title, !.agg = agg, !.before = before, !.after = after] = f4
      OBVIOUS
    <3>5. IsFile(f1) /\ f1.type = Dst.type
      BY <1>o, <2>1, <2>4, <3>2
    <3> HIDE DEF f1
    <3>6. IsFile(f2) /\ f2.type = Dst.type
      <4>1. IsFile(f2)
        BY <3>3, <3>5, OptionsKeepFile
      <4>2. f2.type = f1.type
        BY <3>5, TypeKept
      <4> QED BY <3>5, <4>1, <4>2
    <3> HIDE DEF f2
    <3>7. IsFile(f3) /\ f3.type = Dst.type
      <4>1. IsFile(f3)
        BY <3>3, <3>6, OptionsKeepFile
      <4>2. f3.type = f2.type
        BY <3>6, TypeKept
      <4> QED BY <3>6, <4>1, <4>2
    <3> HIDE DEF f3
    <3>8. IsFile(f4) /\ f4.type = Dst.type
      <4>1. IsFile(f4)
        BY <3>3, <3>7, OptionsKeepFile
      <4>2. f4.type = f3.type
        BY <3>7, TypeKept
      <4> QED BY <3>7, <4>1, <4>2
    <3>9. Becomes({}) \/ Becomes({f4})
      BY <3>1, <3>4
    <3> HIDE DEF f4
    <3> QED BY <2>1, <3>8, <3>9, BecomesKeepsTypes
  <2> QED BY <2>2, <2>5, <2>6, <2>7
<1>5. CASE CopyBinary \/ StopBinary
  <2>1. job.todo # <<>> /\ Head(job.todo) = "binary"
    BY <1>5 DEF CopyBinary, StopBinary, Doing
  <2>2. job.command \in {"diff", "patch"}
    BY <1>0, <2>1 DEF Lists
  <2>3. \A coords : coords \subseteq ToMake =>
          IsFile(WithBinary(coords)) /\ WithBinary(coords).type = Dst.type
    BY <2>1, <2>2, BinaryKeepsFile
  <2>4. CASE CopyBinary
    <3>1. Becomes({WithBinary(ToMake)})
      BY <2>4 DEF CopyBinary
    <3> QED BY <2>1, <2>3, <3>1, BecomesKeepsTypes
  <2>5. CASE StopBinary
    <3>1. PICK coords \in SUBSET Makeable : file' = [file EXCEPT ![job.dst] = WithBinary(coords)]
      BY <2>5 DEF StopBinary
    <3>2. Makeable \subseteq ToMake
      BY DEF Makeable, ToMake, Fitting
    <3>3. IsFile(WithBinary(coords)) /\ WithBinary(coords).type \in Types
      BY <1>0, <2>1, <2>3, <3>2
    <3>4. FileTyped(WithBinary(coords))
      BY <3>3 DEF FileTyped, Types, Flat, Normalized
    <3>5. \A n \in Names : FileTyped(file'[n])
      BY <1>0, <2>1, <3>1, <3>4 DEF TitleInv, TypeInv
    <3>6. job' = NoJob /\ UNCHANGED <<standing, commands>>
      BY <2>5 DEF StopBinary
    <3> QED BY <3>5, <3>6, NoJobIs DEF TypeInv
  <2> QED BY <1>5, <2>4, <2>5
<1>6. CASE SetBefore
  <2>1. job.todo # <<>> /\ Head(job.todo) = "before" /\ Becomes({[Dst EXCEPT !.before = Src.agg]})
    BY <1>6 DEF SetBefore, Doing
  <2>2. IsFile(Src)
    BY <1>0, <2>1 DEF Lists
  <2>3. AtMostOne(Src.agg)
    BY <2>2, FileParts
  <2> DEFINE f == [Dst EXCEPT !.before = Src.agg]
  <2>4. IsFile(f) /\ f.type = Dst.type
    BY <1>o, <2>1, <2>3
  <2>5. Becomes({f})
    BY <2>1
  <2> HIDE DEF f
  <2> QED BY <2>1, <2>4, <2>5, BecomesKeepsTypes
<1>7. CASE SetAfter
  <2>1. job.todo # <<>> /\ Head(job.todo) = "after" /\ Becomes({[Dst EXCEPT !.after = Dif.agg]})
    BY <1>7 DEF SetAfter, Doing
  <2>2. IsFile(Dif)
    BY <1>0, <2>1 DEF Lists
  <2>3. AtMostOne(Dif.agg)
    BY <2>2, FileParts
  <2> DEFINE f == [Dst EXCEPT !.after = Dif.agg]
  <2>4. IsFile(f) /\ f.type = Dst.type
    BY <1>o, <2>1, <2>3
  <2>5. Becomes({f})
    BY <2>1
  <2> HIDE DEF f
  <2> QED BY <2>1, <2>4, <2>5, BecomesKeepsTypes
<1>8. CASE UpdateAgg
  <2>1. job.todo # <<>> /\ Becomes({[Dst EXCEPT !.agg = {AggHash(Dst)}]})
    BY <1>8 DEF UpdateAgg, UpdateAggHash, Doing
  <2> DEFINE f == [Dst EXCEPT !.agg = {AggHash(Dst)}]
  <2>4. IsFile(f) /\ f.type = Dst.type
    BY <1>o, <2>1, Options1
  <2>5. Becomes({f})
    BY <2>1
  <2> HIDE DEF f
  <2> QED BY <2>1, <2>4, <2>5, BecomesKeepsTypes
<1>9. CASE CheckAfter
  <2>1. job.todo # <<>> /\ (Becomes({}) \/ Becomes({Dst}))
    BY <1>9 DEF CheckAfter, Doing
  <2> QED BY <1>0, <2>1, BecomesKeepsTypes
\* What apply-patch takes from the patch.
<1>u. ASSUME job.todo # <<>>, job.command = "apply" PROVE SelectionTyped(Upserted)
  BY <1>0, <1>u, HashedTyped, OnlyTyped DEF Upserted
<1>10. CASE Upsert
  <2> DEFINE stored == [c \in DOMAIN Upserted |-> Stored(Dst.type, Upserted[c])]
  <2>1. /\ job.todo # <<>> /\ Head(job.todo) = "upsert"
        /\ Becomes({[Dst EXCEPT !.rows = Overlay(Dst.rows, stored)]})
    BY <1>10 DEF Upsert, Doing
  <2>2. job.command = "apply"
    BY <1>0, <2>1 DEF Lists
  <2>3. RowsTyped(Dst.type, stored)
    BY <1>0, <1>u, <2>1, <2>2, StoredSelection
  <2> HIDE DEF stored
  <2>4. RowsTyped(Dst.type, Overlay(Dst.rows, stored))
    BY <1>0, <2>1, <2>3, FileParts, OverlayRows
  <2> QED BY <1>r, <2>1, <2>4, BecomesKeepsTypes
<1>11. CASE UpsertImages
  <2>1. /\ job.todo # <<>> /\ Head(job.todo) = "upsert_images"
        /\ Becomes({[Dst EXCEPT !.images = Overlay(Dst.images, Images(Upserted))]})
    BY <1>11 DEF UpsertImages, Doing
  <2>2. job.command = "apply"
    BY <1>0, <2>1 DEF Lists
  <2>3. ImagesTyped(Overlay(Dst.images, Images(Upserted)))
    BY <1>0, <1>u, <2>1, <2>2, ImagesAreTyped, OverlayImages, FileParts
  <2> QED BY <1>i, <2>1, <2>3, BecomesKeepsTypes
<1>12. CASE Delete
  <2> DEFINE kept == DOMAIN Dst.rows \ {c \in DOMAIN Tiles(Dif) : Tiles(Dif)[c] = Null}
  <2>1. job.todo # <<>> /\ Becomes({[Dst EXCEPT !.rows = Only(Dst.rows, kept)]})
    BY <1>12 DEF Delete, Doing
  <2> HIDE DEF kept
  <2>2. RowsTyped(Dst.type, Only(Dst.rows, kept))
    BY <1>0, <2>1, FileParts, OnlyKept
  <2> QED BY <1>r, <2>1, <2>2, BecomesKeepsTypes
<1>13. CASE Collect
  <2> DEFINE kept == {Dst.rows[c].hash : c \in DOMAIN Dst.rows}
  <2>1. job.todo # <<>> /\ Becomes({[Dst EXCEPT !.images = Only(Dst.images, kept)]})
    BY <1>13 DEF Collect, Doing
  <2> HIDE DEF kept
  <2>2. ImagesTyped(Only(Dst.images, kept))
    BY <1>0, <2>1, FileParts, OnlyKept
  <2> QED BY <1>i, <2>1, <2>2, BecomesKeepsTypes
<1>14. CASE Replace \/ Forget
  <2>1. job.todo # <<>> /\ Head(job.todo) \in {"replace", "forget"}
    BY <1>14 DEF Replace, Forget, Doing
  <2>2. IsFile(Dif) /\ job.dif \in Names
    BY <1>0, <2>1 DEF Lists
  <2>3. Dst.title \in Options /\ Dif.title \in Options
    BY <1>0, <2>1, <2>2 DEF TitleInv, IsTitled, Dst, Dif
  <2>4. \A t \in Options : AtMostOne(t) /\ t \subseteq Titles \cup {Null}
    BY Options1 DEF Options
  <2>5. CASE Replace
    <3> DEFINE t == ReplacedOption(Dst.title, Dif.title)
               f == [Dst EXCEPT !.title = t]
               g == [f EXCEPT !.agg = Dif.after]
    <3>1. Becomes({[Dst EXCEPT !.title = t, !.agg = Dif.after]})
      BY <2>5 DEF Replace
    <3>2. t \in Options
      BY <2>3, OptionsStay
    <3> HIDE DEF t
    <3>3. [Dst EXCEPT !.title = t, !.agg = Dif.after] = g
      OBVIOUS
    <3>4. IsFile(f) /\ f.type = Dst.type
      BY <1>o, <2>1, <2>4, <3>2
    <3> HIDE DEF f
    <3>5. AtMostOne(Dif.after)
      BY <2>2, FileParts
    <3>6. IsFile(g) /\ g.type = Dst.type
      <4>1. IsFile(g)
        BY <3>4, <3>5, OptionsKeepFile
      <4>2. g.type = f.type
        BY <3>4, TypeKept
      <4> QED BY <3>4, <4>1, <4>2
    <3>7. Becomes({g})
      BY <3>1, <3>3
    <3> HIDE DEF g
    <3> QED BY <2>1, <3>6, <3>7, BecomesKeepsTypes
  <2>6. CASE Forget
    <3> DEFINE t == RemainingOption(Dst.title, Dif.title)
    <3>1. Becomes({[Dst EXCEPT !.title = t]})
      BY <2>6 DEF Forget
    <3>2. t \in Options
      BY <2>3, OptionsStay
    <3> HIDE DEF t
    <3> QED BY <1>o, <2>1, <2>4, <3>1, <3>2, BecomesKeepsTypes
  <2> QED BY <1>14, <2>5, <2>6
<1>15. CASE Crash
  BY <1>15, NoJobIs DEF Crash, TypeInv
<1>16. CASE UNCHANGED vars
  BY <1>16 DEF vars, TypeInv, Dst
<1> QED
  BY <1>1, <1>2, <1>3, <1>4, <1>5, <1>6, <1>7, <1>8, <1>9, <1>10, <1>11, <1>12, <1>13, <1>14,
     <1>15, <1>16, StartKeepsTyped DEF Next

\* The files stay files: whatever command stops where, rows have the columns of
\* their schema, metadata at most one value, and no more commands run than are
\* counted.
THEOREM TypeCorrect ==
  ASSUME InitiallyTyped
  PROVE  Spec => []TypeOK
<1>1. Init => TitleInv /\ TypeInv
  BY TitleInit, TypeInit
<1>2. TitleInv /\ TypeInv /\ [Next]_vars => (TitleInv /\ TypeInv)'
  BY TitleStep, TypeStep
<1>3. TitleInv /\ TypeInv => TypeOK
  <2> SUFFICES ASSUME TitleInv, TypeInv PROVE TypeOK
    OBVIOUS
  <2>1. \A i \in DOMAIN job.todo : job.todo[i] \in Statements
    <3> DEFINE S == Lists(job.command)
    <3>1. job.todo \in Seq(S)
      BY DEF TitleInv
    <3>2. S \subseteq Statements
      BY DEF TypeInv, Lists, Statements
    <3> HIDE DEF S
    <3> QED BY <3>1, <3>2
  <2> QED BY <2>1 DEF TitleInv, TypeInv, FileTyped, TypeOK
<1> QED BY <1>1, <1>2, <1>3, PTL DEF Spec
-----------------------------------------------------------------------------
(* What files hold.                                                        *)

Schemas == {"flat", "flat-with-hash", "normalized"}

TileSets == UNION {[S -> Data] : S \in SUBSET Coords}

\* A row with its data and its hash, before a table takes what it keeps of it.
HashesOf(data) == IF data = Null THEN {Null, Md5Empty} ELSE {Md5(data)}
Row(data, hash) == [data |-> data, hash |-> hash]
IsHashedRow(row) ==
  /\ row = Row(row.data, row.hash)
  /\ row.data \in Data \cup {Null} /\ row.hash \in HashesOf(row.data)

StoredTile(type, data) == Stored(type, Row(data, Md5(data)))

\* Every row is one that some tile, or none, leaves in a table of this type, and
\* every image is under its hash.
Shaped(f) ==
  /\ DOMAIN f = DOMAIN NoFile
  /\ f.type \in Schemas \cup {"none"}
  /\ f.type = "none" => f = NoFile
  /\ DOMAIN f.rows \subseteq Coords
  /\ \A c \in DOMAIN f.rows :
       \E d \in Data \cup {Null} : \E h \in HashesOf(d) :
         f.rows[c] = Stored(f.type, Row(d, h))
  /\ \A id \in DOMAIN f.images :
       /\ f.images[id] \in Data \cup {Null}
       /\ id # Null /\ id \in HashesOf(f.images[id])
  /\ \A patches \in f.binary : \A c \in DOMAIN patches : c \in Coords /\ patches[c].to \in Data

LinkedAt(f, c) == f.type \in Normalized => f.rows[c].hash \in DOMAIN f.images \cup {Null}
Linked(f) == \A c \in DOMAIN f.rows : LinkedAt(f, c)

Has(f, c, d) == c \in DOMAIN f.rows /\ f.rows[c] = StoredTile(f.type, d)

\* Every row is that of a tile.
Whole(f) ==
  /\ f.before = {} /\ f.after = {}
  /\ Linked(f)
  /\ \A c \in DOMAIN f.rows : \E d \in Data : Has(f, c, d)

\* The tiles view is what turns the tiles B into the tiles A.
Turns(f, B, A) ==
  \A c \in Coords :
    IF TileAt(B, c) = TileAt(A, c) THEN c \notin DOMAIN Tiles(f)
    ELSE c \in DOMAIN Tiles(f) /\ Tiles(f)[c] = TileAt(A, c)

MeansPatch(f) ==
  \E B, A \in TileSets : f.before = {B} /\ f.after = {A} /\ Turns(f, B, A)

SoundFile(f) ==
  /\ f.agg \subseteq {Tiles(f)}
  /\ Linked(f)
  /\ Whole(f) \/ IsPatch(f)

\* Row by row, a table holds the tiles T.
RowIs(f, c, T) == IF c \in DOMAIN T THEN Has(f, c, T[c]) ELSE c \notin DOMAIN f.rows
ShownAt(f, c, T) == RowIs(f, c, T) /\ (c \in DOMAIN f.rows => LinkedAt(f, c))

HalfAt(f, c, B, A) ==
  ShownAt(f, c, B) \/ (RowIs(f, c, A) /\ TileAt(A, c) # TileAt(B, c))

OnTheWay(f, B, A) == f.agg = {B} /\ \A c \in Coords : HalfAt(f, c, B, A)
Arrived(f, A) == f.agg = {A} /\ \A c \in Coords : ShownAt(f, c, A)

HalfPatched(f, to) ==
  /\ f.type \in Schemas /\ f.before = {} /\ f.after = {}
  /\ \E A \in TileSets :
       /\ to = {A}
       /\ Arrived(f, A) \/ \E B \in TileSets : OnTheWay(f, B, A)

-----------------------------------------------------------------------------
(* Rows, and what the tiles view makes of them, in every schema.           *)

LEMMA HashFacts ==
  /\ Md5(Null) = Null /\ Md5Empty # Null
  /\ \A d \in Data : d # Null /\ Md5(d) # Null /\ Md5(d) # Md5Empty
  /\ \A d, e \in Data : Md5(d) = Md5(e) => d = e
<1>1. \A d \in Data : d # Null /\ Md5(d) = <<"md5", d>>
  BY NullAssumption DEF Md5
<1> QED BY <1>1, NullAssumption DEF Md5, Md5Empty

LEMMA StoredIs ==
  ASSUME NEW type, NEW d, NEW h
  PROVE  /\ Row(d, h).data = d /\ Row(d, h).hash = h
         /\ type = "flat" => Stored(type, Row(d, h)) = Row(d, Null)
         /\ type = "flat-with-hash" => Stored(type, Row(d, h)) = Row(d, h)
         /\ type = "normalized" => Stored(type, Row(d, h)) = Row(Null, h)
  BY DEF Stored, Normalized, Row

LEMMA ViewOf ==
  ASSUME NEW f, Shaped(f)
  PROVE  /\ \A c \in DOMAIN f.rows :
              c \in DOMAIN Tiles(f)
                <=> (f.type = "normalized" => f.rows[c].hash \in DOMAIN f.images)
         /\ \A c \in DOMAIN Tiles(f) :
              /\ f.type = "normalized" => Tiles(f)[c] = f.images[f.rows[c].hash]
              /\ f.type # "normalized" => Tiles(f)[c] = f.rows[c].data
         /\ DOMAIN Tiles(f) \subseteq DOMAIN f.rows
         /\ DOMAIN f.rows \subseteq Coords
<1>1. f.type \in Normalized <=> f.type = "normalized"
  BY DEF Shaped, Schemas, Normalized
<1>2. CASE f.type \in Normalized
  BY <1>1, <1>2 DEF Tiles, Shaped
<1>3. CASE f.type \notin Normalized
  BY <1>1, <1>3 DEF Tiles, Shaped
<1> QED BY <1>2, <1>3

\* A row is shown with the data it was stored with, once its image is there.
LEMMA RowShown ==
  ASSUME NEW f, Shaped(f), f.type \in Schemas, NEW c \in DOMAIN f.rows, NEW d, NEW h,
         d \in Data \cup {Null}, h \in HashesOf(d),
         f.rows[c] = Stored(f.type, Row(d, h)),
         f.type \in Normalized => h \in DOMAIN f.images
  PROVE  c \in DOMAIN Tiles(f) /\ Tiles(f)[c] = d
<1>1. CASE f.type \in Flat
  <2>1. f.rows[c].data = d
    BY <1>1, StoredIs DEF Flat
  <2> QED BY <1>1, <2>1, ViewOf DEF Flat
<1>2. CASE f.type = "normalized"
  <2>1. f.rows[c].hash = h /\ h \in DOMAIN f.images
    BY <1>2, StoredIs DEF Normalized
  <2>2. c \in DOMAIN Tiles(f) /\ Tiles(f)[c] = f.images[h]
    BY <1>2, <2>1, ViewOf
  <2>3. f.images[h] \in Data \cup {Null} /\ h # Null /\ h \in HashesOf(f.images[h])
    BY <2>1 DEF Shaped
  <2>4. f.images[h] = d
    BY <2>3, HashFacts DEF HashesOf
  <2> QED BY <2>2, <2>4
<1> QED BY <1>1, <1>2 DEF Schemas, Flat

\* What is shown as a tile is the row of that tile.
LEMMA ShownRow ==
  ASSUME NEW f, Shaped(f), NEW c \in DOMAIN Tiles(f)
  PROVE  /\ Tiles(f)[c] \in Data \cup {Null}
         /\ Tiles(f)[c] \in Data => Has(f, c, Tiles(f)[c])
         /\ IsHashedRow(HashedTiles(f)[c]) /\ HashedTiles(f)[c].data = Tiles(f)[c]
         /\ c \in DOMAIN f.rows /\ c \in Coords /\ f.type \in Schemas
<1>0. c \in DOMAIN f.rows /\ c \in Coords
  BY ViewOf
<1>1. f.type \in Schemas
  BY <1>0 DEF Shaped, NoFile, Empty
<1>2. PICK d \in Data \cup {Null} : \E h \in HashesOf(d) :
        f.rows[c] = Stored(f.type, Row(d, h))
  BY <1>0 DEF Shaped
<1>3. PICK h \in HashesOf(d) : f.rows[c] = Stored(f.type, Row(d, h))
  BY <1>2
<1>4. HashedTiles(f)[c] =
        Row(Tiles(f)[c], IF f.type = "flat" THEN Md5(Tiles(f)[c]) ELSE f.rows[c].hash)
  BY DEF HashedTiles, Row
<1>5. CASE f.type = "flat"
  <2>1. f.rows[c].data = d
    BY <1>3, <1>5, StoredIs
  <2>2. Tiles(f)[c] = d
    BY <1>5, <2>1, <1>0, ViewOf
  <2>3. Stored(f.type, Row(d, h)) = Stored(f.type, Row(d, Md5(d)))
    BY <1>5, StoredIs
  <2>4. Has(f, c, d)
    BY <1>0, <1>3, <2>3 DEF Has, StoredTile
  <2>5. Md5(d) \in HashesOf(d)
    BY HashFacts DEF HashesOf
  <2> QED BY <1>0, <1>1, <1>4, <1>5, <2>2, <2>4, <2>5, StoredIs DEF IsHashedRow
<1>6. CASE f.type = "flat-with-hash"
  <2>1. f.rows[c].data = d /\ f.rows[c].hash = h
    BY <1>3, <1>6, StoredIs
  <2>2. Tiles(f)[c] = d
    BY <1>6, <2>1, <1>0, ViewOf
  <2>3. d \in Data => h = Md5(d)
    BY <1>3, HashFacts DEF HashesOf
  <2>4. d \in Data => Has(f, c, d)
    BY <1>0, <1>3, <2>3 DEF Has, StoredTile
  <2> QED BY <1>0, <1>1, <1>3, <1>4, <1>6, <2>1, <2>2, <2>4, StoredIs DEF IsHashedRow
<1>7. CASE f.type = "normalized"
  <2>1. f.rows[c].hash = h
    BY <1>3, <1>7, StoredIs
  <2>2. h \in DOMAIN f.images /\ Tiles(f)[c] = f.images[h]
    BY <1>7, <2>1, ViewOf
  <2>3. f.images[h] \in Data \cup {Null} /\ h # Null /\ h \in HashesOf(f.images[h])
    BY <2>2 DEF Shaped
  <2>4. f.images[h] = d
    BY <1>3, <2>3, HashFacts DEF HashesOf
  <2>5. d \in Data => h = Md5(d)
    BY <1>3, HashFacts DEF HashesOf
  <2>6. d \in Data => Has(f, c, d)
    BY <1>0, <1>3, <2>5 DEF Has, StoredTile
  <2> QED BY <1>0, <1>1, <1>3, <1>4, <1>7, <2>1, <2>2, <2>4, <2>6, StoredIs DEF IsHashedRow
<1> QED BY <1>1, <1>5, <1>6, <1>7 DEF Schemas

LEMMA HasShown ==
  ASSUME NEW f, Shaped(f), f.type \in Schemas, NEW c, NEW d \in Data, Has(f, c, d), LinkedAt(f, c)
  PROVE  c \in DOMAIN Tiles(f) /\ Tiles(f)[c] = d
<1>1. c \in DOMAIN f.rows /\ f.rows[c] = Stored(f.type, Row(d, Md5(d)))
  BY DEF Has, StoredTile
<1>2. Md5(d) \in HashesOf(d)
  BY HashFacts DEF HashesOf
<1>3. f.type \in Normalized => Md5(d) \in DOMAIN f.images
  <2> SUFFICES ASSUME f.type \in Normalized PROVE Md5(d) \in DOMAIN f.images
    OBVIOUS
  <2>1. f.type = "normalized"
    BY DEF Schemas, Normalized
  <2>2. f.rows[c].hash = Md5(d)
    BY <1>1, <2>1, StoredIs
  <2> QED BY <2>2, HashFacts DEF LinkedAt
<1> QED BY <1>1, <1>2, <1>3, RowShown

LEMMA HasOne ==
  ASSUME NEW f, f.type \in Schemas, NEW c, NEW d \in Data, NEW e \in Data, Has(f, c, d), Has(f, c, e)
  PROVE  d = e
<1>1. StoredTile(f.type, d) = StoredTile(f.type, e)
  BY DEF Has
<1>2. CASE f.type \in Flat
  <2>1. StoredTile(f.type, d).data = d /\ StoredTile(f.type, e).data = e
    BY <1>2, StoredIs DEF StoredTile, Flat
  <2> QED BY <1>1, <2>1
<1>3. CASE f.type = "normalized"
  <2>1. StoredTile(f.type, d).hash = Md5(d) /\ StoredTile(f.type, e).hash = Md5(e)
    BY <1>3, StoredIs DEF StoredTile
  <2> QED BY <1>1, <2>1, HashFacts
<1> QED BY <1>2, <1>3 DEF Schemas, Flat

LEMMA TileSetIs ==
  ASSUME NEW T
  PROVE  T \in TileSets <=> /\ T = [c \in DOMAIN T |-> T[c]]
                            /\ DOMAIN T \subseteq Coords /\ \A c \in DOMAIN T : T[c] \in Data
<1>1. ASSUME T \in TileSets
      PROVE  /\ T = [c \in DOMAIN T |-> T[c]]
             /\ DOMAIN T \subseteq Coords /\ \A c \in DOMAIN T : T[c] \in Data
  <2>1. PICK S \in SUBSET Coords : T \in [S -> Data]
    BY <1>1 DEF TileSets
  <2> QED BY <2>1
<1>2. ASSUME T = [c \in DOMAIN T |-> T[c]], DOMAIN T \subseteq Coords,
             \A c \in DOMAIN T : T[c] \in Data
      PROVE  T \in TileSets
  <2>1. T \in [DOMAIN T -> Data]
    BY <1>2
  <2> QED BY <1>2, <2>1 DEF TileSets
<1> QED BY <1>1, <1>2

LEMMA ViewIsMap ==
  ASSUME NEW f
  PROVE  Tiles(f) = [c \in DOMAIN Tiles(f) |-> Tiles(f)[c]]
<1>1. CASE f.type \in Normalized
  BY <1>1 DEF Tiles
<1>2. CASE f.type \notin Normalized
  BY <1>2 DEF Tiles
<1> QED BY <1>1, <1>2

\* A table that holds these tiles row by row shows them.
LEMMA ViewIs ==
  ASSUME NEW f, Shaped(f), f.type \in Schemas, NEW T \in TileSets,
         \A c \in Coords : ShownAt(f, c, T)
  PROVE  Tiles(f) = T
<1>1. ASSUME NEW c \in DOMAIN T PROVE c \in DOMAIN Tiles(f) /\ Tiles(f)[c] = T[c]
  <2>1. c \in Coords /\ T[c] \in Data
    BY TileSetIs
  <2>2. Has(f, c, T[c]) /\ LinkedAt(f, c)
    BY <2>1 DEF ShownAt, RowIs, Has
  <2> QED BY <2>1, <2>2, HasShown
<1>2. ASSUME NEW c \in DOMAIN Tiles(f) PROVE c \in DOMAIN T
  <2>1. c \in DOMAIN f.rows /\ c \in Coords
    BY ViewOf
  <2> QED BY <2>1 DEF ShownAt, RowIs
<1>3. DOMAIN Tiles(f) = DOMAIN T
  BY <1>1, <1>2
<1> QED BY <1>1, <1>3, TileSetIs, ViewIsMap

LEMMA WholeView ==
  ASSUME NEW f, Shaped(f), Whole(f)
  PROVE  /\ Tiles(f) \in TileSets /\ DOMAIN Tiles(f) = DOMAIN f.rows
         /\ \A c \in Coords : ShownAt(f, c, Tiles(f))
<1>1. ASSUME NEW c \in DOMAIN f.rows
      PROVE  c \in DOMAIN Tiles(f) /\ Tiles(f)[c] \in Data /\ Has(f, c, Tiles(f)[c]) /\ LinkedAt(f, c)
  <2>1. PICK d \in Data : Has(f, c, d)
    BY DEF Whole
  <2>2. f.type \in Schemas
    BY DEF Shaped, NoFile, Empty
  <2>3. LinkedAt(f, c)
    BY DEF Whole, Linked
  <2>4. c \in DOMAIN Tiles(f) /\ Tiles(f)[c] = d
    BY <2>1, <2>2, <2>3, HasShown
  <2> QED BY <2>1, <2>3, <2>4
<1>2. DOMAIN Tiles(f) = DOMAIN f.rows
  BY <1>1, ViewOf
<1>3. Tiles(f) \in TileSets
  BY <1>1, <1>2, TileSetIs, ViewIsMap, ViewOf
<1>4. \A c \in Coords : ShownAt(f, c, Tiles(f))
  BY <1>1, <1>2 DEF ShownAt, RowIs
<1> QED BY <1>2, <1>3, <1>4

-----------------------------------------------------------------------------
(* What the statements lay down: selections, and tables that take them.    *)

LEMMA OverlayDomain ==
  ASSUME NEW f, NEW g
  PROVE  DOMAIN Overlay(f, g) = DOMAIN f \cup DOMAIN g
  BY DEF Overlay

LEMMA OverlayAt ==
  ASSUME NEW f, NEW g, NEW c
  PROVE  /\ c \in DOMAIN g => Overlay(f, g)[c] = g[c]
         /\ c \in DOMAIN f /\ c \notin DOMAIN g => Overlay(f, g)[c] = f[c]
  BY DEF Overlay

LEMMA InsertedOne ==
  ASSUME NEW table, NEW new, NEW mode \in Modes, NEW t, t \in Insert(table, new, mode)
  PROVE  /\ mode = "ignore" => t = Overlay(new, table)
         /\ mode # "ignore" => t = Overlay(table, new)
  BY DEF Insert, Modes

LEMMA InsertedDomain ==
  ASSUME NEW table, NEW new, NEW mode \in Modes, NEW t, t \in Insert(table, new, mode)
  PROVE  DOMAIN t = DOMAIN table \cup DOMAIN new
<1>1. /\ mode = "ignore" => t = Overlay(new, table)
      /\ mode # "ignore" => t = Overlay(table, new)
  BY InsertedOne
<1>2. DOMAIN Overlay(new, table) = DOMAIN new \cup DOMAIN table
  BY OverlayDomain
<1>3. DOMAIN Overlay(table, new) = DOMAIN table \cup DOMAIN new
  BY OverlayDomain
<1> QED BY <1>1, <1>2, <1>3

LEMMA InsertedAt ==
  ASSUME NEW table, NEW new, NEW mode \in Modes, NEW t, t \in Insert(table, new, mode),
         NEW c \in DOMAIN t
  PROVE  /\ \/ c \in DOMAIN new /\ t[c] = new[c]
            \/ c \in DOMAIN table /\ t[c] = table[c]
         /\ mode # "ignore" /\ c \in DOMAIN new => t[c] = new[c]
         /\ mode = "ignore" /\ c \in DOMAIN table => t[c] = table[c]
<1>1. /\ mode = "ignore" => t = Overlay(new, table)
      /\ mode # "ignore" => t = Overlay(table, new)
  BY InsertedOne
<1>2. c \in DOMAIN table \/ c \in DOMAIN new
  <2>1. DOMAIN t = DOMAIN table \cup DOMAIN new
    BY InsertedDomain
  <2> QED BY <2>1
<1>3. CASE mode = "ignore"
  <2>1. /\ c \in DOMAIN table => Overlay(new, table)[c] = table[c]
        /\ c \in DOMAIN new /\ c \notin DOMAIN table => Overlay(new, table)[c] = new[c]
    BY OverlayAt
  <2> QED BY <1>1, <1>2, <1>3, <2>1
<1>4. CASE mode # "ignore"
  <2>1. /\ c \in DOMAIN new => Overlay(table, new)[c] = new[c]
        /\ c \in DOMAIN table /\ c \notin DOMAIN new => Overlay(table, new)[c] = table[c]
    BY OverlayAt
  <2> QED BY <1>1, <1>2, <1>4, <2>1
<1> QED BY <1>3, <1>4

IsSelection(sel) == \A c \in DOMAIN sel : c \in Coords /\ IsHashedRow(sel[c])

LEMMA SelectedImages ==
  ASSUME NEW sel, IsSelection(sel)
  PROVE  /\ \A id \in DOMAIN Images(sel) :
              /\ Images(sel)[id] \in Data \cup {Null}
              /\ id # Null /\ id \in HashesOf(Images(sel)[id])
         /\ \A c \in DOMAIN sel : sel[c].hash \in DOMAIN Images(sel) \cup {Null}
<1>1. DOMAIN Images(sel) = {sel[c].hash : c \in DOMAIN sel} \ {Null}
  BY DEF Images
<1>2. ASSUME NEW id \in DOMAIN Images(sel)
      PROVE  /\ Images(sel)[id] \in Data \cup {Null}
             /\ id # Null /\ id \in HashesOf(Images(sel)[id])
  <2> DEFINE c == CHOOSE c \in DOMAIN sel : sel[c].hash = id
  <2>1. \E x \in DOMAIN sel : sel[x].hash = id
    BY <1>1
  <2>2. c \in DOMAIN sel /\ sel[c].hash = id
    BY <2>1
  <2>3. Images(sel)[id] = sel[c].data
    BY <1>1 DEF Images
  <2> HIDE DEF c
  <2> QED BY <1>1, <2>2, <2>3 DEF IsSelection, IsHashedRow
<1> QED BY <1>1, <1>2

LEMMA TileAtSet ==
  ASSUME NEW T \in TileSets, NEW c
  PROVE  /\ TileAt(T, c) \in Data \cup {Null}
         /\ TileAt(T, c) = Null <=> c \notin DOMAIN T
  BY TileSetIs, HashFacts DEF TileAt

LEMMA HashedSelection ==
  ASSUME NEW f, Shaped(f)
  PROVE  /\ IsSelection(HashedTiles(f)) /\ DOMAIN HashedTiles(f) = DOMAIN Tiles(f)
         /\ \A c \in DOMAIN Tiles(f) : HashedTiles(f)[c].data = Tiles(f)[c]
<1>1. DOMAIN HashedTiles(f) = DOMAIN Tiles(f)
  BY DEF HashedTiles
<1> QED BY <1>1, ShownRow DEF IsSelection

LEMMA DifferenceSelection ==
  ASSUME NEW src, NEW dif, NEW binary \in BOOLEAN, Shaped(src), Shaped(dif),
         Tiles(src) \in TileSets, Tiles(dif) \in TileSets
  PROVE  /\ IsSelection(Difference(src, dif, binary))
         /\ \A c \in DOMAIN Difference(src, dif, binary) :
              Difference(src, dif, binary)[c].hash # Null
         /\ ~binary => \A c \in Coords :
              /\ c \in DOMAIN Difference(src, dif, binary)
                   <=> TileAt(Tiles(src), c) # TileAt(Tiles(dif), c)
              /\ c \in DOMAIN Difference(src, dif, binary) =>
                   Difference(src, dif, binary)[c].data = TileAt(Tiles(dif), c)
<1> DEFINE sel == Difference(src, dif, binary)
           old == Tiles(src)
           new == HashedTiles(dif)
           row(c) == IF c \in DOMAIN new THEN new[c] ELSE Row(Null, Null)
           changed == {c \in DOMAIN old \cup DOMAIN new :
                         \/ c \notin DOMAIN old \/ c \notin DOMAIN new
                         \/ Null \in {old[c], new[c].data}
                         \/ ~binary /\ old[c] # new[c].data}
<1>1. sel = [c \in changed |->
               IF row(c).hash = Null THEN [row(c) EXCEPT !.hash = Md5Empty] ELSE row(c)]
  BY DEF Difference, Row
<1>2. /\ DOMAIN new = DOMAIN Tiles(dif) /\ IsSelection(new)
      /\ \A c \in DOMAIN Tiles(dif) : new[c].data = Tiles(dif)[c]
  BY HashedSelection
<1>3. \A c \in DOMAIN old \cup DOMAIN new : c \in Coords
  BY <1>2, TileSetIs
<1> HIDE DEF new, old
<1>4. ASSUME NEW c \in changed
      PROVE  /\ IsHashedRow(sel[c]) /\ sel[c].hash # Null
             /\ sel[c].data = TileAt(Tiles(dif), c)
  <2>1. CASE c \in DOMAIN new
    <3>1. IsHashedRow(new[c]) /\ new[c].data = TileAt(Tiles(dif), c) /\ new[c].data \in Data
      BY <1>2, <2>1, TileSetIs DEF IsSelection, TileAt
    <3>2. new[c].hash # Null
      BY <3>1, HashFacts DEF IsHashedRow, HashesOf
    <3>3. sel[c] = new[c]
      BY <1>1, <2>1, <3>2
    <3> QED BY <3>1, <3>2, <3>3
  <2>2. CASE c \notin DOMAIN new
    <3>1. row(c) = Row(Null, Null)
      BY <2>2
    <3>2. sel[c] = [Row(Null, Null) EXCEPT !.hash = Md5Empty]
      BY <1>1, <3>1, StoredIs
    <3>3. sel[c] = Row(Null, Md5Empty)
      BY <3>2 DEF Row
    <3>4. TileAt(Tiles(dif), c) = Null
      BY <1>2, <2>2 DEF TileAt
    <3> QED BY <3>3, <3>4, StoredIs, HashFacts DEF IsHashedRow, HashesOf
  <2> QED BY <2>1, <2>2
<1>5. DOMAIN sel = changed
  BY <1>1
<1>6. ASSUME ~binary, NEW c \in Coords
      PROVE  c \in changed <=> TileAt(Tiles(src), c) # TileAt(Tiles(dif), c)
  <2>1. /\ c \in DOMAIN Tiles(src) => Tiles(src)[c] \in Data /\ Tiles(src)[c] # Null
        /\ c \in DOMAIN Tiles(dif) => Tiles(dif)[c] \in Data /\ Tiles(dif)[c] # Null
    BY TileSetIs, HashFacts
  <2> QED BY <1>2, <1>6, <2>1 DEF old, TileAt
<1> HIDE DEF sel, changed
<1>7. IsSelection(sel)
  BY <1>3, <1>4, <1>5 DEF IsSelection, changed
<1> QED BY <1>4, <1>5, <1>6, <1>7 DEF sel

LEMMA PatchedSelection ==
  ASSUME NEW src, NEW dif, Shaped(src), Shaped(dif), Tiles(src) \in TileSets
  PROVE  /\ IsSelection(Patched(src, dif))
         /\ \A c \in DOMAIN Patched(src, dif) : Patched(src, dif)[c].data \in Data
<1> DEFINE merged == Overlay(HashedTiles(src), HashedTiles(dif))
           gone == {c \in DOMAIN Tiles(dif) : Tiles(dif)[c] = Null} \cup DOMAIN Patches(src, dif)
<1>1. Patched(src, dif) = Only(merged, DOMAIN merged \ gone)
  BY DEF Patched
<1>2. /\ IsSelection(HashedTiles(src)) /\ DOMAIN HashedTiles(src) = DOMAIN Tiles(src)
      /\ \A c \in DOMAIN Tiles(src) : HashedTiles(src)[c].data = Tiles(src)[c]
  BY HashedSelection
<1>3. /\ IsSelection(HashedTiles(dif)) /\ DOMAIN HashedTiles(dif) = DOMAIN Tiles(dif)
      /\ \A c \in DOMAIN Tiles(dif) : HashedTiles(dif)[c].data = Tiles(dif)[c]
  BY HashedSelection
<1>4. ASSUME NEW c \in DOMAIN Patched(src, dif)
      PROVE  /\ c \in Coords /\ IsHashedRow(Patched(src, dif)[c])
             /\ Patched(src, dif)[c].data \in Data
  <2>1. Patched(src, dif)[c] = merged[c] /\ c \in DOMAIN merged /\ c \notin gone
    BY <1>1, <1>4 DEF Only
  <2>2. CASE c \in DOMAIN Tiles(dif)
    <3>1. merged[c] = HashedTiles(dif)[c]
      BY <1>3, <2>2 DEF Overlay
    <3>2. Tiles(dif)[c] # Null
      BY <2>1, <2>2
    <3>3. IsHashedRow(merged[c]) /\ merged[c].data # Null /\ c \in Coords
      BY <1>3, <2>2, <3>1, <3>2 DEF IsSelection
    <3> QED BY <2>1, <3>3 DEF IsHashedRow
  <2>3. CASE c \notin DOMAIN Tiles(dif)
    <3>1. c \in DOMAIN Tiles(src) /\ merged[c] = HashedTiles(src)[c]
      BY <1>2, <1>3, <2>1, <2>3 DEF Overlay
    <3> QED BY <1>2, <2>1, <3>1, TileSetIs DEF IsSelection
  <2> QED BY <2>2, <2>3
<1> QED BY <1>4 DEF IsSelection

-----------------------------------------------------------------------------
(* What a statement changes of a file.                                     *)

HasFields(f) == DOMAIN f = DOMAIN NoFile

\* Two files with the same tables show the same.
SameTables(g, f) == g.type = f.type /\ g.rows = f.rows /\ g.images = f.images

LEMMA SameView ==
  ASSUME NEW f, NEW g, SameTables(g, f)
  PROVE  /\ Tiles(g) = Tiles(f) /\ HashedTiles(g) = HashedTiles(f)
         /\ Linked(g) <=> Linked(f)
         /\ \A c, T : ShownAt(g, c, T) <=> ShownAt(f, c, T)
         /\ \A c, T : RowIs(g, c, T) <=> RowIs(f, c, T)
         /\ \A B, A : Turns(g, B, A) <=> Turns(f, B, A)
<1> USE DEF SameTables
<1>1. Tiles(g) = Tiles(f)
  BY DEF Tiles
<1>2. HashedTiles(g) = HashedTiles(f)
  BY <1>1 DEF HashedTiles
<1>3. \A c : LinkedAt(g, c) <=> LinkedAt(f, c)
  BY DEF LinkedAt
<1>4. Linked(g) <=> Linked(f)
  BY <1>3 DEF Linked
<1>5. \A c, T : RowIs(g, c, T) <=> RowIs(f, c, T)
  BY DEF RowIs, Has
<1>6. \A c, T : ShownAt(g, c, T) <=> ShownAt(f, c, T)
  BY <1>3, <1>5 DEF ShownAt
<1>7. \A B, A : Turns(g, B, A) <=> Turns(f, B, A)
  BY <1>1 DEF Turns
<1> QED BY <1>1, <1>2, <1>4, <1>5, <1>6, <1>7

LEMMA SameHalf ==
  ASSUME NEW f, NEW g, SameTables(g, f), NEW B, NEW A
  PROVE  \A c : HalfAt(g, c, B, A) <=> HalfAt(f, c, B, A)
  BY SameView DEF HalfAt

LEMMA SameShape ==
  ASSUME NEW f, NEW g, Shaped(f), f.type # "none", HasFields(g), SameTables(g, f),
         g.binary = f.binary
  PROVE  Shaped(g)
  BY DEF Shaped, SameTables, HasFields

LEMMA SameWhole ==
  ASSUME NEW f, NEW g, Whole(f), SameTables(g, f), g.before = {}, g.after = {}
  PROVE  Whole(g)
<1>1. Linked(g)
  BY SameView DEF Whole
<1>2. \A c \in DOMAIN g.rows : \E d \in Data : Has(g, c, d)
  BY DEF Whole, SameTables, Has
<1> QED BY <1>1, <1>2 DEF Whole

\* A table that keeps some of its rows and takes some of a selection.
Takes(t, f, sel) ==
  \A c \in DOMAIN t :
    \/ c \in DOMAIN sel /\ t[c] = Stored(f.type, sel[c])
    \/ c \in DOMAIN f.rows /\ t[c] = f.rows[c]

LEMMA RowsTaken ==
  ASSUME NEW f, Shaped(f), f.type \in Schemas, NEW sel, IsSelection(sel), NEW t, Takes(t, f, sel)
  PROVE  Shaped([f EXCEPT !.rows = t])
<1> DEFINE g == [f EXCEPT !.rows = t]
<1>1. /\ DOMAIN g = DOMAIN NoFile /\ g.type = f.type /\ g.rows = t /\ g.images = f.images
      /\ g.binary = f.binary
  BY DEF Shaped, NoFile
<1> HIDE DEF g
<1>2. ASSUME NEW c \in DOMAIN t
      PROVE  c \in Coords /\ \E d \in Data \cup {Null} : \E h \in HashesOf(d) :
               t[c] = Stored(f.type, Row(d, h))
  <2>1. CASE c \in DOMAIN f.rows /\ t[c] = f.rows[c]
    BY <2>1 DEF Shaped
  <2>2. CASE c \in DOMAIN sel /\ t[c] = Stored(f.type, sel[c])
    <3>1. c \in Coords /\ sel[c] = Row(sel[c].data, sel[c].hash)
      BY <2>2 DEF IsSelection, IsHashedRow
    <3>2. sel[c].data \in Data \cup {Null} /\ sel[c].hash \in HashesOf(sel[c].data)
      BY <2>2 DEF IsSelection, IsHashedRow
    <3>3. t[c] = Stored(f.type, Row(sel[c].data, sel[c].hash))
      BY <2>2, <3>1
    <3> QED BY <3>1, <3>2, <3>3
  <2> QED BY <2>1, <2>2 DEF Takes
<1>3. DOMAIN g.rows \subseteq Coords
  BY <1>1, <1>2
<1>4. \A c \in DOMAIN g.rows : \E d \in Data \cup {Null} : \E h \in HashesOf(d) :
        g.rows[c] = Stored(g.type, Row(d, h))
  BY <1>1, <1>2
<1>5. g.type # "none"
  BY <1>1 DEF Schemas
<1>6. \A id \in DOMAIN g.images :
        g.images[id] \in Data \cup {Null} /\ id # Null /\ id \in HashesOf(g.images[id])
  BY <1>1 DEF Shaped
<1>7. \A patches \in g.binary : \A c \in DOMAIN patches : c \in Coords /\ patches[c].to \in Data
  BY <1>1 DEF Shaped
<1>8. Shaped(g)
  BY <1>1, <1>3, <1>4, <1>5, <1>6, <1>7 DEF Shaped
<1> QED BY <1>8 DEF g

\* The images of a selection that a table refers to are there.
ImagesFor(f, sel) ==
  f.type \in Normalized => \A c \in DOMAIN sel : sel[c].hash \in DOMAIN f.images \cup {Null}

LEMMA StoredHash ==
  ASSUME NEW type, type \in Normalized, type \in Schemas, NEW row, row = Row(row.data, row.hash)
  PROVE  Stored(type, row).hash = row.hash
<1>1. type = "normalized"
  BY DEF Normalized, Schemas
<1>2. Stored(type, Row(row.data, row.hash)) = Row(Null, row.hash)
  BY <1>1, StoredIs
<1>3. Row(Null, row.hash).hash = row.hash
  BY StoredIs
<1> QED BY <1>2, <1>3

LEMMA RowsLinked ==
  ASSUME NEW f, Shaped(f), f.type \in Schemas, NEW sel, IsSelection(sel), NEW t, Takes(t, f, sel),
         Linked(f), ImagesFor(f, sel)
  PROVE  Linked([f EXCEPT !.rows = t])
<1> DEFINE g == [f EXCEPT !.rows = t]
<1>1. g.type = f.type /\ g.rows = t /\ g.images = f.images
  BY DEF Shaped, NoFile
<1> HIDE DEF g
<1>2. ASSUME NEW c \in DOMAIN t, f.type \in Normalized
      PROVE  t[c].hash \in DOMAIN f.images \cup {Null}
  <2>1. CASE c \in DOMAIN f.rows /\ t[c] = f.rows[c]
    BY <1>2, <2>1 DEF Linked, LinkedAt
  <2>2. CASE c \in DOMAIN sel /\ t[c] = Stored(f.type, sel[c])
    <3>1. sel[c] = Row(sel[c].data, sel[c].hash)
      BY <2>2 DEF IsSelection, IsHashedRow
    <3>2. t[c].hash = sel[c].hash
      BY <1>2, <2>2, <3>1, StoredHash
    <3> QED BY <1>2, <2>2, <3>2 DEF ImagesFor
  <2> QED BY <2>1, <2>2 DEF Takes
<1>3. Linked(g)
  BY <1>1, <1>2 DEF Linked, LinkedAt
<1> QED BY <1>3 DEF g

LEMMA RowsWhole ==
  ASSUME NEW f, Shaped(f), f.type \in Schemas, NEW sel, IsSelection(sel), NEW t, Takes(t, f, sel),
         Whole(f), ImagesFor(f, sel), \A c \in DOMAIN sel : sel[c].data \in Data
  PROVE  Whole([f EXCEPT !.rows = t])
<1> DEFINE g == [f EXCEPT !.rows = t]
<1>1. /\ g.type = f.type /\ g.rows = t /\ g.images = f.images
      /\ g.before = f.before /\ g.after = f.after
  BY DEF Shaped, NoFile
<1>2. Linked(g)
  BY RowsLinked DEF Whole
<1> HIDE DEF g
<1>3. ASSUME NEW c \in DOMAIN t PROVE \E d \in Data : t[c] = StoredTile(f.type, d)
  <2>1. CASE c \in DOMAIN f.rows /\ t[c] = f.rows[c]
    BY <2>1 DEF Whole, Has
  <2>2. CASE c \in DOMAIN sel /\ t[c] = Stored(f.type, sel[c])
    <3>1. sel[c] = Row(sel[c].data, sel[c].hash) /\ sel[c].data \in Data
      BY <2>2 DEF IsSelection, IsHashedRow
    <3>2. sel[c].hash = Md5(sel[c].data)
      BY <2>2, <3>1, HashFacts DEF IsSelection, IsHashedRow, HashesOf
    <3>3. t[c] = Stored(f.type, Row(sel[c].data, Md5(sel[c].data)))
      BY <2>2, <3>1, <3>2
    <3> QED BY <3>1, <3>3 DEF StoredTile
  <2> QED BY <2>1, <2>2 DEF Takes
<1>4. Whole(g)
  BY <1>1, <1>2, <1>3 DEF Whole, Has
<1> QED BY <1>4 DEF g

\* Images that are added, before those there are or over them.
LEMMA ImagesAdded ==
  ASSUME NEW f, Shaped(f), f.type \in Schemas, NEW sel, IsSelection(sel), NEW images,
         images \in {Overlay(Images(sel), f.images), Overlay(f.images, Images(sel))}
  PROVE  LET g == [f EXCEPT !.images = images] IN
         /\ Shaped(g) /\ ImagesFor(g, sel)
         /\ Linked(f) => Linked(g)
         /\ Whole(f) => Whole(g)
<1> DEFINE g == [f EXCEPT !.images = images]
<1>1. /\ DOMAIN g = DOMAIN NoFile /\ g.type = f.type /\ g.rows = f.rows /\ g.images = images
      /\ g.binary = f.binary /\ g.before = f.before /\ g.after = f.after
  BY DEF Shaped, NoFile
<1> HIDE DEF g
<1>2. DOMAIN images = DOMAIN f.images \cup DOMAIN Images(sel)
  <2>1. CASE images = Overlay(Images(sel), f.images)
    <3>1. DOMAIN images = DOMAIN Images(sel) \cup DOMAIN f.images
      BY <2>1, OverlayDomain
    <3> QED BY <3>1
  <2>2. CASE images = Overlay(f.images, Images(sel))
    BY <2>2, OverlayDomain
  <2> QED BY <2>1, <2>2
<1>3. \A id \in DOMAIN images :
        \/ id \in DOMAIN f.images /\ images[id] = f.images[id]
        \/ id \in DOMAIN Images(sel) /\ images[id] = Images(sel)[id]
  BY <1>2, OverlayAt
<1>4. \A id \in DOMAIN images :
        images[id] \in Data \cup {Null} /\ id # Null /\ id \in HashesOf(images[id])
  <2> TAKE id \in DOMAIN images
  <2>1. CASE id \in DOMAIN f.images /\ images[id] = f.images[id]
    BY <2>1 DEF Shaped
  <2>2. CASE id \in DOMAIN Images(sel) /\ images[id] = Images(sel)[id]
    BY <2>2, SelectedImages
  <2> QED BY <1>3, <2>1, <2>2
<1>5. g.type # "none"
  BY <1>1 DEF Schemas
<1>6. Shaped(g)
  BY <1>1, <1>4, <1>5 DEF Shaped
<1>7. ImagesFor(g, sel)
  BY <1>1, <1>2, SelectedImages DEF ImagesFor
<1>8. ASSUME Linked(f) PROVE Linked(g)
  BY <1>1, <1>2, <1>8 DEF Linked, LinkedAt
<1>9. ASSUME Whole(f) PROVE Whole(g)
  BY <1>1, <1>8, <1>9 DEF Whole, Has
<1> QED BY <1>6, <1>7, <1>8, <1>9 DEF g

\* A file that is begun: no rows yet.
LEMMA BegunFile ==
  ASSUME NEW type \in Schemas
  PROVE  LET f == [NoFile EXCEPT !.type = type] IN
         /\ Shaped(f) /\ Whole(f) /\ f.type = type /\ DOMAIN f.rows = {}
<1> DEFINE f == [NoFile EXCEPT !.type = type]
<1>1. /\ DOMAIN f = DOMAIN NoFile /\ f.type = type /\ DOMAIN f.rows = {} /\ DOMAIN f.images = {}
      /\ f.binary = {} /\ f.before = {} /\ f.after = {}
  BY DEF NoFile, Empty
<1> HIDE DEF f
<1>2. Shaped(f)
  BY <1>1 DEF Shaped, Schemas
<1>3. Whole(f)
  BY <1>1 DEF Whole, Linked
<1> QED BY <1>1, <1>2, <1>3 DEF f

-----------------------------------------------------------------------------
(* The invariant: what every file is fit for, and how far a command got.   *)

Fit(f) == Shaped(f) /\ (IsPatch(f) /\ ~HasBinary(f) => MeansPatch(f))

FileOk(f, left) ==
  /\ Fit(f)
  /\ left.state = "sound" /\ ~IsEmpty(f) => SoundFile(f)
  /\ left.state = "half patched" => HalfPatched(f, left.to)

FilesInv ==
  /\ DOMAIN file = Names /\ DOMAIN standing = Names
  /\ \A n \in Names : standing[n].state \in Standings /\ FileOk(file[n], standing[n])

CopyTodos ==
  {<<"agg">>, <<"metadata", "agg">>, <<"tiles", "agg">>, <<"tiles", "metadata", "agg">>,
   <<"images", "tiles", "agg">>, <<"images", "tiles", "metadata", "agg">>}

\* A NULL tile has a hash that an image may have for its id.
HashedNulls(f) ==
  \A c \in DOMAIN Tiles(f) : Tiles(f)[c] = Null => HashedTiles(f)[c].hash # Null

CopyOk(src, dst, mode, todo) ==
  /\ todo \in CopyTodos
  /\ dst.type \in Schemas /\ Linked(dst)
  /\ Head(todo) = "tiles" => ImagesFor(dst, HashedTiles(src))
  /\ Whole(src) => Whole(dst)
  /\ IsPatch(src) =>
       /\ mode = "override"
       /\ todo \notin {<<"tiles", "agg">>, <<"images", "tiles", "agg">>}
       /\ dst.type \in Normalized => HashedNulls(src)
       /\ Head(todo) # "agg" => dst.before = {} /\ dst.after = {}
       /\ Head(todo) \in {"images", "tiles"} => DOMAIN dst.rows = {}
       /\ Head(todo) \in {"metadata", "agg"} => Tiles(dst) = Tiles(src)
       /\ Head(todo) = "agg" => dst.before = src.before /\ dst.after = src.after

DiffTodos ==
  {<<"agg">>, <<"after", "agg">>, <<"before", "after", "agg">>,
   <<"binary", "before", "after", "agg">>,
   <<"metadata", "before", "after", "agg">>,
   <<"metadata", "binary", "before", "after", "agg">>,
   <<"tiles", "metadata", "before", "after", "agg">>,
   <<"tiles", "metadata", "binary", "before", "after", "agg">>,
   <<"images", "tiles", "metadata", "before", "after", "agg">>}

NoBinaryTodos ==
  {<<"metadata", "before", "after", "agg">>,
   <<"tiles", "metadata", "before", "after", "agg">>,
   <<"images", "tiles", "metadata", "before", "after", "agg">>}

DiffOk(src, dif, dst, binary, todo) ==
  /\ todo \in DiffTodos
  /\ todo \in NoBinaryTodos => ~binary
  /\ dst.type \in Schemas /\ Linked(dst)
  /\ Head(todo) = "tiles" => ImagesFor(dst, Difference(src, dif, binary))
  /\ Head(todo) \in {"images", "tiles"} => DOMAIN dst.rows = {}
  /\ Head(todo) \notin {"images", "tiles"} /\ ~binary => Turns(dst, Tiles(src), Tiles(dif))
  /\ Head(todo) \in {"before", "after", "agg"} /\ binary => HasBinary(dst)
  /\ dst.before = IF Head(todo) \in {"after", "agg"} THEN src.agg ELSE {}
  /\ dst.after = IF Head(todo) = "agg" THEN dif.agg ELSE {}

PatchTodos ==
  {<<"check">>, <<"agg", "check">>, <<"binary", "agg", "check">>,
   <<"metadata", "agg", "check">>, <<"metadata", "binary", "agg", "check">>,
   <<"tiles", "metadata", "agg", "check">>,
   <<"tiles", "metadata", "binary", "agg", "check">>,
   <<"images", "tiles", "metadata", "agg", "check">>}

BinaryTodos ==
  {<<"binary", "agg", "check">>, <<"metadata", "binary", "agg", "check">>,
   <<"tiles", "metadata", "binary", "agg", "check">>}

PatchOk(src, dif, dst, todo) ==
  /\ todo \in PatchTodos
  /\ todo \in BinaryTodos => dst.type \in Flat
  /\ dst.type \in Schemas /\ Whole(dst)
  /\ Head(todo) = "tiles" => ImagesFor(dst, Patched(src, dif))
  /\ Head(todo) = "check" => dst.agg = {Tiles(dst)}

ApplyTodos ==
  {<<"forget">>, <<"replace", "forget">>, <<"collect", "replace", "forget">>,
   <<"delete", "replace", "forget">>, <<"delete", "collect", "replace", "forget">>,
   <<"upsert_images", "delete", "collect", "replace", "forget">>,
   <<"upsert", "delete", "replace", "forget">>,
   <<"upsert", "upsert_images", "delete", "collect", "replace", "forget">>}

\* Whatever the patch brings is in the rows.
Brought(dst, B, A) == \A c \in DOMAIN A : TileAt(B, c) # A[c] => RowIs(dst, c, A)

ApplyStage(dst, B, A, todo) ==
  /\ Head(todo) # "forget" => OnTheWay(dst, B, A)
  /\ Head(todo) \in {"upsert_images", "delete"} => Brought(dst, B, A)
  /\ Head(todo) = "delete" => Linked(dst)
  /\ Head(todo) \in {"collect", "replace"} => \A c \in Coords : ShownAt(dst, c, A)
  /\ Head(todo) = "forget" => Arrived(dst, A)

ApplyOk(dif, dst, todo) ==
  /\ todo \in ApplyTodos
  /\ todo = <<"upsert", "delete", "replace", "forget">> => dst.type \in Flat
  /\ dst.type \in Schemas /\ dst.before = {} /\ dst.after = {}
  /\ \E B, A \in TileSets :
       /\ dif.before = {B} /\ dif.after = {A} /\ Turns(dif, B, A)
       /\ ApplyStage(dst, B, A, todo)

IsSource(n) == n \in Names /\ n # job.dst /\ Sound(n) /\ ~IsEmpty(file[n])

JobInv ==
  job # NoJob =>
    /\ DOMAIN job = DOMAIN NoJob /\ job.dst \in Names /\ job.todo # <<>>
    /\ \/ /\ job.command = "copy" /\ job.mode \in Modes
          /\ IsSource(job.src) /\ ~HasBinary(Src)
          /\ standing[job.dst] = Left("unknown", {})
          /\ CopyOk(Src, Dst, job.mode, job.todo)
       \/ /\ job.command = "diff" /\ job.mode = "override" /\ job.binary \in BOOLEAN
          /\ IsSource(job.src) /\ CanBeDiffed(Src)
          /\ IsSource(job.dif) /\ CanBeDiffed(Dif)
          /\ standing[job.dst] = Left("unknown", {})
          /\ DiffOk(Src, Dif, Dst, job.binary, job.todo)
       \/ /\ job.command = "patch" /\ job.mode = "override"
          /\ IsSource(job.src) /\ CanBeDiffed(Src)
          /\ job.dif \in Names /\ job.dif # job.dst /\ IsPatch(Dif)
          /\ standing[job.dst] = Left("unknown", {})
          /\ PatchOk(Src, Dif, Dst, job.todo)
       \/ /\ job.command = "apply"
          /\ job.dif \in Names /\ job.dif # job.dst /\ IsPatch(Dif) /\ ~HasBinary(Dif)
          /\ standing[job.dst] = Left("half patched", Dif.after)
          /\ ApplyOk(Dif, Dst, job.todo)

HashInv == FilesInv /\ JobInv

-----------------------------------------------------------------------------
(* Tables that were laid down show what they were laid down from.          *)

LEMMA LaidShown ==
  ASSUME NEW f, Shaped(f), f.type \in Schemas, NEW c \in DOMAIN f.rows, NEW row, IsHashedRow(row),
         f.rows[c] = Stored(f.type, row),
         f.type \in Normalized => row.hash \in DOMAIN f.images
  PROVE  c \in DOMAIN Tiles(f) /\ Tiles(f)[c] = row.data
<1>1. /\ row = Row(row.data, row.hash) /\ row.data \in Data \cup {Null}
      /\ row.hash \in HashesOf(row.data)
  BY DEF IsHashedRow
<1>2. f.rows[c] = Stored(f.type, Row(row.data, row.hash))
  BY <1>1
<1> QED BY <1>1, <1>2, RowShown

\* A row that stays is shown as it was.
LEMMA KeptShown ==
  ASSUME NEW f, Shaped(f), NEW g, Shaped(g), g.type = f.type, g.images = f.images,
         NEW c \in DOMAIN f.rows, c \in DOMAIN g.rows, g.rows[c] = f.rows[c]
  PROVE  /\ c \in DOMAIN Tiles(g) <=> c \in DOMAIN Tiles(f)
         /\ c \in DOMAIN Tiles(g) => Tiles(g)[c] = Tiles(f)[c]
<1>1. c \in DOMAIN Tiles(g) <=> c \in DOMAIN Tiles(f)
  BY ViewOf
<1>2. ASSUME c \in DOMAIN Tiles(g) PROVE Tiles(g)[c] = Tiles(f)[c]
  <2>1. CASE g.type = "normalized"
    <3>1. Tiles(g)[c] = g.images[g.rows[c].hash] /\ Tiles(f)[c] = f.images[f.rows[c].hash]
      BY <1>1, <1>2, <2>1, ViewOf
    <3> QED BY <3>1
  <2>2. CASE g.type # "normalized"
    <3>1. Tiles(g)[c] = g.rows[c].data /\ Tiles(f)[c] = f.rows[c].data
      BY <1>1, <1>2, <2>2, ViewOf
    <3> QED BY <3>1
  <2> QED BY <2>1, <2>2
<1> QED BY <1>1, <1>2

\* A table without rows, over the images of a selection, that takes it whole.
LEMMA SelectionLaid ==
  ASSUME NEW f, Shaped(f), f.type \in Schemas, Linked(f), DOMAIN f.rows = {},
         NEW sel, IsSelection(sel), ImagesFor(f, sel),
         f.type \in Normalized => \A c \in DOMAIN sel : sel[c].hash # Null,
         NEW t, DOMAIN t = DOMAIN sel, \A c \in DOMAIN sel : t[c] = Stored(f.type, sel[c])
  PROVE  LET g == [f EXCEPT !.rows = t] IN
         /\ Shaped(g) /\ Linked(g)
         /\ DOMAIN Tiles(g) = DOMAIN sel
         /\ \A c \in DOMAIN sel : Tiles(g)[c] = sel[c].data
<1> DEFINE g == [f EXCEPT !.rows = t]
<1>1. Takes(t, f, sel)
  BY DEF Takes
<1>2. Shaped(g) /\ Linked(g)
  BY <1>1, RowsTaken, RowsLinked
<1>3. g.type = f.type /\ g.rows = t /\ g.images = f.images
  BY DEF Shaped, NoFile
<1> HIDE DEF g
<1>4. ASSUME NEW c \in DOMAIN sel PROVE c \in DOMAIN Tiles(g) /\ Tiles(g)[c] = sel[c].data
  <2>1. IsHashedRow(sel[c]) /\ c \in DOMAIN g.rows /\ g.rows[c] = Stored(g.type, sel[c])
    BY <1>3 DEF IsSelection
  <2>2. g.type \in Normalized => sel[c].hash \in DOMAIN g.images
    BY <1>3 DEF ImagesFor
  <2> QED BY <1>2, <1>3, <2>1, <2>2, LaidShown
<1>5. DOMAIN Tiles(g) \subseteq DOMAIN sel
  BY <1>2, <1>3, ViewOf
<1> QED BY <1>2, <1>4, <1>5 DEF g

-----------------------------------------------------------------------------
(* One statement: how a command goes on.                                   *)

LEMMA CopyGoesOn ==
  ASSUME NEW todo \in CopyTodos
  PROVE  /\ todo # <<>> /\ Head(todo) \in {"images", "tiles", "metadata", "agg"}
         /\ Head(todo) = "agg" <=> Tail(todo) = <<>>
         /\ Tail(todo) # <<>> => Tail(todo) \in CopyTodos
         /\ Head(todo) = "images" => Head(Tail(todo)) = "tiles"
         /\ Head(todo) = "tiles" => Head(Tail(todo)) \in {"metadata", "agg"}
         /\ Head(todo) = "metadata" => Head(Tail(todo)) = "agg"
         /\ Head(todo) = "tiles" /\ Head(Tail(todo)) = "agg" => todo = <<"tiles", "agg">>
         /\ Tail(todo) = <<"tiles", "agg">> => todo = <<"images", "tiles", "agg">>
<1>1. CASE todo = <<"agg">>
  <2>1. Head(todo) = "agg" /\ Tail(todo) = <<>>
    BY <1>1
  <2> QED BY <1>1, <2>1 DEF CopyTodos
<1>2. CASE todo = <<"metadata", "agg">>
  <2>1. Head(todo) = "metadata" /\ Tail(todo) = <<"agg">>
    BY <1>2
  <2>2. Head(<<"agg">>) = "agg"
    OBVIOUS
  <2> QED BY <1>2, <2>1, <2>2 DEF CopyTodos
<1>3. CASE todo = <<"tiles", "agg">>
  <2>1. Head(todo) = "tiles" /\ Tail(todo) = <<"agg">>
    BY <1>3
  <2>2. Head(<<"agg">>) = "agg"
    OBVIOUS
  <2> QED BY <1>3, <2>1, <2>2 DEF CopyTodos
<1>4. CASE todo = <<"tiles", "metadata", "agg">>
  <2>1. Head(todo) = "tiles" /\ Tail(todo) = <<"metadata", "agg">>
    BY <1>4
  <2>2. Head(<<"metadata", "agg">>) = "metadata"
    OBVIOUS
  <2> QED BY <1>4, <2>1, <2>2 DEF CopyTodos
<1>5. CASE todo = <<"images", "tiles", "agg">>
  <2>1. Head(todo) = "images" /\ Tail(todo) = <<"tiles", "agg">>
    BY <1>5
  <2>2. Head(<<"tiles", "agg">>) = "tiles"
    OBVIOUS
  <2> QED BY <1>5, <2>1, <2>2 DEF CopyTodos
<1>6. CASE todo = <<"images", "tiles", "metadata", "agg">>
  <2>1. Head(todo) = "images" /\ Tail(todo) = <<"tiles", "metadata", "agg">>
    BY <1>6
  <2>2. Head(<<"tiles", "metadata", "agg">>) = "tiles"
    OBVIOUS
  <2> QED BY <1>6, <2>1, <2>2 DEF CopyTodos
<1> QED BY <1>1, <1>2, <1>3, <1>4, <1>5, <1>6 DEF CopyTodos

LEMMA DiffGoesOn ==
  ASSUME NEW todo \in DiffTodos
  PROVE  /\ todo # <<>>
         /\ Head(todo) \in {"images", "tiles", "metadata", "binary", "before", "after", "agg"}
         /\ Head(todo) = "agg" <=> Tail(todo) = <<>>
         /\ Tail(todo) # <<>> => Tail(todo) \in DiffTodos
         /\ Head(todo) = "images" => Head(Tail(todo)) = "tiles"
         /\ Head(todo) = "tiles" => Head(Tail(todo)) = "metadata"
         /\ Head(todo) = "metadata" => Head(Tail(todo)) \in {"binary", "before"}
         /\ Head(todo) = "metadata" /\ Head(Tail(todo)) = "before" => todo \in NoBinaryTodos
         /\ Head(todo) = "binary" => Head(Tail(todo)) = "before"
         /\ Head(todo) = "before" => Head(Tail(todo)) = "after"
         /\ Head(todo) = "after" => Head(Tail(todo)) = "agg"
         /\ Tail(todo) \in NoBinaryTodos => todo \in NoBinaryTodos
<1>1. CASE todo = <<"agg">>
  <2>1. Head(todo) = "agg" /\ Tail(todo) = <<>>
    BY <1>1
  <2> QED BY <1>1, <2>1 DEF DiffTodos, NoBinaryTodos
<1>2. CASE todo = <<"after", "agg">>
  <2>1. Head(todo) = "after" /\ Tail(todo) = <<"agg">>
    BY <1>2
  <2>2. Head(<<"agg">>) = "agg"
    OBVIOUS
  <2> QED BY <1>2, <2>1, <2>2 DEF DiffTodos, NoBinaryTodos
<1>3. CASE todo = <<"before", "after", "agg">>
  <2>1. Head(todo) = "before" /\ Tail(todo) = <<"after", "agg">>
    BY <1>3
  <2>2. Head(<<"after", "agg">>) = "after"
    OBVIOUS
  <2> QED BY <1>3, <2>1, <2>2 DEF DiffTodos, NoBinaryTodos
<1>4. CASE todo = <<"binary", "before", "after", "agg">>
  <2>1. Head(todo) = "binary" /\ Tail(todo) = <<"before", "after", "agg">>
    BY <1>4
  <2>2. Head(<<"before", "after", "agg">>) = "before"
    OBVIOUS
  <2> QED BY <1>4, <2>1, <2>2 DEF DiffTodos, NoBinaryTodos
<1>5. CASE todo = <<"metadata", "before", "after", "agg">>
  <2>1. Head(todo) = "metadata" /\ Tail(todo) = <<"before", "after", "agg">>
    BY <1>5
  <2>2. Head(<<"before", "after", "agg">>) = "before"
    OBVIOUS
  <2> QED BY <1>5, <2>1, <2>2 DEF DiffTodos, NoBinaryTodos
<1>6. CASE todo = <<"metadata", "binary", "before", "after", "agg">>
  <2>1. Head(todo) = "metadata" /\ Tail(todo) = <<"binary", "before", "after", "agg">>
    BY <1>6
  <2>2. Head(<<"binary", "before", "after", "agg">>) = "binary"
    OBVIOUS
  <2> QED BY <1>6, <2>1, <2>2 DEF DiffTodos, NoBinaryTodos
<1>7. CASE todo = <<"tiles", "metadata", "before", "after", "agg">>
  <2>1. Head(todo) = "tiles" /\ Tail(todo) = <<"metadata", "before", "after", "agg">>
    BY <1>7
  <2>2. Head(<<"metadata", "before", "after", "agg">>) = "metadata"
    OBVIOUS
  <2> QED BY <1>7, <2>1, <2>2 DEF DiffTodos, NoBinaryTodos
<1>8. CASE todo = <<"tiles", "metadata", "binary", "before", "after", "agg">>
  <2>1. /\ Head(todo) = "tiles"
        /\ Tail(todo) = <<"metadata", "binary", "before", "after", "agg">>
    BY <1>8
  <2>2. Head(<<"metadata", "binary", "before", "after", "agg">>) = "metadata"
    OBVIOUS
  <2> QED BY <1>8, <2>1, <2>2 DEF DiffTodos, NoBinaryTodos
<1>9. CASE todo = <<"images", "tiles", "metadata", "before", "after", "agg">>
  <2>1. /\ Head(todo) = "images"
        /\ Tail(todo) = <<"tiles", "metadata", "before", "after", "agg">>
    BY <1>9
  <2>2. Head(<<"tiles", "metadata", "before", "after", "agg">>) = "tiles"
    OBVIOUS
  <2> QED BY <1>9, <2>1, <2>2 DEF DiffTodos, NoBinaryTodos
<1> QED BY <1>1, <1>2, <1>3, <1>4, <1>5, <1>6, <1>7, <1>8, <1>9 DEF DiffTodos

LEMMA PatchGoesOn ==
  ASSUME NEW todo \in PatchTodos
  PROVE  /\ todo # <<>>
         /\ Head(todo) \in {"images", "tiles", "metadata", "binary", "agg", "check"}
         /\ Head(todo) = "check" <=> Tail(todo) = <<>>
         /\ Tail(todo) # <<>> => Tail(todo) \in PatchTodos
         /\ Head(todo) = "images" => Head(Tail(todo)) = "tiles"
         /\ Head(todo) = "tiles" => Head(Tail(todo)) = "metadata"
         /\ Head(todo) = "metadata" => Head(Tail(todo)) \in {"binary", "agg"}
         /\ Head(todo) = "binary" => todo \in BinaryTodos /\ Head(Tail(todo)) = "agg"
         /\ Head(todo) = "agg" => Head(Tail(todo)) = "check"
         /\ Tail(todo) \in BinaryTodos => todo \in BinaryTodos
<1>1. CASE todo = <<"check">>
  <2>1. Head(todo) = "check" /\ Tail(todo) = <<>>
    BY <1>1
  <2> QED BY <1>1, <2>1 DEF PatchTodos, BinaryTodos
<1>2. CASE todo = <<"agg", "check">>
  <2>1. Head(todo) = "agg" /\ Tail(todo) = <<"check">>
    BY <1>2
  <2>2. Head(<<"check">>) = "check"
    OBVIOUS
  <2> QED BY <1>2, <2>1, <2>2 DEF PatchTodos, BinaryTodos
<1>3. CASE todo = <<"binary", "agg", "check">>
  <2>1. Head(todo) = "binary" /\ Tail(todo) = <<"agg", "check">>
    BY <1>3
  <2>2. Head(<<"agg", "check">>) = "agg"
    OBVIOUS
  <2> QED BY <1>3, <2>1, <2>2 DEF PatchTodos, BinaryTodos
<1>4. CASE todo = <<"metadata", "agg", "check">>
  <2>1. Head(todo) = "metadata" /\ Tail(todo) = <<"agg", "check">>
    BY <1>4
  <2>2. Head(<<"agg", "check">>) = "agg"
    OBVIOUS
  <2> QED BY <1>4, <2>1, <2>2 DEF PatchTodos, BinaryTodos
<1>5. CASE todo = <<"metadata", "binary", "agg", "check">>
  <2>1. Head(todo) = "metadata" /\ Tail(todo) = <<"binary", "agg", "check">>
    BY <1>5
  <2>2. Head(<<"binary", "agg", "check">>) = "binary"
    OBVIOUS
  <2> QED BY <1>5, <2>1, <2>2 DEF PatchTodos, BinaryTodos
<1>6. CASE todo = <<"tiles", "metadata", "agg", "check">>
  <2>1. Head(todo) = "tiles" /\ Tail(todo) = <<"metadata", "agg", "check">>
    BY <1>6
  <2>2. Head(<<"metadata", "agg", "check">>) = "metadata"
    OBVIOUS
  <2> QED BY <1>6, <2>1, <2>2 DEF PatchTodos, BinaryTodos
<1>7. CASE todo = <<"tiles", "metadata", "binary", "agg", "check">>
  <2>1. Head(todo) = "tiles" /\ Tail(todo) = <<"metadata", "binary", "agg", "check">>
    BY <1>7
  <2>2. Head(<<"metadata", "binary", "agg", "check">>) = "metadata"
    OBVIOUS
  <2> QED BY <1>7, <2>1, <2>2 DEF PatchTodos, BinaryTodos
<1>8. CASE todo = <<"images", "tiles", "metadata", "agg", "check">>
  <2>1. Head(todo) = "images" /\ Tail(todo) = <<"tiles", "metadata", "agg", "check">>
    BY <1>8
  <2>2. Head(<<"tiles", "metadata", "agg", "check">>) = "tiles"
    OBVIOUS
  <2> QED BY <1>8, <2>1, <2>2 DEF PatchTodos, BinaryTodos
<1> QED BY <1>1, <1>2, <1>3, <1>4, <1>5, <1>6, <1>7, <1>8 DEF PatchTodos

LEMMA ApplyGoesOn ==
  ASSUME NEW todo \in ApplyTodos
  PROVE  /\ todo # <<>>
         /\ Head(todo) \in {"upsert", "upsert_images", "delete", "collect", "replace", "forget"}
         /\ Head(todo) = "forget" <=> Tail(todo) = <<>>
         /\ Tail(todo) # <<>> => Tail(todo) \in ApplyTodos
         /\ Tail(todo) # <<"upsert", "delete", "replace", "forget">>
         /\ Head(todo) = "upsert" => Head(Tail(todo)) \in {"upsert_images", "delete"}
         /\ Head(todo) = "upsert" /\ Head(Tail(todo)) = "delete" =>
              todo = <<"upsert", "delete", "replace", "forget">>
         /\ Head(todo) = "upsert_images" => Head(Tail(todo)) = "delete"
         /\ Head(todo) = "delete" => Head(Tail(todo)) \in {"collect", "replace"}
         /\ Head(todo) = "collect" => Head(Tail(todo)) = "replace"
         /\ Head(todo) = "replace" => Head(Tail(todo)) = "forget"
<1>1. CASE todo = <<"forget">>
  <2>1. Head(todo) = "forget" /\ Tail(todo) = <<>>
    BY <1>1
  <2> QED BY <1>1, <2>1 DEF ApplyTodos
<1>2. CASE todo = <<"replace", "forget">>
  <2>1. Head(todo) = "replace" /\ Tail(todo) = <<"forget">>
    BY <1>2
  <2>2. Head(<<"forget">>) = "forget"
    OBVIOUS
  <2> QED BY <1>2, <2>1, <2>2 DEF ApplyTodos
<1>3. CASE todo = <<"collect", "replace", "forget">>
  <2>1. Head(todo) = "collect" /\ Tail(todo) = <<"replace", "forget">>
    BY <1>3
  <2>2. Head(<<"replace", "forget">>) = "replace"
    OBVIOUS
  <2> QED BY <1>3, <2>1, <2>2 DEF ApplyTodos
<1>4. CASE todo = <<"delete", "replace", "forget">>
  <2>1. Head(todo) = "delete" /\ Tail(todo) = <<"replace", "forget">>
    BY <1>4
  <2>2. Head(<<"replace", "forget">>) = "replace"
    OBVIOUS
  <2> QED BY <1>4, <2>1, <2>2 DEF ApplyTodos
<1>5. CASE todo = <<"delete", "collect", "replace", "forget">>
  <2>1. Head(todo) = "delete" /\ Tail(todo) = <<"collect", "replace", "forget">>
    BY <1>5
  <2>2. Head(<<"collect", "replace", "forget">>) = "collect"
    OBVIOUS
  <2> QED BY <1>5, <2>1, <2>2 DEF ApplyTodos
<1>6. CASE todo = <<"upsert_images", "delete", "collect", "replace", "forget">>
  <2>1. /\ Head(todo) = "upsert_images"
        /\ Tail(todo) = <<"delete", "collect", "replace", "forget">>
    BY <1>6
  <2>2. Head(<<"delete", "collect", "replace", "forget">>) = "delete"
    OBVIOUS
  <2> QED BY <1>6, <2>1, <2>2 DEF ApplyTodos
<1>7. CASE todo = <<"upsert", "delete", "replace", "forget">>
  <2>1. Head(todo) = "upsert" /\ Tail(todo) = <<"delete", "replace", "forget">>
    BY <1>7
  <2>2. Head(<<"delete", "replace", "forget">>) = "delete"
    OBVIOUS
  <2> QED BY <1>7, <2>1, <2>2 DEF ApplyTodos
<1>8. CASE todo = <<"upsert", "upsert_images", "delete", "collect", "replace", "forget">>
  <2>1. /\ Head(todo) = "upsert"
        /\ Tail(todo) = <<"upsert_images", "delete", "collect", "replace", "forget">>
    BY <1>8
  <2>2. Head(<<"upsert_images", "delete", "collect", "replace", "forget">>) = "upsert_images"
    OBVIOUS
  <2> QED BY <1>8, <2>1, <2>2 DEF ApplyTodos
<1> QED BY <1>1, <1>2, <1>3, <1>4, <1>5, <1>6, <1>7, <1>8 DEF ApplyTodos

-----------------------------------------------------------------------------
(* Copy: a statement leaves a file that the rest of the command fits.      *)

CopyGoes(src, g, mode, todo) ==
  /\ Fit(g)
  /\ IF Tail(todo) = <<>> THEN SoundFile(g) ELSE CopyOk(src, g, mode, Tail(todo))

LEMMA NoPatch ==
  ASSUME NEW f, Shaped(f), f.before = {} \/ f.after = {}
  PROVE  Fit(f) /\ ~IsPatch(f)
  BY DEF Fit, IsPatch

LEMMA WholeIsFit ==
  ASSUME NEW f, Shaped(f), Whole(f)
  PROVE  Fit(f) /\ ~IsPatch(f)
  BY NoPatch DEF Whole

LEMMA CopyImagesGoes ==
  ASSUME NEW src, NEW dst, NEW mode, NEW todo, Fit(src), SoundFile(src), Fit(dst),
         CopyOk(src, dst, mode, todo), Head(todo) = "images"
  PROVE  CopyGoes(src, [dst EXCEPT !.images = Overlay(Images(HashedTiles(src)), dst.images)],
                  mode, todo)
<1> DEFINE sel == HashedTiles(src)
           g == [dst EXCEPT !.images = Overlay(Images(sel), dst.images)]
<1>1. /\ Tail(todo) # <<>> /\ Tail(todo) \in CopyTodos /\ Head(Tail(todo)) = "tiles"
      /\ Tail(todo) = <<"tiles", "agg">> => todo = <<"images", "tiles", "agg">>
  BY CopyGoesOn DEF CopyOk
<1>2. Shaped(dst) /\ Shaped(src) /\ dst.type \in Schemas /\ Linked(dst)
  BY DEF CopyOk, Fit
<1>3. IsSelection(sel)
  BY <1>2, HashedSelection
<1>4. g.type = dst.type /\ g.rows = dst.rows /\ g.before = dst.before /\ g.after = dst.after
  BY <1>2 DEF Shaped, NoFile
<1>5. /\ Shaped(g) /\ ImagesFor(g, sel)
      /\ Linked(dst) => Linked(g)
      /\ Whole(dst) => Whole(g)
  <2> DEFINE images == Overlay(Images(sel), dst.images)
  <2>1. images \in {Overlay(Images(sel), dst.images), Overlay(dst.images, Images(sel))}
    OBVIOUS
  <2> HIDE DEF images, sel
  <2> QED BY <1>2, <1>3, <2>1, ImagesAdded DEF images
<1> HIDE DEF g
<1>6. Fit(g)
  <2>1. CASE Whole(src)
    BY <1>5, <2>1, WholeIsFit DEF CopyOk
  <2>2. CASE IsPatch(src)
    BY <1>4, <1>5, <2>2, NoPatch DEF CopyOk
  <2> QED BY <2>1, <2>2 DEF SoundFile
<1>7. CopyOk(src, g, mode, Tail(todo))
  <2>1. g.type \in Schemas /\ Linked(g) /\ ImagesFor(g, HashedTiles(src))
    BY <1>2, <1>4, <1>5
  <2>2. Whole(src) => Whole(g)
    BY <1>5 DEF CopyOk
  <2>3. IsPatch(src) =>
          /\ mode = "override"
          /\ Tail(todo) \notin {<<"tiles", "agg">>, <<"images", "tiles", "agg">>}
          /\ g.type \in Normalized => HashedNulls(src)
          /\ g.before = {} /\ g.after = {} /\ DOMAIN g.rows = {}
    <3> SUFFICES ASSUME IsPatch(src)
                 PROVE  /\ mode = "override"
                        /\ Tail(todo) \notin {<<"tiles", "agg">>, <<"images", "tiles", "agg">>}
                        /\ g.type \in Normalized => HashedNulls(src)
                        /\ g.before = {} /\ g.after = {} /\ DOMAIN g.rows = {}
      OBVIOUS
    <3>1. /\ mode = "override" /\ todo \notin {<<"tiles", "agg">>, <<"images", "tiles", "agg">>}
          /\ dst.type \in Normalized => HashedNulls(src)
          /\ dst.before = {} /\ dst.after = {} /\ DOMAIN dst.rows = {}
      BY DEF CopyOk
    <3>2. Tail(todo) # <<"images", "tiles", "agg">>
      <4>1. Head(<<"images", "tiles", "agg">>) = "images"
        OBVIOUS
      <4> QED BY <1>1, <4>1
    <3> QED BY <1>1, <1>4, <3>1, <3>2
  <2> QED BY <1>1, <2>1, <2>2, <2>3 DEF CopyOk
<1> QED BY <1>1, <1>6, <1>7 DEF CopyGoes, g

\* The rows of a selection that a mode lets through.
Part(new, sel) == DOMAIN new \subseteq DOMAIN sel /\ \A c \in DOMAIN new : new[c] = sel[c]

LEMMA InsertTakes ==
  ASSUME NEW f, NEW sel, NEW new, Part(new, sel), NEW mode \in Modes,
         NEW t \in Insert(f.rows, [c \in DOMAIN new |-> Stored(f.type, new[c])], mode)
  PROVE  Takes(t, f, sel)
<1> DEFINE stored == [c \in DOMAIN new |-> Stored(f.type, new[c])]
<1>1. DOMAIN stored = DOMAIN new /\ \A c \in DOMAIN new : stored[c] = Stored(f.type, sel[c])
  BY DEF Part
<1>2. t \in Insert(f.rows, stored, mode)
  OBVIOUS
<1> HIDE DEF stored
<1>3. ASSUME NEW c \in DOMAIN t
      PROVE  \/ c \in DOMAIN stored /\ t[c] = stored[c]
             \/ c \in DOMAIN f.rows /\ t[c] = f.rows[c]
    BY <1>2, InsertedAt
<1> QED BY <1>1, <1>3 DEF Takes, Part

LEMMA CopyTilesGoes ==
  ASSUME NEW src, NEW dst, NEW mode \in Modes, NEW todo, Fit(src), SoundFile(src), Fit(dst),
         CopyOk(src, dst, mode, todo), Head(todo) = "tiles",
         NEW new, Part(new, HashedTiles(src)), mode # "abort" => new = HashedTiles(src),
         NEW t \in Insert(dst.rows, [c \in DOMAIN new |-> Stored(dst.type, new[c])], mode)
  PROVE  CopyGoes(src, [dst EXCEPT !.rows = t], mode, todo)
<1> DEFINE sel == HashedTiles(src)
           g == [dst EXCEPT !.rows = t]
<1>1. /\ Tail(todo) # <<>> /\ Tail(todo) \in CopyTodos /\ Head(Tail(todo)) \in {"metadata", "agg"}
      /\ Head(Tail(todo)) = "agg" => todo = <<"tiles", "agg">>
  BY CopyGoesOn DEF CopyOk
<1>2. /\ Shaped(dst) /\ Shaped(src) /\ dst.type \in Schemas /\ Linked(dst)
      /\ ImagesFor(dst, sel)
  BY DEF CopyOk, Fit
<1>3. IsSelection(sel) /\ DOMAIN sel = DOMAIN Tiles(src)
      /\ \A c \in DOMAIN Tiles(src) : sel[c].data = Tiles(src)[c]
  BY <1>2, HashedSelection
<1> HIDE DEF sel
<1>4. /\ g.type = dst.type /\ g.rows = t /\ g.images = dst.images
      /\ g.before = dst.before /\ g.after = dst.after
  BY <1>2 DEF Shaped, NoFile
<1>5. Takes(t, dst, sel)
  BY InsertTakes DEF sel
<1>6. Shaped(g) /\ Linked(g)
  BY <1>2, <1>3, <1>5, RowsTaken, RowsLinked
<1>7. ASSUME Whole(src) PROVE Whole(g)
  <2>1. \A c \in DOMAIN sel : sel[c].data \in Data
    BY <1>2, <1>3, <1>7, WholeView, TileSetIs
  <2>2. Whole(dst)
    BY <1>7 DEF CopyOk
  <2> QED BY <1>2, <1>3, <1>5, <2>1, <2>2, RowsWhole
<1>8. ASSUME IsPatch(src)
      PROVE  /\ mode = "override" /\ Head(Tail(todo)) = "metadata"
             /\ g.type \in Normalized => HashedNulls(src)
             /\ g.before = {} /\ g.after = {} /\ Tiles(g) = Tiles(src)
  <2>1. /\ mode = "override" /\ todo # <<"tiles", "agg">>
        /\ dst.type \in Normalized => HashedNulls(src)
        /\ dst.before = {} /\ dst.after = {} /\ DOMAIN dst.rows = {}
    BY <1>8 DEF CopyOk
  <2>2. t \in Insert(dst.rows, [c \in DOMAIN sel |-> Stored(dst.type, sel[c])], mode)
    BY <2>1 DEF sel
  <2>3. DOMAIN t = DOMAIN sel /\ \A c \in DOMAIN sel : t[c] = Stored(dst.type, sel[c])
    <3> DEFINE stored == [c \in DOMAIN sel |-> Stored(dst.type, sel[c])]
    <3>1. DOMAIN stored = DOMAIN sel /\ \A c \in DOMAIN sel : stored[c] = Stored(dst.type, sel[c])
      OBVIOUS
    <3>2. t \in Insert(dst.rows, stored, mode)
      BY <2>2
    <3> HIDE DEF stored
    <3>3. DOMAIN t = DOMAIN dst.rows \cup DOMAIN stored
      BY <3>2, InsertedDomain
    <3>4. ASSUME NEW c \in DOMAIN stored PROVE t[c] = stored[c]
      BY <2>1, <3>2, <3>3, InsertedAt
    <3> QED BY <2>1, <3>1, <3>3, <3>4
  <2>4. dst.type \in Normalized => \A c \in DOMAIN sel : sel[c].hash # Null
    <3> SUFFICES ASSUME dst.type \in Normalized, NEW c \in DOMAIN sel PROVE sel[c].hash # Null
      OBVIOUS
    <3>1. CASE Tiles(src)[c] = Null
      BY <1>3, <2>1, <3>1 DEF HashedNulls, sel
    <3>2. CASE Tiles(src)[c] # Null
      BY <1>3, <3>2, HashFacts DEF IsSelection, IsHashedRow, HashesOf
    <3> QED BY <3>1, <3>2
  <2>5. DOMAIN Tiles(g) = DOMAIN sel /\ \A c \in DOMAIN sel : Tiles(g)[c] = sel[c].data
    BY <1>2, <1>3, <2>1, <2>3, <2>4, SelectionLaid
  <2>6. Tiles(g) = Tiles(src)
    BY <1>3, <2>5, ViewIsMap
  <2> QED BY <1>1, <1>4, <2>1, <2>6
<1> HIDE DEF g
<1>9. Fit(g)
  <2>1. CASE Whole(src)
    BY <1>6, <1>7, <2>1, WholeIsFit
  <2>2. CASE IsPatch(src)
    BY <1>6, <1>8, <2>2, NoPatch
  <2> QED BY <2>1, <2>2 DEF SoundFile
<1>10. CopyOk(src, g, mode, Tail(todo))
  <2>1. g.type \in Schemas
    BY <1>2, <1>4
  <2>2. Tail(todo) \notin {<<"tiles", "agg">>, <<"images", "tiles", "agg">>}
    <3>1. Head(<<"tiles", "agg">>) = "tiles" /\ Head(<<"images", "tiles", "agg">>) = "images"
      OBVIOUS
    <3> QED BY <1>1, <3>1
  <2>3. Head(Tail(todo)) \notin {"tiles", "images"}
    BY <1>1
  <2> QED BY <1>1, <1>6, <1>7, <1>8, <2>1, <2>2, <2>3 DEF CopyOk
<1> QED BY <1>1, <1>9, <1>10 DEF CopyGoes, g

LEMMA CopyMetadataGoes ==
  ASSUME NEW src, NEW dst, NEW mode, NEW todo, Fit(src), SoundFile(src), Fit(dst),
         ~HasBinary(src), CopyOk(src, dst, mode, todo), Head(todo) = "metadata",
         NEW g, HasFields(g), SameTables(g, dst), g.binary = dst.binary,
         IF src.before = {} THEN g.before = dst.before
         ELSE dst.before = {} => g.before = src.before,
         IF src.after = {} THEN g.after = dst.after
         ELSE dst.after = {} => g.after = src.after
  PROVE  CopyGoes(src, g, mode, todo)
<1>1. /\ Tail(todo) # <<>> /\ Tail(todo) \in CopyTodos /\ Head(Tail(todo)) = "agg"
  BY CopyGoesOn DEF CopyOk
<1>2. /\ Shaped(dst) /\ Shaped(src) /\ dst.type \in Schemas /\ Linked(dst)
  BY DEF CopyOk, Fit
<1>3. Shaped(g)
  BY <1>2, SameShape DEF Schemas
<1>4. Tiles(g) = Tiles(dst) /\ Linked(g) /\ g.type \in Schemas
  BY <1>2, SameView DEF SameTables
<1>5. ASSUME Whole(src) PROVE Whole(g)
  <2>1. Whole(dst)
    BY <1>5 DEF CopyOk
  <2>2. g.before = {} /\ g.after = {}
    BY <1>5, <2>1 DEF Whole
  <2> QED BY <2>1, <2>2, SameWhole
<1>6. ASSUME IsPatch(src)
      PROVE  /\ mode = "override" /\ Tail(todo) \notin {<<"tiles", "agg">>, <<"images", "tiles", "agg">>}
             /\ g.type \in Normalized => HashedNulls(src)
             /\ Tiles(g) = Tiles(src) /\ g.before = src.before /\ g.after = src.after
  <2>1. /\ mode = "override"
        /\ dst.type \in Normalized => HashedNulls(src)
        /\ dst.before = {} /\ dst.after = {} /\ Tiles(dst) = Tiles(src)
    BY <1>6 DEF CopyOk
  <2>2. Tail(todo) \notin {<<"tiles", "agg">>, <<"images", "tiles", "agg">>}
    <3>1. Head(<<"tiles", "agg">>) = "tiles" /\ Head(<<"images", "tiles", "agg">>) = "images"
      OBVIOUS
    <3> QED BY <1>1, <3>1
  <2>3. g.before = src.before /\ g.after = src.after
    BY <1>6, <2>1 DEF IsPatch
  <2>4. Tiles(g) = Tiles(src) /\ g.type = dst.type
    BY <1>4, <2>1 DEF SameTables
  <2> QED BY <2>1, <2>2, <2>3, <2>4
<1>7. Fit(g)
  <2>1. CASE Whole(src)
    BY <1>3, <1>5, <2>1, WholeIsFit
  <2>2. CASE IsPatch(src)
    <3>1. MeansPatch(src)
      BY <2>2 DEF Fit
    <3>2. MeansPatch(g)
      BY <1>6, <2>2, <3>1 DEF MeansPatch, Turns
    <3> QED BY <1>3, <3>2 DEF Fit
  <2> QED BY <2>1, <2>2 DEF SoundFile
<1>8. CopyOk(src, g, mode, Tail(todo))
  BY <1>1, <1>4, <1>5, <1>6 DEF CopyOk
<1> QED BY <1>1, <1>7, <1>8 DEF CopyGoes

\* A file whose hash was computed is sound.
LEMMA AggGoes ==
  ASSUME NEW f, Fit(f), f.type \in Schemas, Linked(f), Whole(f) \/ IsPatch(f)
  PROVE  Fit(UpdateAggHash(f)) /\ SoundFile(UpdateAggHash(f))
<1> DEFINE g == UpdateAggHash(f)
<1>1. /\ HasFields(g) /\ SameTables(g, f) /\ g.binary = f.binary
      /\ g.before = f.before /\ g.after = f.after /\ g.agg = {Tiles(f)}
  BY DEF UpdateAggHash, AggHash, Fit, Shaped, NoFile, HasFields, SameTables
<1> HIDE DEF g
<1>2. Shaped(g)
  BY <1>1, SameShape DEF Fit, Schemas
<1>3. Tiles(g) = Tiles(f) /\ (Linked(g) <=> Linked(f))
  BY <1>1, SameView
<1>4. ASSUME Whole(f) PROVE Whole(g)
  BY <1>1, <1>4, SameWhole DEF Whole
<1>5. IsPatch(g) <=> IsPatch(f)
  BY <1>1 DEF IsPatch
<1>6. Fit(g)
  BY <1>1, <1>2, <1>3, <1>5 DEF Fit, HasBinary, MeansPatch, Turns
<1>7. SoundFile(g)
  BY <1>1, <1>3, <1>4, <1>5 DEF SoundFile
<1> QED BY <1>6, <1>7 DEF g

LEMMA CopyAggGoes ==
  ASSUME NEW src, NEW dst, NEW mode, NEW todo, Fit(src), SoundFile(src), Fit(dst),
         CopyOk(src, dst, mode, todo), Head(todo) = "agg"
  PROVE  CopyGoes(src, UpdateAggHash(dst), mode, todo)
<1>1. Tail(todo) = <<>>
  BY CopyGoesOn DEF CopyOk
<1>2. Whole(dst) \/ IsPatch(dst)
  BY DEF SoundFile, CopyOk, IsPatch
<1>3. Fit(UpdateAggHash(dst)) /\ SoundFile(UpdateAggHash(dst))
  BY <1>2, AggGoes DEF CopyOk
<1> QED BY <1>1, <1>3 DEF CopyGoes

-----------------------------------------------------------------------------
(* Diff, likewise.                                                         *)

DiffGoes(src, dif, g, binary, todo) ==
  /\ Fit(g)
  /\ IF Tail(todo) = <<>> THEN SoundFile(g) ELSE DiffOk(src, dif, g, binary, Tail(todo))

Diffable(f) == Fit(f) /\ SoundFile(f) /\ CanBeDiffed(f)

LEMMA DiffableFile ==
  ASSUME NEW f, Diffable(f)
  PROVE  /\ Shaped(f) /\ Whole(f)
         /\ Tiles(f) \in TileSets /\ f.agg = {Tiles(f)}
<1>1. Shaped(f) /\ f.agg \subseteq {Tiles(f)} /\ f.agg # {} /\ Whole(f)
  BY DEF Diffable, Fit, SoundFile, CanBeDiffed, IsPatch
<1> QED BY <1>1, WholeView

LEMMA DiffImagesGoes ==
  ASSUME NEW src, NEW dif, NEW dst, NEW binary \in BOOLEAN, NEW todo,
         Diffable(src), Diffable(dif), Fit(dst),
         DiffOk(src, dif, dst, binary, todo), Head(todo) = "images"
  PROVE  DiffGoes(src, dif,
                  [dst EXCEPT !.images = Overlay(Images(Difference(src, dif, binary)), dst.images)],
                  binary, todo)
<1> DEFINE sel == Difference(src, dif, binary)
           images == Overlay(Images(sel), dst.images)
           g == [dst EXCEPT !.images = images]
<1>1. /\ Tail(todo) # <<>> /\ Tail(todo) \in DiffTodos /\ Head(Tail(todo)) = "tiles"
      /\ Tail(todo) \in NoBinaryTodos => todo \in NoBinaryTodos
  BY DiffGoesOn DEF DiffOk
<1>2. /\ Shaped(dst) /\ dst.type \in Schemas /\ Linked(dst) /\ DOMAIN dst.rows = {}
      /\ dst.before = {} /\ dst.after = {} /\ (todo \in NoBinaryTodos => ~binary)
  BY DEF DiffOk, Fit
<1>3. IsSelection(sel)
  BY DiffableFile, DifferenceSelection
<1>4. g.type = dst.type /\ g.rows = dst.rows /\ g.before = dst.before /\ g.after = dst.after
  BY <1>2 DEF Shaped, NoFile
<1>5. Shaped(g) /\ ImagesFor(g, sel) /\ Linked(g)
  <2>1. images \in {Overlay(Images(sel), dst.images), Overlay(dst.images, Images(sel))}
    OBVIOUS
  <2> HIDE DEF images, sel
  <2> QED BY <1>2, <1>3, <2>1, ImagesAdded DEF images
<1> HIDE DEF g
<1>6. Fit(g)
  BY <1>2, <1>4, <1>5, NoPatch
<1>7. DiffOk(src, dif, g, binary, Tail(todo))
  BY <1>1, <1>2, <1>4, <1>5 DEF DiffOk
<1> QED BY <1>1, <1>6, <1>7 DEF DiffGoes, g

LEMMA DiffTilesGoes ==
  ASSUME NEW src, NEW dif, NEW dst, NEW binary \in BOOLEAN, NEW todo,
         Diffable(src), Diffable(dif), Fit(dst),
         DiffOk(src, dif, dst, binary, todo), Head(todo) = "tiles",
         NEW sel, sel = Difference(src, dif, binary), NEW t,
         t \in Insert(dst.rows, [c \in DOMAIN sel |-> Stored(dst.type, sel[c])], "override")
  PROVE  DiffGoes(src, dif, [dst EXCEPT !.rows = t], binary, todo)
<1> DEFINE g == [dst EXCEPT !.rows = t]
<1>1. /\ Tail(todo) # <<>> /\ Tail(todo) \in DiffTodos /\ Head(Tail(todo)) = "metadata"
      /\ Tail(todo) \in NoBinaryTodos => todo \in NoBinaryTodos
  BY DiffGoesOn DEF DiffOk
<1>2. /\ Shaped(dst) /\ dst.type \in Schemas /\ Linked(dst) /\ DOMAIN dst.rows = {}
      /\ dst.before = {} /\ dst.after = {} /\ (todo \in NoBinaryTodos => ~binary)
      /\ ImagesFor(dst, sel)
  BY DEF DiffOk, Fit
<1>3. /\ Shaped(src) /\ Tiles(src) \in TileSets
      /\ Shaped(dif) /\ Tiles(dif) \in TileSets
  BY DiffableFile
<1>4. /\ IsSelection(sel) /\ \A c \in DOMAIN sel : sel[c].hash # Null
      /\ ~binary => \A c \in Coords :
           /\ c \in DOMAIN sel <=> TileAt(Tiles(src), c) # TileAt(Tiles(dif), c)
           /\ c \in DOMAIN sel => sel[c].data = TileAt(Tiles(dif), c)
  BY <1>3, DifferenceSelection
<1>5. /\ g.type = dst.type /\ g.before = dst.before /\ g.after = dst.after
  BY <1>2 DEF Shaped, NoFile
<1>6. DOMAIN t = DOMAIN sel /\ \A c \in DOMAIN sel : t[c] = Stored(dst.type, sel[c])
  <2> DEFINE stored == [c \in DOMAIN sel |-> Stored(dst.type, sel[c])]
  <2>1. DOMAIN stored = DOMAIN sel /\ \A c \in DOMAIN sel : stored[c] = Stored(dst.type, sel[c])
    OBVIOUS
  <2>2. t \in Insert(dst.rows, stored, "override")
    OBVIOUS
  <2> HIDE DEF stored
  <2>3. DOMAIN t = DOMAIN dst.rows \cup DOMAIN stored
    BY <2>2, InsertedDomain DEF Modes
  <2>4. ASSUME NEW c \in DOMAIN stored PROVE t[c] = stored[c]
    BY <2>2, <2>3, InsertedAt DEF Modes
  <2> QED BY <1>2, <2>1, <2>3, <2>4
<1>7. /\ Shaped(g) /\ Linked(g)
      /\ DOMAIN Tiles(g) = DOMAIN sel
      /\ \A c \in DOMAIN sel : Tiles(g)[c] = sel[c].data
  BY <1>2, <1>4, <1>6, SelectionLaid
<1> HIDE DEF g
<1>8. ~binary => Turns(g, Tiles(src), Tiles(dif))
  BY <1>4, <1>7 DEF Turns
<1>9. Fit(g)
  BY <1>2, <1>5, <1>7, NoPatch
<1>10. DiffOk(src, dif, g, binary, Tail(todo))
  BY <1>1, <1>2, <1>5, <1>7, <1>8 DEF DiffOk
<1> QED BY <1>1, <1>9, <1>10 DEF DiffGoes, g

LEMMA DiffMetadataGoes ==
  ASSUME NEW src, NEW dif, NEW dst, NEW binary \in BOOLEAN, NEW todo,
         Diffable(src), Diffable(dif), Fit(dst), DiffOk(src, dif, dst, binary, todo),
         Head(todo) \in {"metadata", "before", "after"},
         NEW g, HasFields(g), SameTables(g, dst), g.binary = dst.binary,
         g.before = IF Head(todo) = "before" THEN src.agg ELSE dst.before,
         g.after = IF Head(todo) = "after" THEN dif.agg ELSE dst.after
  PROVE  DiffGoes(src, dif, g, binary, todo)
<1>1. /\ Tail(todo) # <<>> /\ Tail(todo) \in DiffTodos
      /\ Tail(todo) \in NoBinaryTodos => todo \in NoBinaryTodos
      /\ Head(todo) = "metadata" => Head(Tail(todo)) \in {"binary", "before"}
      /\ Head(todo) = "metadata" /\ Head(Tail(todo)) = "before" => todo \in NoBinaryTodos
      /\ Head(todo) = "before" => Head(Tail(todo)) = "after"
      /\ Head(todo) = "after" => Head(Tail(todo)) = "agg"
  BY DiffGoesOn DEF DiffOk
<1>2. /\ Shaped(dst) /\ dst.type \in Schemas /\ Linked(dst)
      /\ todo \in NoBinaryTodos => ~binary
      /\ ~binary => Turns(dst, Tiles(src), Tiles(dif))
      /\ Head(todo) \in {"before", "after"} /\ binary => HasBinary(dst)
      /\ dst.before = IF Head(todo) = "after" THEN src.agg ELSE {}
      /\ dst.after = {}
  BY DEF DiffOk, Fit
<1>3. Shaped(g)
  BY <1>2, SameShape DEF Schemas
<1>4. /\ Linked(g) /\ g.type \in Schemas /\ (HasBinary(g) <=> HasBinary(dst))
      /\ ~binary => Turns(g, Tiles(src), Tiles(dif))
  BY <1>2, SameView DEF SameTables, HasBinary
<1>5. /\ Tiles(src) \in TileSets /\ src.agg = {Tiles(src)}
      /\ Tiles(dif) \in TileSets /\ dif.agg = {Tiles(dif)}
  BY DiffableFile
<1>6. Fit(g)
  <2>1. CASE Head(todo) # "after"
    BY <1>2, <1>3, <2>1, NoPatch
  <2>2. CASE Head(todo) = "after"
    <3>1. g.before = {Tiles(src)} /\ g.after = {Tiles(dif)}
      BY <1>2, <1>5, <2>2
    <3>2. ~HasBinary(g) => MeansPatch(g)
      BY <1>2, <1>4, <1>5, <2>2, <3>1 DEF MeansPatch
    <3> QED BY <1>3, <3>2 DEF Fit
  <2> QED BY <2>1, <2>2
<1>7. DiffOk(src, dif, g, binary, Tail(todo))
  BY <1>1, <1>2, <1>4 DEF DiffOk
<1> QED BY <1>1, <1>6, <1>7 DEF DiffGoes

LEMMA DiffBinaryGoes ==
  ASSUME NEW src, NEW dif, NEW dst, NEW binary \in BOOLEAN, NEW todo,
         Fit(dst), DiffOk(src, dif, dst, binary, todo), Head(todo) = "binary",
         NEW patches, \A c \in DOMAIN patches : c \in Coords /\ patches[c].to \in Data
  PROVE  DiffGoes(src, dif, [dst EXCEPT !.binary = {patches}], binary, todo)
<1> DEFINE g == [dst EXCEPT !.binary = {patches}]
<1>1. /\ Tail(todo) # <<>> /\ Tail(todo) \in DiffTodos /\ Head(Tail(todo)) = "before"
      /\ Tail(todo) \in NoBinaryTodos => todo \in NoBinaryTodos
  BY DiffGoesOn DEF DiffOk
<1>2. /\ Shaped(dst) /\ dst.type \in Schemas /\ Linked(dst)
      /\ todo \in NoBinaryTodos => ~binary
      /\ ~binary => Turns(dst, Tiles(src), Tiles(dif))
      /\ dst.before = {} /\ dst.after = {}
  BY DEF DiffOk, Fit
<1>3. /\ HasFields(g) /\ SameTables(g, dst) /\ g.binary = {patches}
      /\ g.before = dst.before /\ g.after = dst.after
  BY <1>2 DEF Shaped, NoFile, HasFields, SameTables
<1> HIDE DEF g
<1>4. Shaped(g)
  BY <1>2, <1>3 DEF Shaped, HasFields, SameTables, Schemas
<1>5. /\ Linked(g) /\ g.type \in Schemas /\ HasBinary(g)
      /\ ~binary => Turns(g, Tiles(src), Tiles(dif))
  BY <1>2, <1>3, SameView DEF SameTables, HasBinary
<1>6. Fit(g)
  BY <1>2, <1>3, <1>4, NoPatch
<1>7. DiffOk(src, dif, g, binary, Tail(todo))
  BY <1>1, <1>2, <1>3, <1>5 DEF DiffOk
<1> QED BY <1>1, <1>6, <1>7 DEF DiffGoes, g

LEMMA DiffAggGoes ==
  ASSUME NEW src, NEW dif, NEW dst, NEW binary \in BOOLEAN, NEW todo,
         Diffable(src), Diffable(dif), Fit(dst),
         DiffOk(src, dif, dst, binary, todo), Head(todo) = "agg"
  PROVE  DiffGoes(src, dif, UpdateAggHash(dst), binary, todo)
<1>1. Tail(todo) = <<>>
  BY DiffGoesOn DEF DiffOk
<1>2. IsPatch(dst)
  BY DiffableFile DEF DiffOk, IsPatch
<1>3. Fit(UpdateAggHash(dst)) /\ SoundFile(UpdateAggHash(dst))
  BY <1>2, AggGoes DEF DiffOk
<1> QED BY <1>1, <1>3 DEF DiffGoes

-----------------------------------------------------------------------------
(* Copy with a patch, likewise.                                            *)

PatchGoes(src, dif, g, todo) ==
  /\ Fit(g)
  /\ IF Tail(todo) = <<>> THEN SoundFile(g) ELSE PatchOk(src, dif, g, Tail(todo))

LEMMA PatchImagesGoes ==
  ASSUME NEW src, NEW dif, NEW dst, NEW todo, Diffable(src), Fit(dif), Fit(dst),
         PatchOk(src, dif, dst, todo), Head(todo) = "images"
  PROVE  PatchGoes(src, dif, [dst EXCEPT !.images = Overlay(Images(Patched(src, dif)), dst.images)],
                   todo)
<1> DEFINE sel == Patched(src, dif)
           images == Overlay(Images(sel), dst.images)
           g == [dst EXCEPT !.images = images]
<1>1. /\ Tail(todo) # <<>> /\ Tail(todo) \in PatchTodos /\ Head(Tail(todo)) = "tiles"
      /\ Tail(todo) \in BinaryTodos => todo \in BinaryTodos
  BY PatchGoesOn DEF PatchOk
<1>2. /\ Shaped(dst) /\ dst.type \in Schemas /\ Whole(dst)
      /\ todo \in BinaryTodos => dst.type \in Flat
  BY DEF PatchOk, Fit
<1>3. IsSelection(sel)
  BY DiffableFile, PatchedSelection DEF Fit
<1>4. g.type = dst.type
  BY <1>2 DEF Shaped, NoFile
<1>5. Shaped(g) /\ ImagesFor(g, sel) /\ Whole(g)
  <2>1. images \in {Overlay(Images(sel), dst.images), Overlay(dst.images, Images(sel))}
    OBVIOUS
  <2> HIDE DEF images, sel
  <2> QED BY <1>2, <1>3, <2>1, ImagesAdded DEF images
<1> HIDE DEF g
<1>6. Fit(g)
  BY <1>5, WholeIsFit
<1>7. PatchOk(src, dif, g, Tail(todo))
  BY <1>1, <1>2, <1>4, <1>5 DEF PatchOk
<1> QED BY <1>1, <1>6, <1>7 DEF PatchGoes, g

LEMMA PatchTilesGoes ==
  ASSUME NEW src, NEW dif, NEW dst, NEW todo, Diffable(src), Fit(dif), Fit(dst),
         PatchOk(src, dif, dst, todo), Head(todo) = "tiles",
         NEW sel, sel = Patched(src, dif), NEW t,
         t \in Insert(dst.rows, [c \in DOMAIN sel |-> Stored(dst.type, sel[c])], "override")
  PROVE  PatchGoes(src, dif, [dst EXCEPT !.rows = t], todo)
<1> DEFINE g == [dst EXCEPT !.rows = t]
<1>1. /\ Tail(todo) # <<>> /\ Tail(todo) \in PatchTodos /\ Head(Tail(todo)) = "metadata"
      /\ Tail(todo) \in BinaryTodos => todo \in BinaryTodos
  BY PatchGoesOn DEF PatchOk
<1>2. /\ Shaped(dst) /\ dst.type \in Schemas /\ Whole(dst)
      /\ todo \in BinaryTodos => dst.type \in Flat
      /\ ImagesFor(dst, sel)
  BY DEF PatchOk, Fit
<1>3. IsSelection(sel) /\ \A c \in DOMAIN sel : sel[c].data \in Data
  BY DiffableFile, PatchedSelection DEF Fit
<1>4. g.type = dst.type
  BY <1>2 DEF Shaped, NoFile
<1>5. Takes(t, dst, sel)
  BY InsertTakes DEF Part, Modes
<1>6. Shaped(g) /\ Whole(g)
  BY <1>2, <1>3, <1>5, RowsTaken, RowsWhole
<1> HIDE DEF g
<1>7. Fit(g)
  BY <1>6, WholeIsFit
<1>8. PatchOk(src, dif, g, Tail(todo))
  BY <1>1, <1>2, <1>4, <1>6 DEF PatchOk
<1> QED BY <1>1, <1>7, <1>8 DEF PatchGoes, g

LEMMA PatchMetadataGoes ==
  ASSUME NEW src, NEW dif, NEW dst, NEW todo, Fit(dst),
         PatchOk(src, dif, dst, todo), Head(todo) = "metadata",
         NEW g, HasFields(g), SameTables(g, dst), g.binary = dst.binary,
         g.before = dst.before, g.after = dst.after
  PROVE  PatchGoes(src, dif, g, todo)
<1>1. /\ Tail(todo) # <<>> /\ Tail(todo) \in PatchTodos
      /\ Head(Tail(todo)) \in {"binary", "agg"}
      /\ Tail(todo) \in BinaryTodos => todo \in BinaryTodos
  BY PatchGoesOn DEF PatchOk
<1>2. /\ Shaped(dst) /\ dst.type \in Schemas /\ Whole(dst)
      /\ todo \in BinaryTodos => dst.type \in Flat
  BY DEF PatchOk, Fit
<1>3. Shaped(g) /\ Whole(g) /\ g.type = dst.type
  <2>1. g.before = {} /\ g.after = {}
    BY <1>2 DEF Whole
  <2> QED BY <1>2, <2>1, SameShape, SameWhole DEF Schemas, SameTables
<1>4. Fit(g)
  BY <1>3, WholeIsFit
<1>5. PatchOk(src, dif, g, Tail(todo))
  BY <1>1, <1>2, <1>3 DEF PatchOk
<1> QED BY <1>1, <1>4, <1>5 DEF PatchGoes

\* Tiles that are written one by one, with their hashes, into a flat file.
LEMMA TilesLaid ==
  ASSUME NEW dst, Fit(dst), Whole(dst), dst.type \in Flat,
         NEW tiles, \A c \in DOMAIN tiles : c \in Coords /\ tiles[c] \in Data,
         NEW new, DOMAIN new = DOMAIN tiles,
         \A c \in DOMAIN tiles : new[c] = StoredTile(dst.type, tiles[c])
  PROVE  LET g == [dst EXCEPT !.rows = Overlay(dst.rows, new)] IN
         Shaped(g) /\ Whole(g) /\ g.type = dst.type
<1> DEFINE sel == [c \in DOMAIN tiles |-> Row(tiles[c], Md5(tiles[c]))]
           t == Overlay(dst.rows, new)
           g == [dst EXCEPT !.rows = t]
<1>1. DOMAIN sel = DOMAIN tiles
      /\ \A c \in DOMAIN tiles : sel[c] = Row(tiles[c], Md5(tiles[c]))
  OBVIOUS
<1> HIDE DEF sel
<1>2. Shaped(dst) /\ dst.type \in Schemas /\ dst.type \notin Normalized
  BY DEF Fit, Flat, Schemas, Normalized
<1>3. ASSUME NEW c \in DOMAIN sel
      PROVE  c \in Coords /\ IsHashedRow(sel[c]) /\ sel[c].data \in Data
  BY <1>1, StoredIs, HashFacts DEF IsHashedRow, HashesOf
<1>4. IsSelection(sel)
  BY <1>3 DEF IsSelection
<1>5. DOMAIN t = DOMAIN dst.rows \cup DOMAIN new
  BY OverlayDomain
<1>6. ASSUME NEW c \in DOMAIN t
      PROVE  \/ c \in DOMAIN sel /\ t[c] = Stored(dst.type, sel[c])
             \/ c \in DOMAIN dst.rows /\ t[c] = dst.rows[c]
  <2>1. /\ c \in DOMAIN new => t[c] = new[c]
        /\ c \in DOMAIN dst.rows /\ c \notin DOMAIN new => t[c] = dst.rows[c]
    BY OverlayAt
  <2> HIDE DEF t
  <2> QED BY <1>1, <1>5, <2>1 DEF StoredTile
<1> HIDE DEF t
<1>7. Takes(t, dst, sel)
  BY <1>6 DEF Takes
<1>8. ImagesFor(dst, sel)
  BY <1>2 DEF ImagesFor
<1>9. Shaped(g) /\ Whole(g)
  BY <1>2, <1>3, <1>4, <1>7, <1>8, RowsTaken, RowsWhole
<1>10. g.type = dst.type
  BY <1>2 DEF Shaped, NoFile
<1> QED BY <1>9, <1>10 DEF t

LEMMA PatchBinaryGoes ==
  ASSUME NEW src, NEW dif, NEW dst, NEW todo, PatchOk(src, dif, dst, todo), Head(todo) = "binary",
         NEW g, Shaped(g), Whole(g), g.type = dst.type
  PROVE  PatchGoes(src, dif, g, todo)
<1>1. /\ Tail(todo) # <<>> /\ Tail(todo) \in PatchTodos /\ Head(Tail(todo)) = "agg"
      /\ Tail(todo) \in BinaryTodos => todo \in BinaryTodos
  BY PatchGoesOn DEF PatchOk
<1>2. Fit(g)
  BY WholeIsFit
<1>3. PatchOk(src, dif, g, Tail(todo))
  BY <1>1 DEF PatchOk
<1> QED BY <1>1, <1>2, <1>3 DEF PatchGoes

LEMMA PatchAggGoes ==
  ASSUME NEW src, NEW dif, NEW dst, NEW todo, Fit(dst),
         PatchOk(src, dif, dst, todo), Head(todo) = "agg"
  PROVE  PatchGoes(src, dif, UpdateAggHash(dst), todo)
<1> DEFINE g == UpdateAggHash(dst)
<1>1. /\ Tail(todo) # <<>> /\ Tail(todo) \in PatchTodos /\ Head(Tail(todo)) = "check"
      /\ Tail(todo) \in BinaryTodos => todo \in BinaryTodos
  BY PatchGoesOn DEF PatchOk
<1>2. /\ Shaped(dst) /\ dst.type \in Schemas /\ Whole(dst)
      /\ todo \in BinaryTodos => dst.type \in Flat
  BY DEF PatchOk, Fit
<1>3. /\ HasFields(g) /\ SameTables(g, dst) /\ g.binary = dst.binary
      /\ g.before = dst.before /\ g.after = dst.after /\ g.agg = {Tiles(dst)}
  BY <1>2 DEF UpdateAggHash, AggHash, Shaped, NoFile, HasFields, SameTables
<1> HIDE DEF g
<1>4. Shaped(g) /\ Whole(g) /\ g.type = dst.type /\ g.agg = {Tiles(g)}
  <2>1. g.before = {} /\ g.after = {}
    BY <1>2, <1>3 DEF Whole
  <2>2. Shaped(g) /\ Whole(g)
    BY <1>2, <1>3, <2>1, SameShape, SameWhole DEF Schemas
  <2>3. Tiles(g) = Tiles(dst)
    BY <1>3, SameView
  <2> QED BY <1>3, <2>2, <2>3 DEF SameTables
<1>5. Fit(g)
  BY <1>4, WholeIsFit
<1>6. PatchOk(src, dif, g, Tail(todo))
  BY <1>1, <1>2, <1>4 DEF PatchOk
<1> QED BY <1>1, <1>5, <1>6 DEF PatchGoes, g

LEMMA PatchCheckGoes ==
  ASSUME NEW src, NEW dif, NEW dst, NEW todo, Fit(dst),
         PatchOk(src, dif, dst, todo), Head(todo) = "check"
  PROVE  PatchGoes(src, dif, dst, todo)
<1>1. Tail(todo) = <<>>
  BY PatchGoesOn DEF PatchOk
<1>2. SoundFile(dst)
  BY DEF PatchOk, SoundFile, Whole
<1> QED BY <1>1, <1>2 DEF PatchGoes

-----------------------------------------------------------------------------
(* Apply, coordinate by coordinate.                                        *)

LEMMA SameRow ==
  ASSUME NEW f, NEW g, NEW c, g.type = f.type, DOMAIN f.images \subseteq DOMAIN g.images,
         c \in DOMAIN g.rows <=> c \in DOMAIN f.rows,
         c \in DOMAIN f.rows => g.rows[c] = f.rows[c], NEW T
  PROVE  /\ RowIs(g, c, T) <=> RowIs(f, c, T)
         /\ c \in DOMAIN f.rows => (LinkedAt(f, c) => LinkedAt(g, c))
         /\ ShownAt(f, c, T) => ShownAt(g, c, T)
  BY DEF RowIs, Has, LinkedAt, ShownAt

LEMMA AgreedRow ==
  ASSUME NEW B \in TileSets, NEW A \in TileSets, NEW c, TileAt(B, c) = TileAt(A, c), NEW f
  PROVE  /\ RowIs(f, c, B) <=> RowIs(f, c, A)
         /\ ShownAt(f, c, B) <=> ShownAt(f, c, A)
<1>1. /\ c \in DOMAIN B <=> c \in DOMAIN A
      /\ c \in DOMAIN B => B[c] = A[c]
  BY TileAtSet DEF TileAt
<1> QED BY <1>1 DEF RowIs, ShownAt

LEMMA ShownIsHalf ==
  ASSUME NEW B \in TileSets, NEW A \in TileSets, NEW c, NEW f, ShownAt(f, c, A)
  PROVE  HalfAt(f, c, B, A)
<1>1. CASE TileAt(A, c) = TileAt(B, c)
  BY <1>1, AgreedRow DEF HalfAt
<1>2. CASE TileAt(A, c) # TileAt(B, c)
  BY <1>2 DEF HalfAt, ShownAt
<1> QED BY <1>1, <1>2

UpsertedOf(dif) == Only(HashedTiles(dif), {c \in DOMAIN Tiles(dif) : Tiles(dif)[c] # Null})

LEMMA UpsertedSelection ==
  ASSUME NEW dif, Shaped(dif), NEW B \in TileSets, NEW A \in TileSets, Turns(dif, B, A)
  PROVE  /\ IsSelection(UpsertedOf(dif))
         /\ DOMAIN UpsertedOf(dif) = {c \in DOMAIN A : TileAt(B, c) # A[c]}
         /\ \A c \in DOMAIN UpsertedOf(dif) :
              UpsertedOf(dif)[c] = Row(A[c], Md5(A[c])) /\ A[c] \in Data
<1> DEFINE sel == UpsertedOf(dif)
           H == HashedTiles(dif)
<1>1. /\ IsSelection(H) /\ DOMAIN H = DOMAIN Tiles(dif)
      /\ \A c \in DOMAIN Tiles(dif) : H[c].data = Tiles(dif)[c]
  BY HashedSelection
<1>2. /\ DOMAIN sel = {c \in DOMAIN Tiles(dif) : Tiles(dif)[c] # Null}
      /\ \A c \in DOMAIN sel : sel[c] = H[c]
  BY <1>1 DEF UpsertedOf, Only
<1> HIDE DEF sel, H
<1>3. ASSUME NEW c
      PROVE  c \in DOMAIN sel <=> c \in DOMAIN A /\ TileAt(B, c) # A[c]
  <2>1. /\ TileAt(A, c) \in Data \cup {Null} /\ (TileAt(A, c) = Null <=> c \notin DOMAIN A)
        /\ c \in DOMAIN A => TileAt(A, c) = A[c] /\ c \in Coords
    BY TileAtSet, TileSetIs DEF TileAt
  <2>2. c \in DOMAIN Tiles(dif) => c \in Coords
    BY <1>1 DEF IsSelection
  <2>3. c \in Coords =>
          IF TileAt(B, c) = TileAt(A, c) THEN c \notin DOMAIN Tiles(dif)
          ELSE c \in DOMAIN Tiles(dif) /\ Tiles(dif)[c] = TileAt(A, c)
    BY DEF Turns
  <2> QED BY <1>2, <2>1, <2>2, <2>3
<1>4. ASSUME NEW c \in DOMAIN sel
      PROVE  sel[c] = Row(A[c], Md5(A[c])) /\ A[c] \in Data /\ c \in Coords /\ IsHashedRow(sel[c])
  <2>1. c \in DOMAIN A /\ TileAt(B, c) # TileAt(A, c) /\ TileAt(A, c) = A[c] /\ c \in Coords
        /\ A[c] \in Data /\ A[c] # Null
    BY <1>3, TileSetIs, HashFacts DEF TileAt
  <2>2. c \in DOMAIN Tiles(dif) /\ sel[c] = H[c] /\ H[c].data = A[c] /\ IsHashedRow(H[c])
    BY <1>1, <1>2, <2>1 DEF Turns, IsSelection
  <2>3. H[c].hash = Md5(A[c])
    BY <2>1, <2>2 DEF IsHashedRow, HashesOf
  <2> QED BY <2>1, <2>2, <2>3 DEF IsHashedRow
<1>5. IsSelection(sel)
  BY <1>4 DEF IsSelection
<1> QED BY <1>3, <1>4, <1>5 DEF sel

ApplyGoes(dif, g, todo) ==
  /\ Fit(g)
  /\ IF Tail(todo) = <<>> THEN SoundFile(g) ELSE ApplyOk(dif, g, Tail(todo))

LEMMA ApplyIsHalf ==
  ASSUME NEW dif, NEW dst, NEW todo, ApplyOk(dif, dst, todo)
  PROVE  HalfPatched(dst, dif.after)
  BY DEF ApplyOk, ApplyStage, HalfPatched

LEMMA UpsertGoes ==
  ASSUME NEW dif, NEW dst, NEW todo, Fit(dif), Fit(dst), ApplyOk(dif, dst, todo),
         Head(todo) = "upsert", NEW sel, sel = UpsertedOf(dif), NEW new,
         DOMAIN new = DOMAIN sel, \A c \in DOMAIN sel : new[c] = Stored(dst.type, sel[c])
  PROVE  ApplyGoes(dif, [dst EXCEPT !.rows = Overlay(dst.rows, new)], todo)
<1> DEFINE t == Overlay(dst.rows, new)
           g == [dst EXCEPT !.rows = t]
<1>1. /\ Tail(todo) # <<>> /\ Tail(todo) \in ApplyTodos
      /\ Tail(todo) # <<"upsert", "delete", "replace", "forget">>
      /\ Head(Tail(todo)) \in {"upsert_images", "delete"}
      /\ Head(Tail(todo)) = "delete" => dst.type \in Flat
  BY ApplyGoesOn DEF ApplyOk
<1>2. /\ Shaped(dst) /\ Shaped(dif) /\ dst.type \in Schemas
      /\ dst.before = {} /\ dst.after = {}
  BY DEF ApplyOk, Fit
<1>3. PICK B \in TileSets, A \in TileSets :
        /\ dif.before = {B} /\ dif.after = {A} /\ Turns(dif, B, A)
        /\ ApplyStage(dst, B, A, todo)
  BY DEF ApplyOk
<1>4. OnTheWay(dst, B, A)
  BY <1>3 DEF ApplyStage
<1>5. /\ IsSelection(sel) /\ DOMAIN sel = {c \in DOMAIN A : TileAt(B, c) # A[c]}
      /\ \A c \in DOMAIN sel : sel[c] = Row(A[c], Md5(A[c])) /\ A[c] \in Data
  <2>1. Shaped(dif) /\ Turns(dif, B, A)
    BY <1>2, <1>3
  <2>2. /\ IsSelection(UpsertedOf(dif))
        /\ DOMAIN UpsertedOf(dif) = {c \in DOMAIN A : TileAt(B, c) # A[c]}
        /\ \A c \in DOMAIN UpsertedOf(dif) :
             UpsertedOf(dif)[c] = Row(A[c], Md5(A[c])) /\ A[c] \in Data
    BY <2>1, UpsertedSelection
  <2> QED BY <2>2
<1>6. /\ g.type = dst.type /\ g.rows = t /\ g.images = dst.images /\ g.agg = dst.agg
      /\ g.before = dst.before /\ g.after = dst.after
  BY <1>2 DEF Shaped, NoFile
<1>7. DOMAIN t = DOMAIN dst.rows \cup DOMAIN sel
  BY OverlayDomain, ZenonT(60)
<1>8. ASSUME NEW c
      PROVE  /\ c \in DOMAIN sel => t[c] = Stored(dst.type, sel[c])
             /\ c \in DOMAIN dst.rows /\ c \notin DOMAIN sel => t[c] = dst.rows[c]
  BY OverlayAt
<1> HIDE DEF t
<1>9. Takes(t, dst, sel)
  BY <1>7, <1>8 DEF Takes
<1>10. Shaped(g)
  BY <1>2, <1>5, <1>9, RowsTaken
<1> HIDE DEF g
<1>11. ASSUME NEW c \in DOMAIN sel PROVE RowIs(g, c, A)
  BY <1>5, <1>6, <1>7, <1>8 DEF RowIs, Has, StoredTile
<1>12. Brought(g, B, A)
  BY <1>5, <1>11 DEF Brought
<1>13. ASSUME NEW c \in Coords PROVE HalfAt(g, c, B, A)
  <2>1. CASE c \in DOMAIN sel
    <3>1. TileAt(A, c) # TileAt(B, c)
      BY <1>5, <2>1 DEF TileAt
    <3> QED BY <1>11, <2>1, <3>1 DEF HalfAt
  <2>2. CASE c \notin DOMAIN sel
    <3>1. /\ RowIs(g, c, A) <=> RowIs(dst, c, A)
          /\ ShownAt(dst, c, B) => ShownAt(g, c, B)
      BY <1>6, <1>7, <1>8, <2>2, SameRow
    <3> QED BY <1>4, <3>1 DEF OnTheWay, HalfAt
  <2> QED BY <2>1, <2>2
<1>14. OnTheWay(g, B, A)
  BY <1>4, <1>6, <1>13 DEF OnTheWay
<1>15. Head(Tail(todo)) = "delete" => Linked(g)
  BY <1>1, <1>6 DEF Linked, LinkedAt, Flat, Normalized
<1>16. ApplyStage(g, B, A, Tail(todo))
  BY <1>1, <1>12, <1>14, <1>15 DEF ApplyStage
<1>17. ApplyOk(dif, g, Tail(todo))
  BY <1>1, <1>2, <1>3, <1>6, <1>16 DEF ApplyOk
<1>18. Fit(g)
  BY <1>2, <1>6, <1>10, NoPatch
<1> QED BY <1>1, <1>17, <1>18 DEF ApplyGoes, g, t

LEMMA UpsertImagesGoes ==
  ASSUME NEW dif, NEW dst, NEW todo, Fit(dif), Fit(dst), ApplyOk(dif, dst, todo),
         Head(todo) = "upsert_images", NEW sel, sel = UpsertedOf(dif)
  PROVE  ApplyGoes(dif, [dst EXCEPT !.images = Overlay(dst.images, Images(sel))], todo)
<1> DEFINE images == Overlay(dst.images, Images(sel))
           g == [dst EXCEPT !.images = images]
<1>1. /\ Tail(todo) # <<>> /\ Tail(todo) \in ApplyTodos
      /\ Tail(todo) # <<"upsert", "delete", "replace", "forget">>
      /\ Head(Tail(todo)) = "delete"
  BY ApplyGoesOn DEF ApplyOk
<1>2. /\ Shaped(dst) /\ Shaped(dif) /\ dst.type \in Schemas
      /\ dst.before = {} /\ dst.after = {}
  BY DEF ApplyOk, Fit
<1>3. PICK B \in TileSets, A \in TileSets :
        /\ dif.before = {B} /\ dif.after = {A} /\ Turns(dif, B, A)
        /\ ApplyStage(dst, B, A, todo)
  BY DEF ApplyOk
<1>4. OnTheWay(dst, B, A) /\ Brought(dst, B, A)
  BY <1>3 DEF ApplyStage
<1>5. /\ IsSelection(sel) /\ DOMAIN sel = {c \in DOMAIN A : TileAt(B, c) # A[c]}
      /\ \A c \in DOMAIN sel : sel[c] = Row(A[c], Md5(A[c])) /\ A[c] \in Data
  <2>1. Shaped(dif) /\ Turns(dif, B, A)
    BY <1>2, <1>3
  <2>2. /\ IsSelection(UpsertedOf(dif))
        /\ DOMAIN UpsertedOf(dif) = {c \in DOMAIN A : TileAt(B, c) # A[c]}
        /\ \A c \in DOMAIN UpsertedOf(dif) :
             UpsertedOf(dif)[c] = Row(A[c], Md5(A[c])) /\ A[c] \in Data
    BY <2>1, UpsertedSelection
  <2> QED BY <2>2
<1>6. /\ g.type = dst.type /\ g.rows = dst.rows /\ g.images = images /\ g.agg = dst.agg
      /\ g.before = dst.before /\ g.after = dst.after
  BY <1>2 DEF Shaped, NoFile
<1>7. DOMAIN images = DOMAIN dst.images \cup DOMAIN Images(sel)
  BY OverlayDomain
<1>8. Shaped(g) /\ ImagesFor(g, sel)
  <2>1. images \in {Overlay(Images(sel), dst.images), Overlay(dst.images, Images(sel))}
    OBVIOUS
  <2> HIDE DEF images
  <2> QED BY <1>2, <1>5, <2>1, ImagesAdded
<1> HIDE DEF g, images
<1>9. ASSUME NEW c, NEW T
      PROVE  /\ RowIs(g, c, T) <=> RowIs(dst, c, T)
             /\ c \in DOMAIN dst.rows => (LinkedAt(dst, c) => LinkedAt(g, c))
             /\ ShownAt(dst, c, T) => ShownAt(g, c, T)
  BY <1>6, <1>7, SameRow
<1>10. Brought(g, B, A)
  BY <1>4, <1>9 DEF Brought
<1>11. OnTheWay(g, B, A)
  BY <1>4, <1>6, <1>9 DEF OnTheWay, HalfAt
<1>12. ASSUME NEW c \in DOMAIN g.rows PROVE LinkedAt(g, c)
  <2>1. c \in Coords /\ c \in DOMAIN dst.rows
    BY <1>2, <1>6 DEF Shaped
  <2>2. CASE ShownAt(dst, c, B)
    BY <1>9, <2>1, <2>2 DEF ShownAt
  <2>3. CASE RowIs(dst, c, A) /\ TileAt(A, c) # TileAt(B, c)
    <3>1. c \in DOMAIN A /\ Has(dst, c, A[c]) /\ c \in DOMAIN sel
      BY <1>5, <2>1, <2>3 DEF RowIs, TileAt
    <3>2. g.rows[c] = Stored(g.type, sel[c]) /\ sel[c] = Row(sel[c].data, sel[c].hash)
      BY <1>5, <1>6, <3>1, StoredIs DEF Has, StoredTile
    <3>3. g.type \in Normalized => g.rows[c].hash = sel[c].hash
      BY <1>2, <1>6, <3>2, StoredHash
    <3> QED BY <1>8, <3>1, <3>3 DEF LinkedAt, ImagesFor
  <2> QED BY <1>4, <2>1, <2>2, <2>3 DEF OnTheWay, HalfAt
<1>13. ApplyStage(g, B, A, Tail(todo))
  BY <1>1, <1>10, <1>11, <1>12 DEF ApplyStage, Linked
<1>14. ApplyOk(dif, g, Tail(todo))
  BY <1>1, <1>2, <1>3, <1>6, <1>13 DEF ApplyOk
<1>15. Fit(g)
  BY <1>2, <1>6, <1>8, NoPatch
<1> QED BY <1>1, <1>14, <1>15 DEF ApplyGoes, g, images

LEMMA DeleteGoes ==
  ASSUME NEW dif, NEW dst, NEW todo, Fit(dif), Fit(dst), ApplyOk(dif, dst, todo),
         Head(todo) = "delete", NEW gone, gone = {c \in DOMAIN Tiles(dif) : Tiles(dif)[c] = Null}
  PROVE  ApplyGoes(dif, [dst EXCEPT !.rows = Only(dst.rows, DOMAIN dst.rows \ gone)], todo)
<1> DEFINE t == Only(dst.rows, DOMAIN dst.rows \ gone)
           g == [dst EXCEPT !.rows = t]
<1>1. /\ Tail(todo) # <<>> /\ Tail(todo) \in ApplyTodos
      /\ Tail(todo) # <<"upsert", "delete", "replace", "forget">>
      /\ Head(Tail(todo)) \in {"collect", "replace"}
  BY ApplyGoesOn DEF ApplyOk
<1>2. /\ Shaped(dst) /\ Shaped(dif) /\ dst.type \in Schemas
      /\ dst.before = {} /\ dst.after = {}
  BY DEF ApplyOk, Fit
<1>3. PICK B \in TileSets, A \in TileSets :
        /\ dif.before = {B} /\ dif.after = {A} /\ Turns(dif, B, A)
        /\ ApplyStage(dst, B, A, todo)
  BY DEF ApplyOk
<1>4. OnTheWay(dst, B, A) /\ Brought(dst, B, A) /\ Linked(dst)
  BY <1>3 DEF ApplyStage
<1>5. /\ g.type = dst.type /\ g.rows = t /\ g.images = dst.images /\ g.agg = dst.agg
      /\ g.before = dst.before /\ g.after = dst.after
  BY <1>2 DEF Shaped, NoFile
<1>6. DOMAIN t = DOMAIN dst.rows \ gone
  BY DEF Only
<1>7. ASSUME NEW c \in DOMAIN t PROVE t[c] = dst.rows[c]
  BY DEF Only
<1> HIDE DEF t
<1>8. Shaped(g)
  <2> DEFINE sel == [c \in {} |-> Row(Null, Null)]
  <2>1. IsSelection(sel)
    BY DEF IsSelection
  <2>2. Takes(t, dst, sel)
    BY <1>6, <1>7 DEF Takes
  <2> HIDE DEF sel
  <2> QED BY <1>2, <2>1, <2>2, RowsTaken
<1> HIDE DEF g
<1>9. ASSUME NEW c \in Coords PROVE ShownAt(g, c, A)
  <2>1. IF TileAt(B, c) = TileAt(A, c) THEN c \notin DOMAIN Tiles(dif)
        ELSE c \in DOMAIN Tiles(dif) /\ Tiles(dif)[c] = TileAt(A, c)
    BY <1>3 DEF Turns
  <2>2. CASE c \in gone
    <3>1. c \notin DOMAIN A
      BY <2>1, <2>2, TileAtSet
    <3> QED BY <1>5, <1>6, <2>2, <3>1 DEF ShownAt, RowIs
  <2>3. CASE c \notin gone
    <3>1. ShownAt(dst, c, A)
      <4>1. CASE TileAt(B, c) = TileAt(A, c)
        <5>1. ShownAt(dst, c, B)
          BY <1>4, <4>1 DEF OnTheWay, HalfAt
        <5> QED BY <4>1, <5>1, AgreedRow
      <4>2. CASE TileAt(B, c) # TileAt(A, c)
        <5>1. TileAt(A, c) # Null
          BY <2>1, <2>3, <4>2
        <5>2. c \in DOMAIN A /\ TileAt(B, c) # A[c]
          BY <4>2, <5>1 DEF TileAt
        <5> QED BY <1>4, <5>2 DEF Brought, Linked, ShownAt
      <4> QED BY <4>1, <4>2
    <3>2. /\ g.type = dst.type /\ DOMAIN dst.images \subseteq DOMAIN g.images
          /\ c \in DOMAIN g.rows <=> c \in DOMAIN dst.rows
          /\ c \in DOMAIN dst.rows => g.rows[c] = dst.rows[c]
      BY <1>5, <1>6, <1>7, <2>3
    <3> QED BY <3>1, <3>2, SameRow
  <2> QED BY <2>2, <2>3
<1>10. OnTheWay(g, B, A)
  BY <1>4, <1>5, <1>9, ShownIsHalf DEF OnTheWay
<1>11. ApplyStage(g, B, A, Tail(todo))
  BY <1>1, <1>9, <1>10 DEF ApplyStage
<1>12. ApplyOk(dif, g, Tail(todo))
  BY <1>1, <1>2, <1>3, <1>5, <1>11 DEF ApplyOk
<1>13. Fit(g)
  BY <1>2, <1>5, <1>8, NoPatch
<1> QED BY <1>1, <1>12, <1>13 DEF ApplyGoes, g, t

LEMMA CollectGoes ==
  ASSUME NEW dif, NEW dst, NEW todo, Fit(dif), Fit(dst), ApplyOk(dif, dst, todo),
         Head(todo) = "collect", NEW used, used = {dst.rows[c].hash : c \in DOMAIN dst.rows}
  PROVE  ApplyGoes(dif, [dst EXCEPT !.images = Only(dst.images, used)], todo)
<1> DEFINE images == Only(dst.images, used)
           g == [dst EXCEPT !.images = images]
<1>1. /\ Tail(todo) # <<>> /\ Tail(todo) \in ApplyTodos
      /\ Tail(todo) # <<"upsert", "delete", "replace", "forget">>
      /\ Head(Tail(todo)) = "replace"
  BY ApplyGoesOn DEF ApplyOk
<1>2. /\ Shaped(dst) /\ dst.type \in Schemas
      /\ dst.before = {} /\ dst.after = {}
  BY DEF ApplyOk, Fit
<1>3. PICK B \in TileSets, A \in TileSets :
        /\ dif.before = {B} /\ dif.after = {A} /\ Turns(dif, B, A)
        /\ ApplyStage(dst, B, A, todo)
  BY DEF ApplyOk
<1>4. OnTheWay(dst, B, A) /\ \A c \in Coords : ShownAt(dst, c, A)
  BY <1>3 DEF ApplyStage
<1>5. /\ HasFields(g) /\ g.type = dst.type /\ g.rows = dst.rows /\ g.images = images
      /\ g.agg = dst.agg /\ g.before = dst.before /\ g.after = dst.after
      /\ g.binary = dst.binary
  BY <1>2 DEF Shaped, NoFile, HasFields
<1>6. DOMAIN images = DOMAIN dst.images \cap used
  BY DEF Only
<1>7. ASSUME NEW id \in DOMAIN images PROVE images[id] = dst.images[id]
  BY DEF Only
<1> HIDE DEF images, g
<1>8. Shaped(g)
  BY <1>2, <1>5, <1>6, <1>7 DEF Shaped, HasFields, Schemas
<1>9. ASSUME NEW c \in Coords PROVE ShownAt(g, c, A)
  <2>1. ShownAt(dst, c, A)
    BY <1>4
  <2>2. RowIs(g, c, A)
    BY <1>5, <2>1 DEF ShownAt, RowIs, Has
  <2>3. ASSUME c \in DOMAIN g.rows PROVE LinkedAt(g, c)
    BY <1>5, <1>6, <2>1, <2>3 DEF ShownAt, LinkedAt
  <2> QED BY <2>2, <2>3 DEF ShownAt
<1>10. OnTheWay(g, B, A)
  BY <1>4, <1>5, <1>9, ShownIsHalf DEF OnTheWay
<1>11. ApplyStage(g, B, A, Tail(todo))
  BY <1>1, <1>9, <1>10 DEF ApplyStage
<1>12. ApplyOk(dif, g, Tail(todo))
  BY <1>1, <1>2, <1>3, <1>5, <1>11 DEF ApplyOk
<1>13. Fit(g)
  BY <1>2, <1>5, <1>8, NoPatch
<1> QED BY <1>1, <1>12, <1>13 DEF ApplyGoes, g, images

LEMMA ReplaceGoes ==
  ASSUME NEW dif, NEW dst, NEW todo, Fit(dst), ApplyOk(dif, dst, todo), Head(todo) = "replace",
         NEW g, HasFields(g), SameTables(g, dst), g.binary = dst.binary, g.agg = dif.after,
         g.before = dst.before, g.after = dst.after
  PROVE  ApplyGoes(dif, g, todo)
<1>1. /\ Tail(todo) # <<>> /\ Tail(todo) \in ApplyTodos
      /\ Tail(todo) # <<"upsert", "delete", "replace", "forget">>
      /\ Head(Tail(todo)) = "forget"
  BY ApplyGoesOn DEF ApplyOk
<1>2. /\ Shaped(dst) /\ dst.type \in Schemas
      /\ dst.before = {} /\ dst.after = {}
  BY DEF ApplyOk, Fit
<1>3. PICK B \in TileSets, A \in TileSets :
        /\ dif.before = {B} /\ dif.after = {A} /\ Turns(dif, B, A)
        /\ ApplyStage(dst, B, A, todo)
  BY DEF ApplyOk
<1>4. \A c \in Coords : ShownAt(g, c, A)
  BY <1>3, SameView DEF ApplyStage
<1>5. ApplyStage(g, B, A, Tail(todo))
  BY <1>1, <1>3, <1>4 DEF ApplyStage, Arrived
<1>6. ApplyOk(dif, g, Tail(todo))
  BY <1>1, <1>2, <1>3, <1>5 DEF ApplyOk, SameTables
<1>7. Fit(g)
  BY <1>2, SameShape, NoPatch DEF Schemas
<1> QED BY <1>1, <1>6, <1>7 DEF ApplyGoes

\* A table that shows tiles row by row has whole rows.
LEMMA ShownIsWhole ==
  ASSUME NEW f, Shaped(f), f.type \in Schemas, f.before = {}, f.after = {}, NEW T \in TileSets,
         \A c \in Coords : ShownAt(f, c, T)
  PROVE  Whole(f) /\ Tiles(f) = T
<1>1. ASSUME NEW c \in DOMAIN f.rows
      PROVE  LinkedAt(f, c) /\ \E d \in Data : Has(f, c, d)
  <2>1. c \in Coords /\ ShownAt(f, c, T)
    BY <1>1 DEF Shaped
  <2> QED BY <2>1, TileSetIs DEF ShownAt, RowIs
<1> QED BY <1>1, ViewIs DEF Whole, Linked

LEMMA ForgetGoes ==
  ASSUME NEW dif, NEW dst, NEW todo, Fit(dst), ApplyOk(dif, dst, todo), Head(todo) = "forget",
         NEW g, HasFields(g), SameTables(g, dst), g.binary = dst.binary, g.agg = dst.agg,
         g.before = dst.before, g.after = dst.after
  PROVE  ApplyGoes(dif, g, todo)
<1>1. Tail(todo) = <<>>
  BY ApplyGoesOn DEF ApplyOk
<1>2. /\ Shaped(dst) /\ dst.type \in Schemas
      /\ dst.before = {} /\ dst.after = {}
  BY DEF ApplyOk, Fit
<1>3. PICK A \in TileSets : Arrived(dst, A)
  BY DEF ApplyOk, ApplyStage
<1>4. \A c \in Coords : ShownAt(g, c, A)
  BY <1>3, SameView DEF Arrived
<1>5. Shaped(g)
  BY <1>2, SameShape DEF Schemas
<1>6. Whole(g) /\ Tiles(g) = A
  BY <1>2, <1>4, <1>5, ShownIsWhole DEF SameTables
<1>7. SoundFile(g)
  BY <1>3, <1>6 DEF SoundFile, Arrived, Whole
<1> QED BY <1>1, <1>5, <1>6, <1>7, WholeIsFit DEF ApplyGoes

-----------------------------------------------------------------------------
(* The statements a command starts with.                                   *)

LEMMA Join11 ==
  ASSUME NEW a, NEW b
  PROVE  <<a>> \o <<b>> = <<a, b>>
<1> DEFINE S == Seq({a, b})
<1>1. <<a>> \in S /\ <<b>> \in S /\ <<a, b>> \in S /\ <<a>> \o <<b>> \in S
  OBVIOUS
<1>2. Len(<<a>> \o <<b>>) = 2 /\ Len(<<a, b>>) = 2
  BY <1>1
<1>3. \A i \in 1 .. 2 : (<<a>> \o <<b>>)[i] = <<a, b>>[i]
  BY <1>1
<1> QED BY <1>1, <1>2, <1>3, SeqEqual

LEMMA Join21 ==
  ASSUME NEW a, NEW b, NEW c
  PROVE  <<a, b>> \o <<c>> = <<a, b, c>>
<1> DEFINE S == Seq({a, b, c})
<1>1. <<a, b>> \in S /\ <<c>> \in S /\ <<a, b, c>> \in S /\ <<a, b>> \o <<c>> \in S
  OBVIOUS
<1>2. Len(<<a, b>> \o <<c>>) = 3 /\ Len(<<a, b, c>>) = 3
  BY <1>1
<1>3. \A i \in 1 .. 3 : (<<a, b>> \o <<c>>)[i] = <<a, b, c>>[i]
  BY <1>1
<1> QED BY <1>1, <1>2, <1>3, SeqEqual

LEMMA Join31 ==
  ASSUME NEW a, NEW b, NEW c, NEW d
  PROVE  <<a, b, c>> \o <<d>> = <<a, b, c, d>>
<1> DEFINE S == Seq({a, b, c, d})
<1>1. <<a, b, c>> \in S /\ <<d>> \in S /\ <<a, b, c, d>> \in S /\ <<a, b, c>> \o <<d>> \in S
  OBVIOUS
<1>2. Len(<<a, b, c>> \o <<d>>) = 4 /\ Len(<<a, b, c, d>>) = 4
  BY <1>1
<1>3. \A i \in 1 .. 4 : (<<a, b, c>> \o <<d>>)[i] = <<a, b, c, d>>[i]
  BY <1>1
<1> QED BY <1>1, <1>2, <1>3, SeqEqual

LEMMA Join12 ==
  ASSUME NEW a, NEW b, NEW c
  PROVE  <<a>> \o <<b, c>> = <<a, b, c>>
<1> DEFINE S == Seq({a, b, c})
<1>1. <<a>> \in S /\ <<b, c>> \in S /\ <<a, b, c>> \in S /\ <<a>> \o <<b, c>> \in S
  OBVIOUS
<1>2. Len(<<a>> \o <<b, c>>) = 3 /\ Len(<<a, b, c>>) = 3
  BY <1>1
<1>3. \A i \in 1 .. 3 : (<<a>> \o <<b, c>>)[i] = <<a, b, c>>[i]
  BY <1>1
<1> QED BY <1>1, <1>2, <1>3, SeqEqual

LEMMA Join22 ==
  ASSUME NEW a, NEW b, NEW c, NEW d
  PROVE  <<a, b>> \o <<c, d>> = <<a, b, c, d>>
<1> DEFINE S == Seq({a, b, c, d})
<1>1. <<a, b>> \in S /\ <<c, d>> \in S /\ <<a, b, c, d>> \in S /\ <<a, b>> \o <<c, d>> \in S
  OBVIOUS
<1>2. Len(<<a, b>> \o <<c, d>>) = 4 /\ Len(<<a, b, c, d>>) = 4
  BY <1>1
<1>3. \A i \in 1 .. 4 : (<<a, b>> \o <<c, d>>)[i] = <<a, b, c, d>>[i]
  BY <1>1
<1> QED BY <1>1, <1>2, <1>3, SeqEqual

LEMMA Join32 ==
  ASSUME NEW a, NEW b, NEW c, NEW d, NEW e
  PROVE  <<a, b, c>> \o <<d, e>> = <<a, b, c, d, e>>
<1> DEFINE S == Seq({a, b, c, d, e})
<1>1. <<a, b, c>> \in S /\ <<d, e>> \in S /\ <<a, b, c, d, e>> \in S /\ <<a, b, c>> \o <<d, e>> \in S
  OBVIOUS
<1>2. Len(<<a, b, c>> \o <<d, e>>) = 5 /\ Len(<<a, b, c, d, e>>) = 5
  BY <1>1
<1>3. \A i \in 1 .. 5 : (<<a, b, c>> \o <<d, e>>)[i] = <<a, b, c, d, e>>[i]
  BY <1>1
<1> QED BY <1>1, <1>2, <1>3, SeqEqual

LEMMA Join13 ==
  ASSUME NEW a, NEW b, NEW c, NEW d
  PROVE  <<a>> \o <<b, c, d>> = <<a, b, c, d>>
<1> DEFINE S == Seq({a, b, c, d})
<1>1. <<a>> \in S /\ <<b, c, d>> \in S /\ <<a, b, c, d>> \in S /\ <<a>> \o <<b, c, d>> \in S
  OBVIOUS
<1>2. Len(<<a>> \o <<b, c, d>>) = 4 /\ Len(<<a, b, c, d>>) = 4
  BY <1>1
<1>3. \A i \in 1 .. 4 : (<<a>> \o <<b, c, d>>)[i] = <<a, b, c, d>>[i]
  BY <1>1
<1> QED BY <1>1, <1>2, <1>3, SeqEqual

LEMMA Join23 ==
  ASSUME NEW a, NEW b, NEW c, NEW d, NEW e
  PROVE  <<a, b>> \o <<c, d, e>> = <<a, b, c, d, e>>
<1> DEFINE S == Seq({a, b, c, d, e})
<1>1. <<a, b>> \in S /\ <<c, d, e>> \in S /\ <<a, b, c, d, e>> \in S /\ <<a, b>> \o <<c, d, e>> \in S
  OBVIOUS
<1>2. Len(<<a, b>> \o <<c, d, e>>) = 5 /\ Len(<<a, b, c, d, e>>) = 5
  BY <1>1
<1>3. \A i \in 1 .. 5 : (<<a, b>> \o <<c, d, e>>)[i] = <<a, b, c, d, e>>[i]
  BY <1>1
<1> QED BY <1>1, <1>2, <1>3, SeqEqual

LEMMA Join33 ==
  ASSUME NEW a, NEW b, NEW c, NEW d, NEW e, NEW f
  PROVE  <<a, b, c>> \o <<d, e, f>> = <<a, b, c, d, e, f>>
<1> DEFINE S == Seq({a, b, c, d, e, f})
<1>1. <<a, b, c>> \in S /\ <<d, e, f>> \in S /\ <<a, b, c, d, e, f>> \in S /\ <<a, b, c>> \o <<d, e, f>> \in S
  OBVIOUS
<1>2. Len(<<a, b, c>> \o <<d, e, f>>) = 6 /\ Len(<<a, b, c, d, e, f>>) = 6
  BY <1>1
<1>3. \A i \in 1 .. 6 : (<<a, b, c>> \o <<d, e, f>>)[i] = <<a, b, c, d, e, f>>[i]
  BY <1>1
<1> QED BY <1>1, <1>2, <1>3, SeqEqual

LEMMA Join42 ==
  ASSUME NEW a, NEW b, NEW c, NEW d, NEW e, NEW f
  PROVE  <<a, b, c, d>> \o <<e, f>> = <<a, b, c, d, e, f>>
<1> DEFINE S == Seq({a, b, c, d, e, f})
<1>1. <<a, b, c, d>> \in S /\ <<e, f>> \in S /\ <<a, b, c, d, e, f>> \in S /\ <<a, b, c, d>> \o <<e, f>> \in S
  OBVIOUS
<1>2. Len(<<a, b, c, d>> \o <<e, f>>) = 6 /\ Len(<<a, b, c, d, e, f>>) = 6
  BY <1>1
<1>3. \A i \in 1 .. 6 : (<<a, b, c, d>> \o <<e, f>>)[i] = <<a, b, c, d, e, f>>[i]
  BY <1>1
<1> QED BY <1>1, <1>2, <1>3, SeqEqual

LEMMA NothingJoined ==
  ASSUME NEW s \in Seq({"images", "tiles", "metadata"})
  PROVE  s \o <<>> = s /\ <<>> \o s = s
  BY ConcatEmptySeq

CopyList(type, what) ==
  (IF what = "metadata" THEN <<>> ELSE ImagesFirst(type, <<"tiles">>))
    \o (IF what = "tiles" THEN <<>> ELSE <<"metadata">>)
    \o (IF what = "metadata" THEN <<>> ELSE <<"agg">>)

DiffList(type, binary) ==
  ImagesFirst(type, <<"tiles", "metadata">>)
    \o (IF binary THEN <<"binary">> ELSE <<>>)
    \o <<"before", "after", "agg">>

PatchList(type, binary) ==
  ImagesFirst(type, <<"tiles", "metadata">>)
    \o (IF binary THEN <<"binary">> ELSE <<>>)
    \o <<"agg", "check">>

ApplyList(type) ==
  <<"upsert">>
    \o (IF type \in Normalized THEN <<"upsert_images", "delete", "collect">> ELSE <<"delete">>)
    \o <<"replace", "forget">>

LEMMA CopyTodo ==
  ASSUME NEW type \in Types, NEW what, what # "metadata"
  PROVE  CopyList(type, what) =
                IF type \in Normalized
                THEN IF what = "tiles" THEN <<"images", "tiles", "agg">>
                     ELSE <<"images", "tiles", "metadata", "agg">>
                ELSE IF what = "tiles" THEN <<"tiles", "agg">>
                     ELSE <<"tiles", "metadata", "agg">>
<1> DEFINE tiles == ImagesFirst(type, <<"tiles">>)
           todo == CopyList(type, what)
<1>1. tiles = IF type \in Normalized THEN <<"images", "tiles">> ELSE <<"tiles">>
  BY Join11 DEF ImagesFirst
<1>2. <<"images", "tiles">> \in Seq({"images", "tiles", "metadata"}) /\ <<"tiles">> \in Seq({"images", "tiles", "metadata"})
  OBVIOUS
<1> HIDE DEF tiles, todo
<1>3. CASE what = "tiles"
  <2>1. todo = tiles \o <<>> \o <<"agg">>
    BY <1>3 DEF tiles, todo, CopyList
  <2>2. todo = tiles \o <<"agg">>
    BY <1>1, <1>2, <2>1, NothingJoined
  <2>3. /\ <<"images", "tiles">> \o <<"agg">> = <<"images", "tiles", "agg">>
        /\ <<"tiles">> \o <<"agg">> = <<"tiles", "agg">>
    BY Join11, Join21
  <2> QED BY <1>1, <1>3, <2>2, <2>3 DEF todo
<1>4. CASE what # "tiles"
  <2>1. todo = tiles \o <<"metadata">> \o <<"agg">>
    BY <1>4 DEF tiles, todo, CopyList
  <2>2. tiles \o <<"metadata">> = IF type \in Normalized THEN <<"images", "tiles", "metadata">>
                                 ELSE <<"tiles", "metadata">>
    BY <1>1, Join11, Join21
  <2>3. /\ <<"images", "tiles", "metadata">> \o <<"agg">>
             = <<"images", "tiles", "metadata", "agg">>
        /\ <<"tiles", "metadata">> \o <<"agg">> = <<"tiles", "metadata", "agg">>
    BY Join21, Join31
  <2> QED BY <1>4, <2>1, <2>2, <2>3 DEF todo
<1> QED BY <1>3, <1>4

\* The tables and the metadata, and what there is to do with binary patches.
LEMMA TablesTodo ==
  ASSUME NEW type \in Types, NEW binary \in BOOLEAN, binary => type \in Flat
  PROVE  ImagesFirst(type, <<"tiles", "metadata">>) \o (IF binary THEN <<"binary">> ELSE <<>>)
           = IF type \in Normalized THEN <<"images", "tiles", "metadata">>
             ELSE IF binary THEN <<"tiles", "metadata", "binary">> ELSE <<"tiles", "metadata">>
<1> DEFINE tiles == ImagesFirst(type, <<"tiles", "metadata">>)
<1>1. tiles = IF type \in Normalized THEN <<"images", "tiles", "metadata">>
              ELSE <<"tiles", "metadata">>
  BY Join12 DEF ImagesFirst
<1>2. /\ <<"images", "tiles", "metadata">> \in Seq({"images", "tiles", "metadata"})
      /\ <<"tiles", "metadata">> \in Seq({"images", "tiles", "metadata"})
  OBVIOUS
<1>3. type \in Flat => type \notin Normalized
  BY DEF Flat, Normalized
<1> HIDE DEF tiles
<1>4. CASE binary
  <2>1. tiles \o <<"binary">> = <<"tiles", "metadata", "binary">>
    BY <1>1, <1>3, <1>4, Join21
  <2> QED BY <1>3, <1>4, <2>1 DEF tiles
<1>5. CASE ~binary
  <2>1. tiles \o <<>> = tiles
    BY <1>1, <1>2, NothingJoined
  <2> QED BY <1>1, <1>5, <2>1 DEF tiles
<1> QED BY <1>4, <1>5

LEMMA DiffTodo ==
  ASSUME NEW type \in Types, NEW binary \in BOOLEAN, binary => type \in Flat
  PROVE  DiffList(type, binary) =
                IF type \in Normalized
                THEN <<"images", "tiles", "metadata", "before", "after", "agg">>
                ELSE IF binary
                THEN <<"tiles", "metadata", "binary", "before", "after", "agg">>
                ELSE <<"tiles", "metadata", "before", "after", "agg">>
<1>1. ImagesFirst(type, <<"tiles", "metadata">>) \o (IF binary THEN <<"binary">> ELSE <<>>)
        = IF type \in Normalized THEN <<"images", "tiles", "metadata">>
          ELSE IF binary THEN <<"tiles", "metadata", "binary">> ELSE <<"tiles", "metadata">>
  BY TablesTodo
<1>2. <<"images", "tiles", "metadata">> \o <<"before", "after", "agg">>
        = <<"images", "tiles", "metadata", "before", "after", "agg">>
  BY Join33
<1>3. <<"tiles", "metadata", "binary">> \o <<"before", "after", "agg">>
        = <<"tiles", "metadata", "binary", "before", "after", "agg">>
  BY Join33
<1>4. <<"tiles", "metadata">> \o <<"before", "after", "agg">>
        = <<"tiles", "metadata", "before", "after", "agg">>
  BY Join23
<1> QED BY <1>1, <1>2, <1>3, <1>4 DEF DiffList

LEMMA PatchTodo ==
  ASSUME NEW type \in Types, NEW binary \in BOOLEAN, binary => type \in Flat
  PROVE  PatchList(type, binary) =
                IF type \in Normalized
                THEN <<"images", "tiles", "metadata", "agg", "check">>
                ELSE IF binary
                THEN <<"tiles", "metadata", "binary", "agg", "check">>
                ELSE <<"tiles", "metadata", "agg", "check">>
<1>1. ImagesFirst(type, <<"tiles", "metadata">>) \o (IF binary THEN <<"binary">> ELSE <<>>)
        = IF type \in Normalized THEN <<"images", "tiles", "metadata">>
          ELSE IF binary THEN <<"tiles", "metadata", "binary">> ELSE <<"tiles", "metadata">>
  BY TablesTodo
<1>2. <<"images", "tiles", "metadata">> \o <<"agg", "check">>
        = <<"images", "tiles", "metadata", "agg", "check">>
  BY Join32
<1>3. <<"tiles", "metadata", "binary">> \o <<"agg", "check">>
        = <<"tiles", "metadata", "binary", "agg", "check">>
  BY Join32
<1>4. <<"tiles", "metadata">> \o <<"agg", "check">> = <<"tiles", "metadata", "agg", "check">>
  BY Join22
<1> QED BY <1>1, <1>2, <1>3, <1>4 DEF PatchList

LEMMA ApplyTodo ==
  ASSUME NEW type
  PROVE  ApplyList(type) =
                IF type \in Normalized
                THEN <<"upsert", "upsert_images", "delete", "collect", "replace", "forget">>
                ELSE <<"upsert", "delete", "replace", "forget">>
<1>1. CASE type \in Normalized
  <2>1. <<"upsert">> \o <<"upsert_images", "delete", "collect">>
          = <<"upsert", "upsert_images", "delete", "collect">>
    BY Join13
  <2>2. <<"upsert", "upsert_images", "delete", "collect">> \o <<"replace", "forget">>
          = <<"upsert", "upsert_images", "delete", "collect", "replace", "forget">>
    BY Join42
  <2> QED BY <1>1, <2>1, <2>2 DEF ApplyList
<1>2. CASE type \notin Normalized
  <2>1. <<"upsert">> \o <<"delete">> = <<"upsert", "delete">>
    BY Join11
  <2>2. <<"upsert", "delete">> \o <<"replace", "forget">>
          = <<"upsert", "delete", "replace", "forget">>
    BY Join22
  <2> QED BY <1>2, <2>1, <2>2 DEF ApplyList
<1> QED BY <1>1, <1>2

-----------------------------------------------------------------------------
(* The file a command starts on.                                           *)

Begun(f, type) == [f EXCEPT !.type = type]

LEMMA BegunOnEmpty ==
  ASSUME NEW f, Shaped(f), IsEmpty(f), NEW type \in Schemas
  PROVE  /\ Shaped(Begun(f, type)) /\ Whole(Begun(f, type))
         /\ Begun(f, type).type = type /\ DOMAIN Begun(f, type).rows = {}
<1>1. f = NoFile
  BY DEF Shaped, IsEmpty
<1> QED BY <1>1, BegunFile DEF Begun

LEMMA BegunOnFile ==
  ASSUME NEW f, Shaped(f), ~IsEmpty(f)
  PROVE  LET g == Begun(f, f.type) IN
         /\ HasFields(g) /\ SameTables(g, f) /\ g.binary = f.binary
         /\ g.agg = f.agg /\ g.before = f.before /\ g.after = f.after
         /\ Shaped(g) /\ f.type \in Schemas
<1> DEFINE g == Begun(f, f.type)
<1>1. f.type \in Schemas
  BY DEF Shaped, IsEmpty
<1>2. /\ HasFields(g) /\ SameTables(g, f) /\ g.binary = f.binary
      /\ g.agg = f.agg /\ g.before = f.before /\ g.after = f.after
  BY DEF Shaped, NoFile, HasFields, SameTables, Begun
<1> HIDE DEF g
<1>3. Shaped(g)
  BY <1>1, <1>2, SameShape DEF Schemas
<1> QED BY <1>1, <1>2, <1>3 DEF g

LEMMA SchemaOf ==
  ASSUME NEW type \in Types, type # "dedup-id"
  PROVE  type \in Schemas
  BY DEF Types, Flat, Normalized, Schemas

LEMMA CopyStarts ==
  ASSUME NEW src, Fit(src), SoundFile(src), NEW dst, Fit(dst), NEW mode, NEW type \in Types,
         NEW what, what # "metadata", NEW todo, todo = CopyList(type, what),
         IsEmpty(dst) => mode = "override" /\ type # "dedup-id",
         ~IsEmpty(dst) => type = dst.type /\ ~IsPatch(src) /\ Whole(dst),
         IsPatch(src) => what = "all" /\ (type \in Normalized => HashedNulls(src))
  PROVE  Fit(Begun(dst, type)) /\ CopyOk(src, Begun(dst, type), mode, todo)
<1> DEFINE g == Begun(dst, type)
<1>1. todo = IF type \in Normalized
             THEN IF what = "tiles" THEN <<"images", "tiles", "agg">>
                  ELSE <<"images", "tiles", "metadata", "agg">>
             ELSE IF what = "tiles" THEN <<"tiles", "agg">>
                  ELSE <<"tiles", "metadata", "agg">>
  BY CopyTodo
<1>2. todo \in CopyTodos
  BY <1>1 DEF CopyTodos
<1>3. /\ Head(todo) = IF type \in Normalized THEN "images" ELSE "tiles"
      /\ what = "all" => todo \notin {<<"tiles", "agg">>, <<"images", "tiles", "agg">>}
  <2>1. CASE todo = <<"images", "tiles", "agg">>
    BY <1>1, <2>1
  <2>2. CASE todo = <<"images", "tiles", "metadata", "agg">>
    BY <1>1, <2>2
  <2>3. CASE todo = <<"tiles", "agg">>
    BY <1>1, <2>3
  <2>4. CASE todo = <<"tiles", "metadata", "agg">>
    BY <1>1, <2>4
  <2> QED BY <1>1, <2>1, <2>2, <2>3, <2>4
<1>4. Shaped(g) /\ Whole(g) /\ g.type = type /\ type \in Schemas
  <2>1. CASE IsEmpty(dst)
    BY <2>1, BegunOnEmpty, SchemaOf DEF Fit
  <2>2. CASE ~IsEmpty(dst)
    <3>1. type = dst.type /\ Shaped(dst) /\ Whole(dst)
      BY <2>2 DEF Fit
    <3>2. /\ SameTables(Begun(dst, dst.type), dst) /\ Shaped(Begun(dst, dst.type))
          /\ Begun(dst, dst.type).before = {} /\ Begun(dst, dst.type).after = {}
          /\ dst.type \in Schemas
      BY <2>2, <3>1, BegunOnFile DEF Whole
    <3>3. Whole(Begun(dst, dst.type))
      BY <3>1, <3>2, SameWhole
    <3> QED BY <3>1, <3>2, <3>3 DEF SameTables
  <2> QED BY <2>1, <2>2
<1>5. IsPatch(src) => mode = "override" /\ DOMAIN g.rows = {}
  <2>1. IsPatch(src) => IsEmpty(dst)
    OBVIOUS
  <2> QED BY <2>1, <1>4, BegunOnEmpty DEF Fit
<1>6. Linked(g) /\ g.before = {} /\ g.after = {}
  BY <1>4 DEF Whole
<1> HIDE DEF g
<1>7. Head(todo) = "tiles" => ImagesFor(g, HashedTiles(src))
  BY <1>3, <1>4 DEF ImagesFor
<1>8. CopyOk(src, g, mode, todo)
  BY <1>2, <1>3, <1>4, <1>5, <1>6, <1>7 DEF CopyOk
<1> QED BY <1>4, <1>8, WholeIsFit DEF g

LEMMA DiffStarts ==
  ASSUME NEW src, Fit(src), ~IsEmpty(src), NEW dif, NEW dst, Fit(dst), IsEmpty(dst),
         NEW type \in Types, type = "dedup-id" => src.type = "dedup-id",
         NEW binary \in BOOLEAN, binary => type \in Flat, NEW todo, todo = DiffList(type, binary)
  PROVE  Fit(Begun(dst, type)) /\ DiffOk(src, dif, Begun(dst, type), binary, todo)
<1> DEFINE g == Begun(dst, type)
<1>1. todo = IF type \in Normalized
             THEN <<"images", "tiles", "metadata", "before", "after", "agg">>
             ELSE IF binary
             THEN <<"tiles", "metadata", "binary", "before", "after", "agg">>
             ELSE <<"tiles", "metadata", "before", "after", "agg">>
  BY DiffTodo
<1>2. /\ Head(<<"images", "tiles", "metadata", "before", "after", "agg">>) = "images"
      /\ Head(<<"tiles", "metadata", "binary", "before", "after", "agg">>) = "tiles"
      /\ Head(<<"tiles", "metadata", "before", "after", "agg">>) = "tiles"
  OBVIOUS
<1>3. /\ todo \in DiffTodos /\ Head(todo) \in {"images", "tiles"}
      /\ Head(todo) = "tiles" => type \notin Normalized
  BY <1>1, <1>2 DEF DiffTodos
<1>4. todo \in NoBinaryTodos => ~binary
  BY <1>1 DEF NoBinaryTodos, Flat, Normalized
<1>5. type \in Schemas
  BY SchemaOf DEF Fit, Shaped, Schemas
<1>6. Shaped(g) /\ Whole(g) /\ g.type = type /\ DOMAIN g.rows = {}
  BY <1>5, BegunOnEmpty DEF Fit
<1> HIDE DEF g
<1>7. Head(todo) = "tiles" => ImagesFor(g, Difference(src, dif, binary))
  BY <1>3, <1>6 DEF ImagesFor
<1>8. DiffOk(src, dif, g, binary, todo)
  BY <1>3, <1>4, <1>5, <1>6, <1>7 DEF DiffOk, Whole
<1> QED BY <1>6, <1>8, WholeIsFit DEF g

LEMMA PatchStarts ==
  ASSUME NEW src, Fit(src), ~IsEmpty(src), NEW dif, NEW dst, Fit(dst), IsEmpty(dst),
         NEW type \in Types, type = "dedup-id" => src.type = "dedup-id",
         HasBinary(dif) => type \in Flat, NEW todo,
         todo = PatchList(type, HasBinary(dif))
  PROVE  Fit(Begun(dst, type)) /\ PatchOk(src, dif, Begun(dst, type), todo)
<1> DEFINE g == Begun(dst, type)
<1>1. todo = IF type \in Normalized
             THEN <<"images", "tiles", "metadata", "agg", "check">>
             ELSE IF HasBinary(dif)
             THEN <<"tiles", "metadata", "binary", "agg", "check">>
             ELSE <<"tiles", "metadata", "agg", "check">>
  <2>1. HasBinary(dif) \in BOOLEAN
    BY DEF HasBinary
  <2> QED BY <2>1, PatchTodo
<1>2. /\ Head(<<"images", "tiles", "metadata", "agg", "check">>) = "images"
      /\ Head(<<"tiles", "metadata", "binary", "agg", "check">>) = "tiles"
      /\ Head(<<"tiles", "metadata", "agg", "check">>) = "tiles"
  OBVIOUS
<1>3. /\ todo \in PatchTodos /\ Head(todo) \in {"images", "tiles"}
      /\ Head(todo) = "tiles" => type \notin Normalized
  BY <1>1, <1>2 DEF PatchTodos
<1>4. todo \in BinaryTodos => type \in Flat
  BY <1>1 DEF BinaryTodos
<1>5. type \in Schemas
  BY SchemaOf DEF Fit, Shaped, Schemas
<1>6. Shaped(g) /\ Whole(g) /\ g.type = type
  BY <1>5, BegunOnEmpty DEF Fit
<1> HIDE DEF g
<1>7. Head(todo) = "tiles" => ImagesFor(g, Patched(src, dif))
  BY <1>3, <1>6 DEF ImagesFor
<1>8. PatchOk(src, dif, g, todo)
  BY <1>3, <1>4, <1>5, <1>6, <1>7 DEF PatchOk
<1> QED BY <1>6, <1>8, WholeIsFit DEF g

LEMMA ApplyListIs ==
  ASSUME NEW type \in Schemas
  PROVE  /\ ApplyList(type) \in ApplyTodos /\ Head(ApplyList(type)) = "upsert"
         /\ ApplyList(type) = <<"upsert", "delete", "replace", "forget">> => type \in Flat
<1> DEFINE todo == ApplyList(type)
<1>1. CASE type \in Normalized
  <2>1. todo = <<"upsert", "upsert_images", "delete", "collect", "replace", "forget">>
    BY <1>1, ApplyTodo
  <2> HIDE DEF todo
  <2>2. Head(todo) = "upsert" /\ todo # <<"upsert", "delete", "replace", "forget">>
    BY <2>1
  <2> QED BY <2>1, <2>2 DEF ApplyTodos, todo
<1>2. CASE type \notin Normalized
  <2>1. todo = <<"upsert", "delete", "replace", "forget">>
    BY <1>2, ApplyTodo
  <2>2. type \in Flat
    BY <1>2 DEF Schemas, Flat, Normalized
  <2> HIDE DEF todo
  <2>3. Head(todo) = "upsert"
    BY <2>1
  <2> QED BY <2>1, <2>2, <2>3 DEF ApplyTodos, todo
<1> QED BY <1>1, <1>2

LEMMA ApplyStarts ==
  ASSUME NEW dif, Fit(dif), IsPatch(dif), ~HasBinary(dif),
         NEW dst, NEW left, FileOk(dst, left), ~IsEmpty(dst), CanBeDiffed(dst),
         left.state \in Standings, left.state # "unknown",
         left.state = "half patched" => left.to \in {dif.after, dst.agg},
         dst.agg = dif.before, NEW todo, todo = ApplyList(dst.type)
  PROVE  Fit(Begun(dst, dst.type)) /\ ApplyOk(dif, Begun(dst, dst.type), todo)
<1> DEFINE g == Begun(dst, dst.type)
<1>3. /\ HasFields(g) /\ SameTables(g, dst) /\ g.agg = dst.agg
      /\ g.before = dst.before /\ g.after = dst.after
      /\ Shaped(g) /\ dst.type \in Schemas
  BY BegunOnFile DEF FileOk, Fit
<1> HIDE DEF g
<1>4. /\ todo \in ApplyTodos /\ Head(todo) = "upsert"
      /\ todo = <<"upsert", "delete", "replace", "forget">> => dst.type \in Flat
  BY <1>3, ApplyListIs
<1>5. PICK B \in TileSets, A \in TileSets :
        dif.before = {B} /\ dif.after = {A} /\ Turns(dif, B, A)
  BY DEF Fit, MeansPatch
<1>6. dst.agg = {B} /\ Shaped(dst) /\ dst.before = {} /\ dst.after = {}
  BY <1>5 DEF CanBeDiffed, FileOk, Fit
<1>7. OnTheWay(dst, B, A)
  <2>1. CASE left.state = "sound"
    <3>1. SoundFile(dst) /\ ~IsPatch(dst)
      BY <1>6, <2>1 DEF FileOk, IsPatch
    <3>2. Whole(dst) /\ Tiles(dst) = B
      BY <1>6, <3>1 DEF SoundFile
    <3>3. \A c \in Coords : ShownAt(dst, c, B)
      BY <1>6, <3>2, WholeView
    <3> QED BY <1>6, <3>3 DEF OnTheWay, HalfAt
  <2>2. CASE left.state = "half patched"
    <3>1. PICK C \in TileSets :
            left.to = {C} /\ (Arrived(dst, C) \/ \E D \in TileSets : OnTheWay(dst, D, C))
      BY <2>2 DEF FileOk, HalfPatched
    <3>2. C = A \/ C = B
      BY <1>5, <1>6, <2>2, <3>1
    <3>3. CASE Arrived(dst, C)
      BY <1>6, <3>3 DEF Arrived, OnTheWay, HalfAt
    <3>4. CASE \E D \in TileSets : OnTheWay(dst, D, C)
      <4>1. OnTheWay(dst, B, C)
        BY <1>6, <3>4 DEF OnTheWay
      <4> QED BY <3>2, <4>1 DEF OnTheWay, HalfAt
    <3> QED BY <3>1, <3>3, <3>4
  <2> QED BY <2>1, <2>2 DEF Standings
<1>8. OnTheWay(g, B, A)
  BY <1>3, <1>7, SameHalf DEF OnTheWay
<1>9. ApplyStage(g, B, A, todo)
  BY <1>4, <1>8 DEF ApplyStage
<1>10. ApplyOk(dif, g, todo)
  BY <1>3, <1>4, <1>5, <1>6, <1>9 DEF ApplyOk, SameTables
<1> QED BY <1>3, <1>6, <1>10, NoPatch DEF g

-----------------------------------------------------------------------------
(* One statement of the command that runs, among the files.                *)

\* What the statement leaves is fit for the rest of the command.
Goes(g) ==
  /\ job.command = "copy" => CopyGoes(Src, g, job.mode, job.todo)
  /\ job.command = "diff" => DiffGoes(Src, Dif, g, job.binary, job.todo)
  /\ job.command = "patch" => PatchGoes(Src, Dif, g, job.todo)
  /\ job.command = "apply" => ApplyGoes(Dif, g, job.todo)

LEMMA JobFacts ==
  ASSUME HashInv, job.todo # <<>>
  PROVE  /\ job # NoJob /\ DOMAIN job = DOMAIN NoJob /\ job.dst \in Names
         /\ job.command \in {"copy", "diff", "patch", "apply"}
         /\ Shaped(Dst) /\ Fit(Dst)
<1>1. job # NoJob
  <2>1. NoJob.todo = <<>>
    BY DEF NoJob
  <2> QED BY <2>1
<1>2. DOMAIN job = DOMAIN NoJob /\ job.dst \in Names
      /\ job.command \in {"copy", "diff", "patch", "apply"}
  BY <1>1 DEF HashInv, JobInv
<1> QED BY <1>1, <1>2 DEF HashInv, FilesInv, FileOk, Fit, Dst

LEMMA StatementFails ==
  ASSUME HashInv, job' = NoJob, UNCHANGED <<file, standing>>
  PROVE  HashInv'
  BY DEF HashInv, FilesInv, JobInv

LEMMA LastStatement ==
  ASSUME HashInv, job.todo # <<>>, NEW g, Goes(g), Tail(job.todo) = <<>>,
         file' = [file EXCEPT ![job.dst] = g], job' = NoJob,
         standing' = [standing EXCEPT ![job.dst] = Left("sound", {})]
  PROVE  HashInv'
<1>1. Fit(g) /\ SoundFile(g)
  BY JobFacts DEF Goes, CopyGoes, DiffGoes, PatchGoes, ApplyGoes
<1>2. Left("sound", {}).state = "sound"
  BY DEF Left
<1>3. FileOk(g, Left("sound", {})) /\ Left("sound", {}).state \in Standings
  BY <1>1, <1>2 DEF FileOk, Standings
<1>4. ASSUME NEW n \in Names
      PROVE  standing'[n].state \in Standings /\ FileOk(file'[n], standing'[n])
  <2>1. CASE n = job.dst
    <3>1. file'[n] = g /\ standing'[n] = Left("sound", {})
      BY <2>1 DEF HashInv, FilesInv
    <3> QED BY <1>3, <3>1
  <2>2. CASE n # job.dst
    <3>1. file'[n] = file[n] /\ standing'[n] = standing[n]
      BY <2>2 DEF HashInv, FilesInv
    <3> QED BY <3>1 DEF HashInv, FilesInv
  <2> QED BY <2>1, <2>2
<1>5. FilesInv'
  BY <1>4 DEF HashInv, FilesInv
<1> QED BY <1>5 DEF HashInv, JobInv

LEMMA NextStatement ==
  ASSUME HashInv, job.todo # <<>>, NEW g, Goes(g), Tail(job.todo) # <<>>,
         file' = [file EXCEPT ![job.dst] = g], job' = [job EXCEPT !.todo = Tail(job.todo)],
         standing' = standing
  PROVE  HashInv'
<1>1. /\ job # NoJob /\ DOMAIN job = DOMAIN NoJob /\ job.dst \in Names
  BY JobFacts
<1>2. /\ job'.command = job.command /\ job'.src = job.src /\ job'.dif = job.dif
      /\ job'.dst = job.dst /\ job'.mode = job.mode /\ job'.binary = job.binary
      /\ job'.todo = Tail(job.todo) /\ DOMAIN job' = DOMAIN NoJob
  BY <1>1 DEF NoJob
<1>3. /\ DOMAIN file' = Names /\ file'[job.dst] = g
      /\ \A n \in Names : n # job.dst => file'[n] = file[n]
  BY <1>1 DEF HashInv, FilesInv
<1>4. ASSUME NEW n, IsSource(n)
      PROVE  /\ file'[n] = file[n] /\ n \in Names /\ n # job'.dst
             /\ standing'[n].state = "sound" /\ ~IsEmpty(file'[n])
  BY <1>2, <1>3, <1>4 DEF IsSource, Sound
<1>5. Fit(g)
  BY JobFacts DEF Goes, CopyGoes, DiffGoes, PatchGoes, ApplyGoes
<1>6. Left("unknown", {}).state = "unknown"
      /\ \A to : Left("half patched", to).state = "half patched" /\ Left("half patched", to).to = to
  BY DEF Left
<1>7. Dst' = g
  BY <1>2, <1>3 DEF Dst
<1>8. CASE job.command = "copy"
  <2>1. /\ job.mode \in Modes /\ IsSource(job.src) /\ ~HasBinary(Src)
        /\ standing[job.dst] = Left("unknown", {})
    BY <1>1, <1>8 DEF HashInv, JobInv
  <2>2. Src' = Src
    BY <1>2, <1>4, <2>1 DEF Src
  <2>3. CopyOk(Src, g, job.mode, Tail(job.todo))
    BY <1>8 DEF Goes, CopyGoes
  <2>4. FileOk(g, standing[job.dst])
    BY <1>5, <1>6, <2>1 DEF FileOk
  <2>5. JobInv'
    <3>1. IsSource(job.src)'
      BY <1>2, <1>4, <2>1 DEF IsSource, Sound
    <3>2. CopyOk(Src, Dst, job.mode, job.todo)'
      BY <1>2, <1>7, <2>2, <2>3
    <3>3. (~HasBinary(Src))' /\ standing'[job'.dst] = Left("unknown", {})
      BY <1>2, <2>1, <2>2
    <3> QED BY <1>1, <1>2, <1>8, <2>1, <3>1, <3>2, <3>3 DEF JobInv
  <2> QED BY <1>1, <1>3, <2>4, <2>5 DEF HashInv, FilesInv
<1>9. CASE job.command = "diff"
  <2>1. /\ job.mode = "override" /\ job.binary \in BOOLEAN
        /\ IsSource(job.src) /\ CanBeDiffed(Src) /\ IsSource(job.dif) /\ CanBeDiffed(Dif)
        /\ standing[job.dst] = Left("unknown", {})
    BY <1>1, <1>9 DEF HashInv, JobInv
  <2>2. Src' = Src /\ Dif' = Dif
    BY <1>2, <1>4, <2>1 DEF Src, Dif
  <2>3. DiffOk(Src, Dif, g, job.binary, Tail(job.todo))
    BY <1>9 DEF Goes, DiffGoes
  <2>4. FileOk(g, standing[job.dst])
    BY <1>5, <1>6, <2>1 DEF FileOk
  <2>5. JobInv'
    <3>1. IsSource(job.src)' /\ IsSource(job.dif)'
      BY <1>2, <1>4, <2>1 DEF IsSource, Sound
    <3>2. DiffOk(Src, Dif, Dst, job.binary, job.todo)'
      BY <1>2, <1>7, <2>2, <2>3
    <3>3. CanBeDiffed(Src)' /\ CanBeDiffed(Dif)' /\ standing'[job'.dst] = Left("unknown", {})
      BY <1>2, <2>1, <2>2
    <3> QED BY <1>1, <1>2, <1>9, <2>1, <3>1, <3>2, <3>3 DEF JobInv
  <2> QED BY <1>1, <1>3, <2>4, <2>5 DEF HashInv, FilesInv
<1>10. CASE job.command = "patch"
  <2>1. /\ job.mode = "override"
        /\ IsSource(job.src) /\ CanBeDiffed(Src)
        /\ job.dif \in Names /\ job.dif # job.dst /\ IsPatch(Dif)
        /\ standing[job.dst] = Left("unknown", {})
    BY <1>1, <1>10 DEF HashInv, JobInv
  <2>2. Src' = Src /\ Dif' = Dif
    BY <1>2, <1>3, <1>4, <2>1 DEF Src, Dif
  <2>3. PatchOk(Src, Dif, g, Tail(job.todo))
    BY <1>10 DEF Goes, PatchGoes
  <2>4. FileOk(g, standing[job.dst])
    BY <1>5, <1>6, <2>1 DEF FileOk
  <2>5. JobInv'
    <3>1. IsSource(job.src)' /\ job'.dif \in Names /\ job'.dif # job'.dst
      BY <1>2, <1>4, <2>1 DEF IsSource, Sound
    <3>2. PatchOk(Src, Dif, Dst, job.todo)'
      BY <1>2, <1>7, <2>2, <2>3
    <3>3. CanBeDiffed(Src)' /\ IsPatch(Dif)' /\ standing'[job'.dst] = Left("unknown", {})
      BY <1>2, <2>1, <2>2
    <3> QED BY <1>1, <1>2, <1>10, <2>1, <3>1, <3>2, <3>3 DEF JobInv
  <2> QED BY <1>1, <1>3, <2>4, <2>5 DEF HashInv, FilesInv
<1>11. CASE job.command = "apply"
  <2>1. /\ job.dif \in Names /\ job.dif # job.dst /\ IsPatch(Dif) /\ ~HasBinary(Dif)
        /\ standing[job.dst] = Left("half patched", Dif.after)
    BY <1>1, <1>11 DEF HashInv, JobInv
  <2>2. Dif' = Dif
    BY <1>2, <1>3, <2>1 DEF Dif
  <2>3. ApplyOk(Dif, g, Tail(job.todo))
    BY <1>11 DEF Goes, ApplyGoes
  <2>4. FileOk(g, standing[job.dst])
    <3>1. HalfPatched(g, Dif.after)
      BY <2>3, ApplyIsHalf
    <3>2. standing[job.dst].state = "half patched" /\ standing[job.dst].to = Dif.after
      BY <1>6, <2>1
    <3> QED BY <1>5, <3>1, <3>2 DEF FileOk
  <2>5. JobInv'
    <3>1. job'.dif \in Names /\ job'.dif # job'.dst
      BY <1>2, <2>1
    <3>2. ApplyOk(Dif, Dst, job.todo)'
      BY <1>2, <1>7, <2>2, <2>3
    <3>3. /\ IsPatch(Dif)' /\ (~HasBinary(Dif))'
          /\ standing'[job'.dst] = Left("half patched", Dif'.after)
      BY <1>2, <2>1, <2>2
    <3> QED BY <1>1, <1>2, <1>11, <2>1, <3>1, <3>2, <3>3 DEF JobInv
  <2> QED BY <1>1, <1>3, <2>4, <2>5 DEF HashInv, FilesInv
<1> QED BY <1>8, <1>9, <1>10, <1>11, JobFacts

LEMMA StatementGoes ==
  ASSUME HashInv, job.todo # <<>>, NEW files, Becomes(files), \A g \in files : Goes(g)
  PROVE  HashInv'
<1>1. CASE files = {}
  BY <1>1, StatementFails DEF Becomes
<1>2. CASE files # {}
  <2>1. PICK g \in files : file' = [file EXCEPT ![job.dst] = g]
    BY <1>2 DEF Becomes
  <2>2. CASE Tail(job.todo) = <<>>
    BY <1>2, <2>1, <2>2, LastStatement DEF Becomes
  <2>3. CASE Tail(job.todo) # <<>>
    BY <1>2, <2>1, <2>3, NextStatement DEF Becomes
  <2> QED BY <2>2, <2>3
<1> QED BY <1>1, <1>2

-----------------------------------------------------------------------------
(* What is known while each command runs.                                  *)

LEMMA Copying ==
  ASSUME HashInv, job.todo # <<>>, job.command = "copy"
  PROVE  /\ job.mode \in Modes /\ Fit(Src) /\ SoundFile(Src) /\ ~HasBinary(Src)
         /\ Fit(Dst) /\ CopyOk(Src, Dst, job.mode, job.todo)
         /\ Head(job.todo) \in {"images", "tiles", "metadata", "agg"}
<1>1. /\ job.mode \in Modes /\ IsSource(job.src) /\ ~HasBinary(Src)
      /\ CopyOk(Src, Dst, job.mode, job.todo)
  BY JobFacts DEF HashInv, JobInv
<1>2. Fit(Src) /\ SoundFile(Src)
  BY <1>1 DEF HashInv, FilesInv, FileOk, IsSource, Sound, Src
<1>3. Head(job.todo) \in {"images", "tiles", "metadata", "agg"}
  BY <1>1, CopyGoesOn DEF CopyOk
<1> QED BY <1>1, <1>2, <1>3, JobFacts

LEMMA Diffing ==
  ASSUME HashInv, job.todo # <<>>, job.command = "diff"
  PROVE  /\ job.mode = "override" /\ job.binary \in BOOLEAN /\ Diffable(Src) /\ Diffable(Dif)
         /\ Fit(Dst) /\ DiffOk(Src, Dif, Dst, job.binary, job.todo)
         /\ Head(job.todo) \in {"images", "tiles", "metadata", "binary", "before", "after", "agg"}
         /\ standing[job.dst] = Left("unknown", {})
<1>1. /\ job.mode = "override" /\ job.binary \in BOOLEAN
      /\ IsSource(job.src) /\ CanBeDiffed(Src) /\ IsSource(job.dif) /\ CanBeDiffed(Dif)
      /\ DiffOk(Src, Dif, Dst, job.binary, job.todo)
      /\ standing[job.dst] = Left("unknown", {})
  BY JobFacts DEF HashInv, JobInv
<1>2. Diffable(Src) /\ Diffable(Dif)
  BY <1>1 DEF HashInv, FilesInv, FileOk, IsSource, Sound, Src, Dif, Diffable
<1>3. Head(job.todo) \in {"images", "tiles", "metadata", "binary", "before", "after", "agg"}
  BY <1>1, DiffGoesOn DEF DiffOk
<1> QED BY <1>1, <1>2, <1>3, JobFacts

LEMMA Patching ==
  ASSUME HashInv, job.todo # <<>>, job.command = "patch"
  PROVE  /\ job.mode = "override" /\ Diffable(Src) /\ Fit(Dif)
         /\ Fit(Dst) /\ PatchOk(Src, Dif, Dst, job.todo)
         /\ Head(job.todo) \in {"images", "tiles", "metadata", "binary", "agg", "check"}
         /\ standing[job.dst] = Left("unknown", {})
<1>1. /\ job.mode = "override" /\ IsSource(job.src) /\ CanBeDiffed(Src)
      /\ job.dif \in Names /\ PatchOk(Src, Dif, Dst, job.todo)
      /\ standing[job.dst] = Left("unknown", {})
  BY JobFacts DEF HashInv, JobInv
<1>2. Diffable(Src) /\ Fit(Dif)
  BY <1>1 DEF HashInv, FilesInv, FileOk, IsSource, Sound, Src, Dif, Diffable
<1>3. Head(job.todo) \in {"images", "tiles", "metadata", "binary", "agg", "check"}
  BY <1>1, PatchGoesOn DEF PatchOk
<1> QED BY <1>1, <1>2, <1>3, JobFacts

LEMMA Applying ==
  ASSUME HashInv, job.todo # <<>>, job.command = "apply"
  PROVE  /\ Fit(Dif) /\ Fit(Dst) /\ ApplyOk(Dif, Dst, job.todo)
         /\ Head(job.todo) \in
              {"upsert", "upsert_images", "delete", "collect", "replace", "forget"}
<1>1. job.dif \in Names /\ ApplyOk(Dif, Dst, job.todo)
  BY JobFacts DEF HashInv, JobInv
<1>2. Fit(Dif)
  BY <1>1 DEF HashInv, FilesInv, FileOk, Dif
<1>3. Head(job.todo) \in {"upsert", "upsert_images", "delete", "collect", "replace", "forget"}
  BY <1>1, ApplyGoesOn DEF ApplyOk
<1> QED BY <1>1, <1>2, <1>3, JobFacts

\* The file is a record of these fields, whatever command runs.
LEMMA DstFields ==
  ASSUME HashInv, job.todo # <<>>
  PROVE  DOMAIN Dst = DOMAIN NoFile
  BY JobFacts DEF Shaped

-----------------------------------------------------------------------------
(* Every statement keeps the invariant.                                    *)

LEMMA ImagesKeep ==
  ASSUME HashInv, CopyImages
  PROVE  HashInv'
<1>1. job.todo # <<>> /\ Head(job.todo) = "images"
  BY DEF CopyImages, Doing
<1> DEFINE g == [Dst EXCEPT !.images = Overlay(Images(Selected), Dst.images)]
           files == IF Dst.type = "dedup-id" THEN {} ELSE {g}
<1>2. Becomes(files)
  BY DEF CopyImages
<1>3. Goes(g)
  <2>1. ASSUME job.command = "copy" PROVE CopyGoes(Src, g, job.mode, job.todo)
    BY <1>1, <2>1, Copying, CopyImagesGoes DEF Selected
  <2>2. ASSUME job.command = "diff" PROVE DiffGoes(Src, Dif, g, job.binary, job.todo)
    BY <1>1, <2>2, Diffing, DiffImagesGoes DEF Selected
  <2>3. ASSUME job.command = "patch" PROVE PatchGoes(Src, Dif, g, job.todo)
    BY <1>1, <2>3, Patching, PatchImagesGoes DEF Selected
  <2>4. job.command # "apply"
    BY <1>1, Applying
  <2> QED BY <2>1, <2>2, <2>3, <2>4 DEF Goes
<1> HIDE DEF g
<1>4. \A h \in files : Goes(h)
  BY <1>3
<1> QED BY <1>1, <1>2, <1>4, StatementGoes

LEMMA TilesKeep ==
  ASSUME HashInv, CopyTiles
  PROVE  HashInv'
<1>1. job.todo # <<>> /\ Head(job.todo) = "tiles"
  BY DEF CopyTiles, Doing
<1> DEFINE new == Insertable(Selected)
           stored == [c \in DOMAIN new |-> Stored(Dst.type, new[c])]
           files == IF job.mode = "abort" /\ ~AbortWorks THEN {}
                    ELSE {[Dst EXCEPT !.rows = t] : t \in Insert(Dst.rows, stored, job.mode)}
<1>2. Becomes(files)
  BY DEF CopyTiles
<1>3. job.mode # "abort" => new = Selected
  BY DEF Insertable
<1>4. Part(new, Selected)
  BY DEF Insertable, Part, Only
<1> HIDE DEF new
<1>5. ASSUME NEW t \in Insert(Dst.rows, stored, job.mode) PROVE Goes([Dst EXCEPT !.rows = t])
  <2> DEFINE g == [Dst EXCEPT !.rows = t]
  <2>1. ASSUME job.command = "copy" PROVE CopyGoes(Src, g, job.mode, job.todo)
    <3>1. Selected = HashedTiles(Src)
      BY <2>1 DEF Selected
    <3> QED BY <1>1, <1>3, <1>4, <1>5, <2>1, <3>1, Copying, CopyTilesGoes
  <2>2. ASSUME job.command = "diff" PROVE DiffGoes(Src, Dif, g, job.binary, job.todo)
    <3>1. new = Difference(Src, Dif, job.binary) /\ job.mode = "override"
      BY <1>1, <1>3, <2>2, Diffing DEF Selected
    <3> QED BY <1>1, <1>5, <2>2, <3>1, Diffing, DiffTilesGoes
  <2>3. ASSUME job.command = "patch" PROVE PatchGoes(Src, Dif, g, job.todo)
    <3>1. new = Patched(Src, Dif) /\ job.mode = "override"
      BY <1>1, <1>3, <2>3, Patching DEF Selected
    <3> QED BY <1>1, <1>5, <2>3, <3>1, Patching, PatchTilesGoes
  <2>4. job.command # "apply"
    BY <1>1, Applying
  <2> QED BY <2>1, <2>2, <2>3, <2>4 DEF Goes
<1> HIDE DEF stored
<1>6. \A h \in files : Goes(h)
  BY <1>5
<1> HIDE DEF files
<1> QED BY <1>1, <1>2, <1>6, StatementGoes

LEMMA MetadataKeep ==
  ASSUME HashInv, CopyMetadata
  PROVE  HashInv'
<1>1. job.todo # <<>> /\ Head(job.todo) = "metadata"
  BY DEF CopyMetadata, Doing
<1>2. DOMAIN Dst = DOMAIN NoFile
  BY <1>1, DstFields
<1>3. CASE job.command = "copy"
  <2> DEFINE g == [Dst EXCEPT !.title = MergedOption(Dst.title, Src.title),
                              !.agg = MergedOption(Dst.agg, Src.agg),
                              !.before = MergedOption(Dst.before, Src.before),
                              !.after = MergedOption(Dst.after, Src.after)]
             files == IF job.mode = "abort" /\ Clashes(Dst, Src) THEN {} ELSE {g}
  <2>1. Becomes(files)
    BY <1>3 DEF CopyMetadata
  <2>2. /\ HasFields(g) /\ SameTables(g, Dst) /\ g.binary = Dst.binary
        /\ g.before = MergedOption(Dst.before, Src.before)
        /\ g.after = MergedOption(Dst.after, Src.after)
    BY <1>2 DEF HasFields, SameTables, NoFile
  <2> HIDE DEF g
  <2>3. /\ IF Src.before = {} THEN g.before = Dst.before
           ELSE Dst.before = {} => g.before = Src.before
        /\ IF Src.after = {} THEN g.after = Dst.after
           ELSE Dst.after = {} => g.after = Src.after
    BY <2>2 DEF MergedOption
  <2>4. CopyGoes(Src, g, job.mode, job.todo)
    BY <1>1, <1>3, <2>2, <2>3, Copying, CopyMetadataGoes
  <2>5. \A h \in files : Goes(h)
    BY <1>3, <2>4 DEF Goes
  <2> HIDE DEF files
  <2> QED BY <1>1, <2>1, <2>5, StatementGoes
<1>4. CASE job.command \in {"diff", "patch"}
  <2>1. PICK title : Becomes({[Dst EXCEPT !.title = title]})
    BY <1>4 DEF CopyMetadata
  <2> DEFINE g == [Dst EXCEPT !.title = title]
  <2>2. /\ HasFields(g) /\ SameTables(g, Dst) /\ g.binary = Dst.binary
        /\ g.before = Dst.before /\ g.after = Dst.after
    BY <1>2 DEF HasFields, SameTables, NoFile
  <2>3. Becomes({g})
    BY <2>1
  <2> HIDE DEF g
  <2>4. ASSUME job.command = "diff" PROVE DiffGoes(Src, Dif, g, job.binary, job.todo)
    BY <1>1, <2>2, <2>4, Diffing, DiffMetadataGoes
  <2>5. ASSUME job.command = "patch" PROVE PatchGoes(Src, Dif, g, job.todo)
    BY <1>1, <2>2, <2>5, Patching, PatchMetadataGoes
  <2>6. Goes(g)
    BY <1>4, <2>4, <2>5 DEF Goes
  <2> QED BY <1>1, <2>3, <2>6, StatementGoes
<1>5. job.command # "apply"
  BY <1>1, Applying
<1> QED BY <1>1, <1>3, <1>4, <1>5, JobFacts

\* Binary patches, all of them or some.
LEMMA BinaryGoes ==
  ASSUME HashInv, job.todo # <<>>, Head(job.todo) = "binary", NEW coords, coords \subseteq ToMake
  PROVE  Goes(WithBinary(coords)) /\ job.command \in {"diff", "patch"}
<1>1. job.command \in {"diff", "patch"}
  BY JobFacts, Copying, Applying
<1>2. CASE job.command = "diff"
  <2> DEFINE patches == Only(BinaryRows, coords)
             old == Tiles(Src)
             new == Tiles(Dif)
             both == {c \in DOMAIN old \cap DOMAIN new :
                        Null \notin {old[c], new[c]} /\ old[c] # new[c]}
  <2>1. new \in TileSets
    BY <1>2, Diffing, DiffableFile
  <2>2. BinaryRows = [c \in both |-> [from |-> old[c], to |-> new[c]]]
    BY DEF BinaryRows
  <2>3. \A c \in both : c \in Coords /\ new[c] \in Data
    BY <2>1, TileSetIs
  <2> HIDE DEF old, new, both
  <2>4. \A c \in DOMAIN patches : c \in Coords /\ patches[c].to \in Data
    BY <2>2, <2>3 DEF Only
  <2> HIDE DEF patches
  <2>5. DiffGoes(Src, Dif, [Dst EXCEPT !.binary = {patches}], job.binary, job.todo)
    BY <1>2, <2>4, Diffing, DiffBinaryGoes
  <2> QED BY <1>1, <1>2, <2>5 DEF Goes, WithBinary, patches
<1>3. CASE job.command = "patch"
  <2> DEFINE P == Patches(Src, Dif)
             tiles == [c \in coords |-> P[c].to]
             new == [c \in coords |-> Stored(Dst.type, [data |-> P[c].to, hash |-> Md5(P[c].to)])]
  <2>1. coords \subseteq DOMAIN P
    BY <1>3 DEF ToMake
  <2>2. Shaped(Dif)
    BY <1>3, Patching DEF Fit
  <2>3. ASSUME NEW c \in coords PROVE c \in Coords /\ P[c].to \in Data
    <3>1. CASE HasBinary(Dif)
      <4>1. Value(Dif.binary) \in Dif.binary
        BY <3>1 DEF HasBinary, Value
      <4>2. \A x \in DOMAIN Value(Dif.binary) : x \in Coords /\ Value(Dif.binary)[x].to \in Data
        BY <2>2, <4>1 DEF Shaped
      <4>3. c \in DOMAIN Value(Dif.binary) /\ P[c] = Value(Dif.binary)[c]
        BY <2>1, <3>1 DEF Patches, Only
      <4> QED BY <4>2, <4>3
    <3>2. CASE ~HasBinary(Dif)
      <4>1. c \in DOMAIN Empty
        BY <2>1, <3>2 DEF Patches, Only
      <4> QED BY <4>1 DEF Empty
    <3> QED BY <3>1, <3>2
  <2>4. /\ Fit(Dst) /\ Whole(Dst) /\ Dst.type \in Flat
        /\ PatchOk(Src, Dif, Dst, job.todo)
    BY <1>3, Patching, PatchGoesOn DEF PatchOk
  <2>5. DOMAIN tiles = coords /\ \A c \in coords : tiles[c] = P[c].to
    OBVIOUS
  <2>6. DOMAIN new = coords /\ \A c \in coords : new[c] = StoredTile(Dst.type, tiles[c])
    BY DEF StoredTile, Row
  <2>7. WithBinary(coords) = [Dst EXCEPT !.rows = Overlay(Dst.rows, new)]
    BY <1>3 DEF WithBinary
  <2> HIDE DEF P, tiles, new
  <2> DEFINE g == [Dst EXCEPT !.rows = Overlay(Dst.rows, new)]
  <2>8. \A c \in DOMAIN tiles : c \in Coords /\ tiles[c] \in Data
    BY <2>3, <2>5
  <2>9. Shaped(g) /\ Whole(g) /\ g.type = Dst.type
    BY <2>4, <2>5, <2>6, <2>8, TilesLaid
  <2> HIDE DEF g
  <2>10. PatchGoes(Src, Dif, g, job.todo)
    BY <2>4, <2>9, PatchBinaryGoes
  <2> QED BY <1>1, <1>3, <2>7, <2>10 DEF Goes, g
<1> QED BY <1>1, <1>2, <1>3

LEMMA BinaryKeep ==
  ASSUME HashInv, CopyBinary
  PROVE  HashInv'
<1>1. job.todo # <<>> /\ Head(job.todo) = "binary"
  BY DEF CopyBinary, Doing
<1>2. Becomes({WithBinary(ToMake)})
  BY DEF CopyBinary
<1>3. Goes(WithBinary(ToMake))
  BY <1>1, BinaryGoes
<1> QED BY <1>1, <1>2, <1>3, StatementGoes

LEMMA StopKeep ==
  ASSUME HashInv, StopBinary
  PROVE  HashInv'
<1>1. job.todo # <<>> /\ Head(job.todo) = "binary" /\ job' = NoJob /\ standing' = standing
  BY DEF StopBinary, Doing
<1>2. PICK coords \in SUBSET Makeable : file' = [file EXCEPT ![job.dst] = WithBinary(coords)]
  BY DEF StopBinary
<1>3. coords \subseteq ToMake
  BY DEF Makeable, ToMake, Fitting
<1>4. Goes(WithBinary(coords)) /\ job.command \in {"diff", "patch"}
  BY <1>1, <1>3, BinaryGoes
<1> DEFINE g == WithBinary(coords)
<1>5. Fit(g)
  BY <1>4 DEF Goes, DiffGoes, PatchGoes
<1>6. standing[job.dst] = Left("unknown", {}) /\ Left("unknown", {}).state = "unknown"
  BY <1>1, <1>4, Diffing, Patching DEF Left
<1> HIDE DEF g
<1>7. ASSUME NEW n \in Names
      PROVE  standing'[n].state \in Standings /\ FileOk(file'[n], standing'[n])
  <2>1. CASE n = job.dst
    <3>1. file'[n] = g
      BY <1>2, <2>1 DEF HashInv, FilesInv, g
    <3> QED BY <1>1, <1>5, <1>6, <2>1, <3>1 DEF FileOk, Standings
  <2>2. CASE n # job.dst
    <3>1. file'[n] = file[n]
      BY <1>2, <2>2 DEF HashInv, FilesInv
    <3> QED BY <1>1, <3>1 DEF HashInv, FilesInv
  <2> QED BY <2>1, <2>2
<1> QED BY <1>1, <1>2, <1>7 DEF HashInv, FilesInv, JobInv

LEMMA BeforeKeep ==
  ASSUME HashInv, SetBefore
  PROVE  HashInv'
<1> DEFINE g == [Dst EXCEPT !.before = Src.agg]
<1>1. job.todo # <<>> /\ Head(job.todo) = "before" /\ Becomes({g})
  BY DEF SetBefore, Doing
<1>2. job.command = "diff"
  BY <1>1, JobFacts, Copying, Patching, Applying
<1>3. /\ HasFields(g) /\ SameTables(g, Dst) /\ g.binary = Dst.binary
      /\ g.before = Src.agg /\ g.after = Dst.after
  BY <1>1, DstFields DEF HasFields, SameTables, NoFile
<1> HIDE DEF g
<1>4. DiffGoes(Src, Dif, g, job.binary, job.todo)
  BY <1>1, <1>2, <1>3, Diffing, DiffMetadataGoes
<1> QED BY <1>1, <1>2, <1>4, StatementGoes DEF Goes

LEMMA AfterKeep ==
  ASSUME HashInv, SetAfter
  PROVE  HashInv'
<1> DEFINE g == [Dst EXCEPT !.after = Dif.agg]
<1>1. job.todo # <<>> /\ Head(job.todo) = "after" /\ Becomes({g})
  BY DEF SetAfter, Doing
<1>2. job.command = "diff"
  BY <1>1, JobFacts, Copying, Patching, Applying
<1>3. /\ HasFields(g) /\ SameTables(g, Dst) /\ g.binary = Dst.binary
      /\ g.before = Dst.before /\ g.after = Dif.agg
  BY <1>1, DstFields DEF HasFields, SameTables, NoFile
<1> HIDE DEF g
<1>4. DiffGoes(Src, Dif, g, job.binary, job.todo)
  BY <1>1, <1>2, <1>3, Diffing, DiffMetadataGoes
<1> QED BY <1>1, <1>2, <1>4, StatementGoes DEF Goes

LEMMA AggKeep ==
  ASSUME HashInv, UpdateAgg
  PROVE  HashInv'
<1> DEFINE g == UpdateAggHash(Dst)
<1>1. job.todo # <<>> /\ Head(job.todo) = "agg" /\ Becomes({g})
  BY DEF UpdateAgg, Doing
<1> HIDE DEF g
<1>2. ASSUME job.command = "copy" PROVE CopyGoes(Src, g, job.mode, job.todo)
  BY <1>1, <1>2, Copying, CopyAggGoes DEF g
<1>3. ASSUME job.command = "diff" PROVE DiffGoes(Src, Dif, g, job.binary, job.todo)
  BY <1>1, <1>3, Diffing, DiffAggGoes DEF g
<1>4. ASSUME job.command = "patch" PROVE PatchGoes(Src, Dif, g, job.todo)
  BY <1>1, <1>4, Patching, PatchAggGoes DEF g
<1>5. job.command # "apply"
  BY <1>1, Applying
<1>6. Goes(g)
  BY <1>2, <1>3, <1>4, <1>5 DEF Goes
<1> QED BY <1>1, <1>6, StatementGoes

LEMMA CheckKeep ==
  ASSUME HashInv, CheckAfter
  PROVE  HashInv'
<1>1. /\ job.todo # <<>> /\ Head(job.todo) = "check"
      /\ Becomes(IF Dst.agg = Dif.after THEN {Dst} ELSE {})
  BY DEF CheckAfter, Doing
<1>2. job.command = "patch"
  BY <1>1, JobFacts, Copying, Diffing, Applying
<1>3. Goes(Dst)
  BY <1>1, <1>2, Patching, PatchCheckGoes DEF Goes
<1> QED BY <1>1, <1>3, StatementGoes

LEMMA ApplyKeep ==
  ASSUME HashInv, job.todo # <<>>, job.command = "apply", NEW g, ApplyGoes(Dif, g, job.todo),
         Becomes({g})
  PROVE  HashInv'
  BY StatementGoes DEF Goes

LEMMA ApplyStatement ==
  ASSUME HashInv, NEW s, Doing(s),
         s \in {"upsert", "upsert_images", "delete", "collect", "replace", "forget"}
  PROVE  /\ job.todo # <<>> /\ Head(job.todo) = s /\ job.command = "apply"
         /\ Fit(Dif) /\ Fit(Dst) /\ ApplyOk(Dif, Dst, job.todo) /\ DOMAIN Dst = DOMAIN NoFile
<1>1. job.todo # <<>> /\ Head(job.todo) = s
  BY DEF Doing
<1>2. job.command = "apply"
  BY <1>1, JobFacts, Copying, Diffing, Patching
<1> QED BY <1>1, <1>2, Applying, DstFields

LEMMA UpsertKeep ==
  ASSUME HashInv, Upsert
  PROVE  HashInv'
<1> DEFINE sel == UpsertedOf(Dif)
           new == [c \in DOMAIN sel |-> Stored(Dst.type, sel[c])]
           g == [Dst EXCEPT !.rows = Overlay(Dst.rows, new)]
<1>1. Doing("upsert") /\ Becomes({g})
  BY DEF Upsert, Upserted, UpsertedOf
<1>2. DOMAIN new = DOMAIN sel /\ \A c \in DOMAIN sel : new[c] = Stored(Dst.type, sel[c])
  OBVIOUS
<1> HIDE DEF sel, new
<1>3. ApplyGoes(Dif, g, job.todo)
  BY <1>1, <1>2, ApplyStatement, UpsertGoes DEF sel
<1> HIDE DEF g
<1> QED BY <1>1, <1>3, ApplyStatement, ApplyKeep

LEMMA UpsertImagesKeep ==
  ASSUME HashInv, UpsertImages
  PROVE  HashInv'
<1> DEFINE sel == UpsertedOf(Dif)
           g == [Dst EXCEPT !.images = Overlay(Dst.images, Images(sel))]
<1>1. Doing("upsert_images") /\ Becomes({g})
  BY DEF UpsertImages, Upserted, UpsertedOf
<1> HIDE DEF sel
<1>2. ApplyGoes(Dif, g, job.todo)
  BY <1>1, ApplyStatement, UpsertImagesGoes DEF sel
<1> HIDE DEF g
<1> QED BY <1>1, <1>2, ApplyStatement, ApplyKeep

LEMMA DeleteKeep ==
  ASSUME HashInv, Delete
  PROVE  HashInv'
<1> DEFINE gone == {c \in DOMAIN Tiles(Dif) : Tiles(Dif)[c] = Null}
           g == [Dst EXCEPT !.rows = Only(Dst.rows, DOMAIN Dst.rows \ gone)]
<1>1. Doing("delete") /\ Becomes({g})
  BY DEF Delete
<1> HIDE DEF gone
<1>2. ApplyGoes(Dif, g, job.todo)
  BY <1>1, ApplyStatement, DeleteGoes DEF gone
<1> HIDE DEF g
<1> QED BY <1>1, <1>2, ApplyStatement, ApplyKeep

LEMMA CollectKeep ==
  ASSUME HashInv, Collect
  PROVE  HashInv'
<1> DEFINE used == {Dst.rows[c].hash : c \in DOMAIN Dst.rows}
           g == [Dst EXCEPT !.images = Only(Dst.images, used)]
<1>1. Doing("collect") /\ Becomes({g})
  BY DEF Collect
<1> HIDE DEF used
<1>2. ApplyGoes(Dif, g, job.todo)
  BY <1>1, ApplyStatement, CollectGoes DEF used
<1> HIDE DEF g
<1> QED BY <1>1, <1>2, ApplyStatement, ApplyKeep

LEMMA ReplaceKeep ==
  ASSUME HashInv, Replace
  PROVE  HashInv'
<1> DEFINE g == [Dst EXCEPT !.title = ReplacedOption(Dst.title, Dif.title), !.agg = Dif.after]
<1>1. Doing("replace") /\ Becomes({g})
  BY DEF Replace
<1>2. /\ HasFields(g) /\ SameTables(g, Dst) /\ g.binary = Dst.binary /\ g.agg = Dif.after
      /\ g.before = Dst.before /\ g.after = Dst.after
  BY <1>1, ApplyStatement DEF HasFields, SameTables, NoFile
<1> HIDE DEF g
<1>3. ApplyGoes(Dif, g, job.todo)
  BY <1>1, <1>2, ApplyStatement, ReplaceGoes
<1> QED BY <1>1, <1>3, ApplyStatement, ApplyKeep

LEMMA ForgetKeep ==
  ASSUME HashInv, Forget
  PROVE  HashInv'
<1> DEFINE g == [Dst EXCEPT !.title = RemainingOption(Dst.title, Dif.title)]
<1>1. Doing("forget") /\ Becomes({g})
  BY DEF Forget
<1>2. /\ HasFields(g) /\ SameTables(g, Dst) /\ g.binary = Dst.binary /\ g.agg = Dst.agg
      /\ g.before = Dst.before /\ g.after = Dst.after
  BY <1>1, ApplyStatement DEF HasFields, SameTables, NoFile
<1> HIDE DEF g
<1>3. ApplyGoes(Dif, g, job.todo)
  BY <1>1, <1>2, ApplyStatement, ForgetGoes
<1> QED BY <1>1, <1>3, ApplyStatement, ApplyKeep

-----------------------------------------------------------------------------
(* Starting.                                                               *)

\* The commands that the theorems are about.  A copy takes tiles along, of a file
\* without binary patches, of a patch everything and with its deletions kept, and
\* into an empty file or a table of whole rows; what a patch left half done is
\* patched again with one that leads to the same tiles, or starts from them.
CarefulCopy(src, dst, what, type) ==
  /\ what # "metadata"
  /\ ~HasBinary(file[src])
  /\ IsPatch(file[src]) => what = "all" /\ (type \in Normalized => HashedNulls(file[src]))
  /\ ~IsEmpty(file[dst]) => Whole(file[dst])

CarefulApply(dif, dst) ==
  standing[dst].state = "half patched" => standing[dst].to \in {file[dif].after, file[dst].agg}

Careful ==
  /\ \A src, dst \in Names, what \in CopyTypes, mode \in Modes, type \in Types :
       StartCopy(src, dst, what, mode, type) => CarefulCopy(src, dst, what, type)
  /\ \A dif, dst \in Names : StartApply(dif, dst) => CarefulApply(dif, dst)

LEMMA Started ==
  ASSUME HashInv, NEW command, NEW src, NEW dif, NEW dst \in Names, NEW mode, NEW binary,
         NEW type, NEW todo, Start(command, src, dif, dst, mode, binary, type, todo),
         Fit(Begun(file[dst], type)),
         command = "apply" => dif \in Names /\ HalfPatched(Begun(file[dst], type), file[dif].after)
  PROVE  FilesInv'
<1> DEFINE left == IF command = "apply" THEN Left("half patched", file[dif].after)
                   ELSE Left("unknown", {})
           g == Begun(file[dst], type)
<1>1. /\ file' = [file EXCEPT ![dst] = g]
      /\ standing' = [standing EXCEPT ![dst] = left]
  BY DEF Start, Begun
<1>2. left.state \in Standings /\ FileOk(g, left)
  <2>1. CASE command = "apply"
    <3>1. left.state = "half patched" /\ left.to = file[dif].after
      BY <2>1 DEF Left
    <3> QED BY <2>1, <3>1 DEF FileOk, Standings
  <2>2. CASE command # "apply"
    <3>1. left.state = "unknown"
      BY <2>2 DEF Left
    <3> QED BY <3>1 DEF FileOk, Standings
  <2> QED BY <2>1, <2>2
<1> HIDE DEF g, left
<1>3. /\ DOMAIN file' = Names /\ DOMAIN standing' = Names
      /\ file'[dst] = g /\ standing'[dst] = left
      /\ \A n \in Names : n # dst => file'[n] = file[n] /\ standing'[n] = standing[n]
  BY <1>1 DEF HashInv, FilesInv
<1> QED BY <1>2, <1>3 DEF HashInv, FilesInv

LEMMA CopyStartKeeps ==
  ASSUME HashInv, NEW src \in Names, NEW dst \in Names, NEW what \in CopyTypes,
         NEW mode \in Modes, NEW type \in Types, StartCopy(src, dst, what, mode, type),
         CarefulCopy(src, dst, what, type)
  PROVE  HashInv'
<1>1. /\ src # dst /\ ~IsEmpty(file[src]) /\ Sound(src) /\ what # "metadata"
      /\ ~HasBinary(file[src])
      /\ Start("copy", src, "", dst, mode, FALSE, type, CopyList(type, what))
      /\ IsEmpty(file[dst]) => mode = "override" /\ type # "dedup-id"
      /\ ~IsEmpty(file[dst]) =>
           type = file[dst].type /\ ~IsPatch(file[src]) /\ Whole(file[dst])
      /\ IsPatch(file[src]) => what = "all" /\ (type \in Normalized => HashedNulls(file[src]))
  BY DEF StartCopy, CarefulCopy, CopyList
<1>2. Fit(file[src]) /\ SoundFile(file[src]) /\ Fit(file[dst])
  BY <1>1 DEF HashInv, FilesInv, FileOk, Sound
<1> DEFINE g == Begun(file[dst], type)
           todo == CopyList(type, what)
<1>3. Fit(g) /\ CopyOk(file[src], g, mode, todo)
  BY <1>1, <1>2, CopyStarts
<1> HIDE DEF g, todo
<1>4. /\ FilesInv'
      /\ DOMAIN job' = DOMAIN NoJob /\ job'.command = "copy" /\ job'.src = src
      /\ job'.dst = dst /\ job'.mode = mode /\ job'.todo = todo /\ Dst' = g
      /\ standing'[dst] = Left("unknown", {})
      /\ file'[src] = file[src] /\ standing'[src] = standing[src]
  <2>1. /\ file' = [file EXCEPT ![dst] = g]
        /\ standing' = [standing EXCEPT ![dst] = Left("unknown", {})]
        /\ job' = [command |-> "copy", src |-> src, dif |-> "", dst |-> dst,
                   mode |-> mode, binary |-> FALSE, todo |-> todo]
    BY <1>1 DEF Start, Begun, g, todo
  <2>2. FilesInv'
    BY <1>1, <1>3, Started DEF g, todo
  <2>3. Dst' = g
    BY <2>1 DEF Dst, HashInv, FilesInv
  <2> QED BY <1>1, <2>1, <2>2, <2>3 DEF NoJob, HashInv, FilesInv
<1>5. Src' = file[src]
  BY <1>4 DEF Src
<1>6. IsSource(job.src)'
  BY <1>1, <1>4 DEF IsSource, Sound
<1>7. CopyOk(Src, Dst, job.mode, job.todo)' /\ todo # <<>>
  BY <1>3, <1>4, <1>5, CopyGoesOn DEF CopyOk
<1>8. JobInv'
  BY <1>1, <1>4, <1>5, <1>6, <1>7 DEF JobInv
<1> QED BY <1>4, <1>8 DEF HashInv

LEMMA DiffStartKeeps ==
  ASSUME HashInv, NEW src \in Names, NEW dif \in Names, NEW dst \in Names,
         NEW binary \in BOOLEAN, NEW type \in Types, StartDiff(src, dif, dst, binary, type)
  PROVE  HashInv'
<1>1. /\ dst # src /\ dst # dif /\ IsEmpty(file[dst])
      /\ ~IsEmpty(file[src]) /\ CanBeDiffed(file[src]) /\ Sound(src)
      /\ ~IsEmpty(file[dif]) /\ CanBeDiffed(file[dif]) /\ Sound(dif)
      /\ type = "dedup-id" => file[src].type = "dedup-id"
      /\ binary => type \in Flat
      /\ Start("diff", src, dif, dst, "override", binary, type, DiffList(type, binary))
  BY DEF StartDiff, DiffList
<1>2. Fit(file[src]) /\ Fit(file[dst])
  BY DEF HashInv, FilesInv, FileOk
<1> DEFINE g == Begun(file[dst], type)
           todo == DiffList(type, binary)
<1>3. Fit(g) /\ DiffOk(file[src], file[dif], g, binary, todo)
  BY <1>1, <1>2, DiffStarts
<1> HIDE DEF g, todo
<1>4. /\ FilesInv'
      /\ DOMAIN job' = DOMAIN NoJob /\ job'.command = "diff" /\ job'.src = src /\ job'.dif = dif
      /\ job'.dst = dst /\ job'.mode = "override" /\ job'.binary = binary
      /\ job'.todo = todo /\ Dst' = g
      /\ standing'[dst] = Left("unknown", {})
      /\ file'[src] = file[src] /\ standing'[src] = standing[src]
      /\ file'[dif] = file[dif] /\ standing'[dif] = standing[dif]
  <2>1. /\ file' = [file EXCEPT ![dst] = g]
        /\ standing' = [standing EXCEPT ![dst] = Left("unknown", {})]
        /\ job' = [command |-> "diff", src |-> src, dif |-> dif, dst |-> dst,
                   mode |-> "override", binary |-> binary, todo |-> todo]
    BY <1>1 DEF Start, Begun, g, todo
  <2>2. FilesInv'
    BY <1>1, <1>3, Started DEF g, todo
  <2>3. Dst' = g
    BY <2>1 DEF Dst, HashInv, FilesInv
  <2> QED BY <1>1, <2>1, <2>2, <2>3 DEF NoJob, HashInv, FilesInv
<1>5. Src' = file[src] /\ Dif' = file[dif]
  BY <1>4 DEF Src, Dif
<1>6. IsSource(job.src)' /\ IsSource(job.dif)'
  BY <1>1, <1>4 DEF IsSource, Sound
<1>7. DiffOk(Src, Dif, Dst, job.binary, job.todo)' /\ todo # <<>>
  BY <1>3, <1>4, <1>5, DiffGoesOn DEF DiffOk
<1>8. CanBeDiffed(Src)' /\ CanBeDiffed(Dif)'
  BY <1>1, <1>5
<1>9. JobInv'
  BY <1>4, <1>6, <1>7, <1>8 DEF JobInv
<1> QED BY <1>4, <1>9 DEF HashInv

LEMMA PatchStartKeeps ==
  ASSUME HashInv, NEW src \in Names, NEW dif \in Names, NEW dst \in Names,
         NEW type \in Types, StartPatch(src, dif, dst, type)
  PROVE  HashInv'
<1>1. /\ dst # src /\ dst # dif /\ IsEmpty(file[dst]) /\ IsPatch(file[dif])
      /\ ~IsEmpty(file[src]) /\ CanBeDiffed(file[src]) /\ Sound(src)
      /\ type = "dedup-id" => file[src].type = "dedup-id"
      /\ HasBinary(file[dif]) => type \in Flat
      /\ Start("patch", src, dif, dst, "override", FALSE, type,
               PatchList(type, HasBinary(file[dif])))
  BY DEF StartPatch, PatchList
<1>2. Fit(file[src]) /\ Fit(file[dst])
  BY DEF HashInv, FilesInv, FileOk
<1> DEFINE g == Begun(file[dst], type)
           todo == PatchList(type, HasBinary(file[dif]))
<1>3. Fit(g) /\ PatchOk(file[src], file[dif], g, todo)
  BY <1>1, <1>2, PatchStarts
<1> HIDE DEF g, todo
<1>4. /\ FilesInv'
      /\ DOMAIN job' = DOMAIN NoJob /\ job'.command = "patch" /\ job'.src = src /\ job'.dif = dif
      /\ job'.dst = dst /\ job'.mode = "override" /\ job'.todo = todo /\ Dst' = g
      /\ standing'[dst] = Left("unknown", {})
      /\ file'[src] = file[src] /\ standing'[src] = standing[src] /\ file'[dif] = file[dif]
  <2>1. /\ file' = [file EXCEPT ![dst] = g]
        /\ standing' = [standing EXCEPT ![dst] = Left("unknown", {})]
        /\ job' = [command |-> "patch", src |-> src, dif |-> dif, dst |-> dst,
                   mode |-> "override", binary |-> FALSE, todo |-> todo]
    BY <1>1 DEF Start, Begun, g, todo
  <2>2. FilesInv'
    BY <1>1, <1>3, Started DEF g, todo
  <2>3. Dst' = g
    BY <2>1 DEF Dst, HashInv, FilesInv
  <2> QED BY <1>1, <2>1, <2>2, <2>3 DEF NoJob, HashInv, FilesInv
<1>5. Src' = file[src] /\ Dif' = file[dif]
  BY <1>4 DEF Src, Dif
<1>6. IsSource(job.src)'
  BY <1>1, <1>4 DEF IsSource, Sound
<1>7. PatchOk(Src, Dif, Dst, job.todo)' /\ todo # <<>>
  BY <1>3, <1>4, <1>5, PatchGoesOn DEF PatchOk
<1>8. CanBeDiffed(Src)' /\ IsPatch(Dif)'
  BY <1>1, <1>5
<1>9. JobInv'
  BY <1>1, <1>4, <1>6, <1>7, <1>8 DEF JobInv
<1> QED BY <1>4, <1>9 DEF HashInv

LEMMA ApplyStartKeeps ==
  ASSUME HashInv, NEW dif \in Names, NEW dst \in Names, StartApply(dif, dst),
         CarefulApply(dif, dst)
  PROVE  HashInv'
<1>1. /\ IsPatch(file[dif]) /\ ~HasBinary(file[dif])
      /\ ~IsEmpty(file[dst]) /\ CanBeDiffed(file[dst]) /\ standing[dst].state # "unknown"
      /\ file[dst].agg = file[dif].before
      /\ standing[dst].state = "half patched" =>
           standing[dst].to \in {file[dif].after, file[dst].agg}
      /\ Start("apply", "", dif, dst, "override", FALSE, file[dst].type,
               ApplyList(file[dst].type))
  BY DEF StartApply, CarefulApply, ApplyList
<1>2. /\ Fit(file[dif]) /\ FileOk(file[dst], standing[dst])
      /\ standing[dst].state \in Standings
  BY DEF HashInv, FilesInv, FileOk
<1>3. dif # dst
  BY <1>1 DEF IsPatch, CanBeDiffed
<1> DEFINE g == Begun(file[dst], file[dst].type)
           todo == ApplyList(file[dst].type)
<1>4. Fit(g) /\ ApplyOk(file[dif], g, todo)
  BY <1>1, <1>2, ApplyStarts
<1>5. HalfPatched(g, file[dif].after)
  BY <1>4, ApplyIsHalf
<1> HIDE DEF g, todo
<1>6. /\ FilesInv'
      /\ DOMAIN job' = DOMAIN NoJob /\ job'.command = "apply" /\ job'.dif = dif
      /\ job'.dst = dst /\ job'.todo = todo /\ Dst' = g
      /\ standing'[dst] = Left("half patched", file[dif].after)
      /\ file'[dif] = file[dif]
  <2>1. /\ file' = [file EXCEPT ![dst] = g]
        /\ standing' = [standing EXCEPT ![dst] = Left("half patched", file[dif].after)]
        /\ job' = [command |-> "apply", src |-> "", dif |-> dif, dst |-> dst,
                   mode |-> "override", binary |-> FALSE, todo |-> todo]
    BY <1>1 DEF Start, Begun, g, todo
  <2>2. FilesInv'
    BY <1>1, <1>4, <1>5, Started DEF g, todo
  <2>3. Dst' = g
    BY <2>1 DEF Dst, HashInv, FilesInv
  <2> QED BY <1>1, <1>3, <2>1, <2>2, <2>3 DEF NoJob, HashInv, FilesInv
<1>7. Dif' = file[dif]
  BY <1>6 DEF Dif
<1>8. ApplyOk(Dif, Dst, job.todo)' /\ todo # <<>>
  BY <1>4, <1>6, <1>7, ApplyGoesOn DEF ApplyOk
<1>9. IsPatch(Dif)' /\ (~HasBinary(Dif))'
  BY <1>1, <1>7
<1>10. JobInv'
  BY <1>3, <1>6, <1>7, <1>8, <1>9 DEF JobInv
<1> QED BY <1>6, <1>10 DEF HashInv

LEMMA RevalidateKeeps ==
  ASSUME HashInv, NEW n \in Names, Revalidate(n)
  PROVE  HashInv'
<1>1. /\ job' = NoJob /\ standing' = standing /\ Sound(n) /\ ~IsEmpty(file[n])
      /\ file' = [file EXCEPT ![n] = UpdateAggHash(file[n])]
  BY DEF Revalidate
<1>2. Fit(file[n]) /\ SoundFile(file[n])
  BY <1>1 DEF HashInv, FilesInv, FileOk, Sound
<1>3. file[n].type \in Schemas /\ Linked(file[n]) /\ (Whole(file[n]) \/ IsPatch(file[n]))
  BY <1>1, <1>2 DEF Fit, Shaped, IsEmpty, SoundFile
<1> DEFINE g == UpdateAggHash(file[n])
<1>4. Fit(g) /\ SoundFile(g)
  BY <1>2, <1>3, AggGoes
<1> HIDE DEF g
<1>5. FileOk(g, standing[n])
  BY <1>1, <1>4 DEF FileOk, Sound
<1>6. ASSUME NEW m \in Names
      PROVE  standing'[m].state \in Standings /\ FileOk(file'[m], standing'[m])
  <2>1. CASE m = n
    <3>1. file'[m] = g
      BY <1>1, <2>1 DEF HashInv, FilesInv, g
    <3> QED BY <1>1, <1>5, <2>1, <3>1 DEF HashInv, FilesInv
  <2>2. CASE m # n
    <3>1. file'[m] = file[m]
      BY <1>1, <2>2 DEF HashInv, FilesInv
    <3> QED BY <1>1, <3>1 DEF HashInv, FilesInv
  <2> QED BY <2>1, <2>2
<1> QED BY <1>1, <1>6 DEF HashInv, FilesInv, JobInv

-----------------------------------------------------------------------------
(* The invariant, and what follows from it.                                *)

\* At first there are no files, or files as the tools leave them.
InitiallySound ==
  \A f \in InitialFiles : \A n \in Names : Fit(f[n]) /\ (IsEmpty(f[n]) \/ SoundFile(f[n]))

LEMMA HashInit ==
  ASSUME InitiallySound, Init
  PROVE  HashInv
<1>1. Left("sound", {}).state = "sound"
  BY DEF Left
<1>2. FilesInv
  BY <1>1, InitialFilesAssumption DEF Init, InitiallySound, FilesInv, FileOk, Standings
<1> QED BY <1>2 DEF Init, HashInv, JobInv

LEMMA HashStep ==
  ASSUME HashInv, [Next]_vars, [Careful]_vars
  PROVE  HashInv'
<1>1. CASE UNCHANGED vars
  BY <1>1 DEF vars, HashInv, FilesInv, JobInv, IsSource, Sound, Src, Dif, Dst
<1>2. CASE vars' # vars
  <2>1. Next /\ Careful
    BY <1>2
  <2>2. ASSUME NEW src \in Names, NEW dst \in Names, NEW what \in CopyTypes, NEW mode \in Modes,
               NEW type \in Types, StartCopy(src, dst, what, mode, type)
        PROVE  HashInv'
    <3>1. CarefulCopy(src, dst, what, type)
      BY <2>1, <2>2 DEF Careful
    <3> QED BY <2>2, <3>1, CopyStartKeeps
  <2>3. ASSUME NEW src \in Names, NEW dif \in Names, NEW dst \in Names, NEW binary \in BOOLEAN,
               NEW type \in Types, StartDiff(src, dif, dst, binary, type)
        PROVE  HashInv'
    BY <2>3, DiffStartKeeps
  <2>4. ASSUME NEW src \in Names, NEW dif \in Names, NEW dst \in Names, NEW type \in Types,
               StartPatch(src, dif, dst, type)
        PROVE  HashInv'
    BY <2>4, PatchStartKeeps
  <2>5. ASSUME NEW dif \in Names, NEW dst \in Names, StartApply(dif, dst)
        PROVE  HashInv'
    <3>1. CarefulApply(dif, dst)
      BY <2>1, <2>5 DEF Careful
    <3> QED BY <2>5, <3>1, ApplyStartKeeps
  <2>6. ASSUME NEW n \in Names, Revalidate(n) PROVE HashInv'
    BY <2>6, RevalidateKeeps
  <2>7. CASE Crash
    BY <2>7, StatementFails DEF Crash
  <2> QED BY <2>1, <2>2, <2>3, <2>4, <2>5, <2>6, <2>7, ImagesKeep, TilesKeep, MetadataKeep,
             BinaryKeep, StopKeep, BeforeKeep, AfterKeep, AggKeep, CheckKeep, UpsertKeep,
             UpsertImagesKeep, DeleteKeep, CollectKeep, ReplaceKeep, ForgetKeep DEF Next
<1> QED BY <1>1, <1>2

\* Every file is what its last command leaves, and while a command runs its file
\* holds what the statements so far have put there, whichever of them fails
\* (the statement lists of copier.rs, patcher.rs and validation.rs).
THEOREM Invariance ==
  ASSUME InitiallySound
  PROVE  Spec /\ [][Careful]_vars => []HashInv
<1>1. Init => HashInv
  BY HashInit
<1>2. HashInv /\ [Next]_vars /\ [Careful]_vars => HashInv'
  BY HashStep
<1> QED BY <1>1, <1>2, PTL DEF Spec

LEMMA SoundIsHashed ==
  ASSUME NEW f, Fit(f), SoundFile(f), ~IsEmpty(f)
  PROVE  f.agg \subseteq {AggHash(f)} /\ EachTileHashed(f)
<1>1. f.agg \subseteq {AggHash(f)} /\ Shaped(f) /\ Linked(f) /\ f.type \in Schemas
  BY DEF SoundFile, AggHash, Fit, Shaped, IsEmpty
<1>2. CASE f.type = "flat"
  BY <1>1, <1>2 DEF EachTileHashed
<1>3. CASE f.type = "flat-with-hash"
  <2>1. ASSUME NEW c \in DOMAIN f.rows PROVE Matches(f.rows[c].hash, f.rows[c].data)
    <3>1. PICK d \in Data \cup {Null} : \E h \in HashesOf(d) : f.rows[c] = Stored(f.type, Row(d, h))
      BY <1>1 DEF Shaped
    <3>2. PICK h \in HashesOf(d) : f.rows[c] = Stored(f.type, Row(d, h))
      BY <3>1
    <3>3. f.rows[c].data = d /\ f.rows[c].hash = h
      BY <1>3, <3>2, StoredIs
    <3> QED BY <3>3 DEF HashesOf, Matches
  <2> QED BY <1>1, <1>3, <2>1 DEF EachTileHashed
<1>4. CASE f.type = "normalized"
  <2>1. \A c \in DOMAIN f.rows : f.rows[c].hash \in DOMAIN f.images \cup {Null}
    BY <1>1, <1>4 DEF Linked, LinkedAt, Normalized
  <2>2. \A id \in DOMAIN f.images : Matches(id, f.images[id])
    BY <1>1 DEF Shaped, HashesOf, Matches
  <2> QED BY <1>1, <1>4, <2>1, <2>2 DEF EachTileHashed
<1> QED BY <1>1, <1>2, <1>3, <1>4 DEF Schemas

\* The hashes in a file whose last command ended well are those of its tiles: the
\* aggregate hash, which apply-patch takes from the patch and never computes
\* (patcher.rs), and the hash column or the ids of the images.
THEOREM HashesAreTrue ==
  ASSUME InitiallySound
  PROVE  Spec /\ [][Careful]_vars => []HashesTrue
<1>1. HashInv => HashesTrue
  <2> SUFFICES ASSUME HashInv, NEW n \in Names, Sound(n)
               PROVE  /\ file[n].agg \subseteq {AggHash(file[n])}
                      /\ ~IsEmpty(file[n]) => EachTileHashed(file[n])
    BY DEF HashesTrue, AggHashTrue, TilesHashed
  <2>1. Fit(file[n]) /\ (~IsEmpty(file[n]) => SoundFile(file[n]))
    BY DEF HashInv, FilesInv, FileOk, Sound
  <2>2. CASE IsEmpty(file[n])
    BY <2>1, <2>2 DEF Fit, Shaped, IsEmpty, NoFile
  <2>3. CASE ~IsEmpty(file[n])
    BY <2>1, <2>3, SoundIsHashed
  <2> QED BY <2>2, <2>3
<1> QED BY <1>1, Invariance, PTL

LEMMA ApplyIsSafe ==
  ASSUME NEW dif, NEW dst, Shaped(dst), NEW todo, ApplyOk(dif, dst, todo)
  PROVE  /\ dst.agg = dif.before \/ (dst.agg = dif.after /\ dif.after = {AggHash(dst)})
         /\ \A c \in Coords :
              \/ TileAt(Tiles(dst), c) \in {TileAt(Value(dif.before), c), TileAt(Value(dif.after), c)}
              \/ dst.type \in Normalized /\ c \notin DOMAIN Tiles(dst)
<1>1. PICK B \in TileSets, A \in TileSets :
        dif.before = {B} /\ dif.after = {A} /\ ApplyStage(dst, B, A, todo)
  BY DEF ApplyOk
<1>2. dst.type \in Schemas
  BY DEF ApplyOk
<1>3. Value(dif.before) = B /\ Value(dif.after) = A
  BY <1>1 DEF Value
<1>4. OnTheWay(dst, B, A) \/ Arrived(dst, A)
  BY <1>1 DEF ApplyStage
<1>5. ASSUME NEW c \in Coords, NEW T \in TileSets, RowIs(dst, c, T)
      PROVE  \/ TileAt(Tiles(dst), c) = TileAt(T, c)
             \/ dst.type \in Normalized /\ c \notin DOMAIN Tiles(dst)
  <2>1. CASE c \notin DOMAIN T
    <3>1. c \notin DOMAIN Tiles(dst)
      BY <1>5, <2>1, ViewOf DEF RowIs
    <3> QED BY <2>1, <3>1 DEF TileAt
  <2>2. CASE c \in DOMAIN T /\ LinkedAt(dst, c)
    <3>1. c \in DOMAIN Tiles(dst) /\ Tiles(dst)[c] = T[c]
      BY <1>2, <1>5, <2>2, TileSetIs, HasShown DEF RowIs
    <3> QED BY <2>2, <3>1 DEF TileAt
  <2>3. CASE c \in DOMAIN T /\ ~LinkedAt(dst, c)
    <3>1. /\ c \in DOMAIN dst.rows /\ dst.type \in Normalized
          /\ dst.rows[c].hash \notin DOMAIN dst.images
      BY <1>5, <2>3 DEF RowIs, Has, LinkedAt
    <3>2. dst.type = "normalized"
      BY <1>2, <3>1 DEF Schemas, Normalized
    <3> QED BY <3>1, <3>2, ViewOf
  <2> QED BY <2>1, <2>2, <2>3
<1>6. ASSUME NEW c \in Coords
      PROVE  \/ TileAt(Tiles(dst), c) \in {TileAt(B, c), TileAt(A, c)}
             \/ dst.type \in Normalized /\ c \notin DOMAIN Tiles(dst)
  <2>1. RowIs(dst, c, B) \/ RowIs(dst, c, A)
    BY <1>4 DEF OnTheWay, Arrived, HalfAt, ShownAt
  <2> QED BY <1>5, <2>1
<1>7. Arrived(dst, A) => dst.agg = {A} /\ Tiles(dst) = A
  BY <1>2, ViewIs DEF Arrived
<1> QED BY <1>1, <1>3, <1>4, <1>6, <1>7 DEF OnTheWay, AggHash

\* Wherever apply-patch dies, the file can be patched again or has become what the
\* patch promises, and while it runs every tile is read as it was or as it will
\* be, or is missing from a normalized file for a while (patcher.rs).
THEOREM PatchesAreSafe ==
  ASSUME InitiallySound
  PROVE  Spec /\ [][Careful]_vars => []PatchedSafely
<1>1. HashInv => PatchedSafely
  <2> SUFFICES ASSUME HashInv, job.command = "apply"
               PROVE  /\ Dst.agg = Dif.before \/ (Dst.agg = Dif.after /\ Dif.after = {AggHash(Dst)})
                      /\ \A c \in Coords :
                           \/ TileAt(Tiles(Dst), c) \in
                                {TileAt(Value(Dif.before), c), TileAt(Value(Dif.after), c)}
                           \/ Dst.type \in Normalized /\ c \notin DOMAIN Tiles(Dst)
    BY DEF PatchedSafely, Resumable, ReadsOldOrNew
  <2>4. NoJob.command = "none"
    BY DEF NoJob
  <2>1. job # NoJob
    BY <2>4
  <2>2. ApplyOk(Dif, Dst, job.todo) /\ job.dst \in Names
    BY <2>1 DEF HashInv, JobInv
  <2>3. Shaped(Dst)
    BY <2>2 DEF HashInv, FilesInv, FileOk, Fit, Dst
  <2> QED BY <2>2, <2>3, ApplyIsSafe
<1> QED BY <1>1, Invariance, PTL

LEMMA CopiedRows ==
  ASSUME NEW src, NEW dst, NEW mode \in Modes, mode # "abort", NEW todo,
         Fit(src), SoundFile(src), Fit(dst),
         CopyOk(src, dst, mode, todo), Head(todo) = "tiles",
         NEW sel, sel = HashedTiles(src), NEW new, DOMAIN new = DOMAIN sel,
         \A c \in DOMAIN sel : new[c] = Stored(dst.type, sel[c]),
         NEW t \in Insert(dst.rows, new, mode), Takes(t, dst, sel),
         DOMAIN t = DOMAIN dst.rows \cup DOMAIN sel,
         NEW g, Shaped(g), g.type = dst.type, g.rows = t, g.images = dst.images
  PROVE  Tiles(g) = Copied(Tiles(dst), Tiles(src), mode)
<1>1. /\ Shaped(dst) /\ Shaped(src) /\ dst.type \in Schemas /\ Linked(dst)
      /\ ImagesFor(dst, sel)
  BY DEF CopyOk, Fit
<1>2. /\ IsSelection(sel) /\ DOMAIN sel = DOMAIN Tiles(src)
      /\ \A c \in DOMAIN Tiles(src) : sel[c].data = Tiles(src)[c]
  BY <1>1, HashedSelection
<1>3. g.type = dst.type /\ g.rows = t /\ g.images = dst.images
  OBVIOUS
<1>4. DOMAIN t = DOMAIN dst.rows \cup DOMAIN sel
  OBVIOUS
<1>5. ASSUME NEW c \in DOMAIN t
      PROVE  /\ \/ c \in DOMAIN sel /\ t[c] = Stored(dst.type, sel[c])
                \/ c \in DOMAIN dst.rows /\ t[c] = dst.rows[c]
             /\ mode # "ignore" /\ c \in DOMAIN sel => t[c] = Stored(dst.type, sel[c])
             /\ mode = "ignore" /\ c \in DOMAIN dst.rows => t[c] = dst.rows[c]
  BY <1>5, InsertedAt
<1>7. Shaped(g)
  OBVIOUS
<1>8. ASSUME NEW c \in DOMAIN sel PROVE dst.type \in Normalized => sel[c].hash # Null
  <2>1. CASE Tiles(src)[c] = Null
    <3>1. ~Whole(src)
      BY <1>1, <1>2, <2>1, WholeView, TileSetIs, HashFacts
    <3>2. IsPatch(src)
      BY <3>1 DEF SoundFile
    <3> QED BY <1>2, <1>8, <2>1, <3>2 DEF CopyOk, HashedNulls
  <2>2. CASE Tiles(src)[c] # Null
    <3>1. sel[c].data \in Data \cup {Null} /\ sel[c].hash \in HashesOf(sel[c].data)
      BY <1>2, <1>8 DEF IsSelection, IsHashedRow
    <3>2. sel[c].data # Null
      BY <1>2, <1>8, <2>2
    <3> QED BY <3>1, <3>2, HashFacts DEF HashesOf
  <2> QED BY <2>1, <2>2
<1>9. ASSUME NEW c \in DOMAIN sel, t[c] = Stored(dst.type, sel[c])
      PROVE  c \in DOMAIN Tiles(g) /\ Tiles(g)[c] = Tiles(src)[c]
  <2>1. IsHashedRow(sel[c]) /\ c \in DOMAIN g.rows /\ g.rows[c] = Stored(g.type, sel[c])
    BY <1>2, <1>3, <1>4, <1>9 DEF IsSelection
  <2>2. g.type \in Normalized => sel[c].hash \in DOMAIN g.images
    BY <1>1, <1>3, <1>8 DEF ImagesFor
  <2>3. g.type \in Schemas
    BY <1>1, <1>3
  <2>4. c \in DOMAIN Tiles(g) /\ Tiles(g)[c] = sel[c].data
    BY <1>7, <2>1, <2>2, <2>3, LaidShown
  <2> QED BY <1>2, <2>4
<1>10. ASSUME NEW c \in DOMAIN dst.rows, t[c] = dst.rows[c]
       PROVE  /\ c \in DOMAIN Tiles(g) <=> c \in DOMAIN Tiles(dst)
              /\ c \in DOMAIN Tiles(g) => Tiles(g)[c] = Tiles(dst)[c]
  <2>1. g.type = dst.type /\ g.images = dst.images /\ Shaped(g) /\ Shaped(dst)
    BY <1>1, <1>3, <1>7
  <2>2. c \in DOMAIN g.rows /\ g.rows[c] = dst.rows[c]
    BY <1>3, <1>4, <1>10
  <2> QED BY <1>10, <2>1, <2>2, KeptShown
<1>11. /\ DOMAIN Tiles(g) \subseteq DOMAIN t
       /\ DOMAIN Tiles(dst) \subseteq DOMAIN dst.rows
  BY <1>1, <1>3, <1>7, ViewOf
<1>12. CASE mode = "ignore"
  <2>1. Whole(dst)
    BY <1>12 DEF CopyOk, SoundFile
  <2>2. DOMAIN Tiles(dst) = DOMAIN dst.rows
    BY <1>1, <2>1, WholeView
  <2>3. DOMAIN Tiles(g) = DOMAIN Tiles(src) \cup DOMAIN Tiles(dst)
    BY <1>2, <1>4, <1>5, <1>9, <1>10, <1>11, <2>2
  <2>4. ASSUME NEW c \in DOMAIN Tiles(g)
        PROVE  Tiles(g)[c] = IF c \in DOMAIN Tiles(dst) THEN Tiles(dst)[c] ELSE Tiles(src)[c]
    BY <1>2, <1>4, <1>5, <1>9, <1>10, <1>11, <1>12, <2>2, <2>4
  <2> QED BY <1>12, <2>3, <2>4, ViewIsMap DEF Copied, Overlay
<1>13. CASE mode # "ignore"
  <2>1. ASSUME NEW c \in DOMAIN Tiles(src)
        PROVE  c \in DOMAIN Tiles(g) /\ Tiles(g)[c] = Tiles(src)[c]
    BY <1>2, <1>4, <1>5, <1>9, <1>13
  <2>2. ASSUME NEW c \in DOMAIN dst.rows, c \notin DOMAIN Tiles(src)
        PROVE  /\ c \in DOMAIN Tiles(g) <=> c \in DOMAIN Tiles(dst)
               /\ c \in DOMAIN Tiles(g) => Tiles(g)[c] = Tiles(dst)[c]
    BY <1>2, <1>4, <1>5, <1>10, <2>2
  <2>3. DOMAIN Tiles(g) = DOMAIN Tiles(dst) \cup DOMAIN Tiles(src)
    BY <1>2, <1>4, <1>11, <2>1, <2>2
  <2>4. ASSUME NEW c \in DOMAIN Tiles(g)
        PROVE  Tiles(g)[c] = IF c \in DOMAIN Tiles(src) THEN Tiles(src)[c] ELSE Tiles(dst)[c]
    BY <1>2, <1>4, <1>11, <2>1, <2>2, <2>4
  <2> QED BY <1>13, <2>3, <2>4, ViewIsMap DEF Copied, Overlay
<1> QED BY <1>12, <1>13

LEMMA CopiedView ==
  ASSUME NEW src, NEW dst, NEW mode \in Modes, mode # "abort", NEW todo,
         Fit(src), SoundFile(src), Fit(dst),
         CopyOk(src, dst, mode, todo), Head(todo) = "tiles",
         NEW sel, sel = HashedTiles(src), NEW new, DOMAIN new = DOMAIN sel,
         \A c \in DOMAIN sel : new[c] = Stored(dst.type, sel[c]),
         NEW t \in Insert(dst.rows, new, mode)
  PROVE  Tiles([dst EXCEPT !.rows = t]) = Copied(Tiles(dst), Tiles(src), mode)
<1> DEFINE g == [dst EXCEPT !.rows = t]
<1>1. Shaped(dst) /\ Shaped(src) /\ dst.type \in Schemas
  BY DEF CopyOk, Fit
<1>2. IsSelection(sel)
  BY <1>1, HashedSelection
<1>3. g.type = dst.type /\ g.rows = t /\ g.images = dst.images
  BY <1>1 DEF Shaped, NoFile
<1>4. ASSUME NEW c \in DOMAIN t
      PROVE  \/ c \in DOMAIN sel /\ t[c] = Stored(dst.type, sel[c])
             \/ c \in DOMAIN dst.rows /\ t[c] = dst.rows[c]
  BY <1>4, InsertedAt
<1>5. Takes(t, dst, sel)
  BY <1>4 DEF Takes
<1>6. Shaped(g)
  BY <1>1, <1>2, <1>5, RowsTaken
<1>8. DOMAIN t = DOMAIN dst.rows \cup DOMAIN sel
  <2>1. DOMAIN t = DOMAIN dst.rows \cup DOMAIN new
    BY InsertedDomain, ZenonT(60)
  <2> QED BY <2>1
<1> HIDE DEF g
<1>7. Tiles(g) = Copied(Tiles(dst), Tiles(src), mode)
  BY <1>3, <1>5, <1>6, <1>8, CopiedRows
<1> QED BY <1>7 DEF g

\* Copying into an existing file replaces its tiles under override and keeps them
\* under ignore, whatever the two schemas (copier.rs, CopyDuplicateMode).
THEOREM CopiesFollowTheMode ==
  ASSUME InitiallySound
  PROVE  Spec /\ [][Careful]_vars => CopyFollowsMode
<1>1. ASSUME HashInv, CopyTiles, job.command = "copy", job.mode # "abort", job' # NoJob
      PROVE  Tiles(Dst)' = Copied(Tiles(Dst), Tiles(Src), job.mode)
  <2>1. job.todo # <<>> /\ Head(job.todo) = "tiles"
    BY <1>1 DEF CopyTiles, Doing
  <2> DEFINE sel == HashedTiles(Src)
             new == [c \in DOMAIN sel |-> Stored(Dst.type, sel[c])]
             files == {[Dst EXCEPT !.rows = t] : t \in Insert(Dst.rows, new, job.mode)}
  <2>2. Becomes(files)
    BY <1>1 DEF CopyTiles, Insertable, Selected
  <2>3. DOMAIN new = DOMAIN sel /\ \A c \in DOMAIN sel : new[c] = Stored(Dst.type, sel[c])
    OBVIOUS
  <2> HIDE DEF new, sel
  <2>4. PICK t \in Insert(Dst.rows, new, job.mode) :
          file' = [file EXCEPT ![job.dst] = [Dst EXCEPT !.rows = t]]
    BY <1>1, <2>2 DEF Becomes
  <2> DEFINE g == [Dst EXCEPT !.rows = t]
  <2>5. job'.dst = job.dst /\ job.dst \in Names
    BY <1>1, <2>1, <2>2, JobFacts DEF Becomes, NoJob
  <2>6. Dst' = g
    BY <1>1, <2>4, <2>5 DEF Dst, HashInv, FilesInv
  <2>7. Tiles(g) = Copied(Tiles(Dst), Tiles(Src), job.mode)
    BY <1>1, <2>1, <2>3, Copying, CopiedView DEF sel
  <2> QED BY <2>6, <2>7
<1>2. HashInv /\ [Next]_vars =>
        [(CopyTiles /\ job.command = "copy" /\ job.mode # "abort" /\ job' # NoJob) =>
           Tiles(Dst)' = Copied(Tiles(Dst), Tiles(Src), job.mode)]_vars
  BY <1>1
<1> QED BY <1>2, Invariance, PTL DEF Spec, CopyFollowsMode
=============================================================================
