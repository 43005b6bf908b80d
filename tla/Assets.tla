------------------------------- MODULE Assets -------------------------------
(***************************************************************************)
(* Fonts, sprites and styles: what start-up takes from the configured      *)
(* sources and paths, and what requests get from it.                       *)
(*                                                                         *)
(* A configuration is [fonts, sprites, styles, rendering], sequences of    *)
(* inputs, the named sources before the paths, with the `disk` it finds    *)
(* and the requests that will come: fontAsks [ids, first, last], sheetAsks *)
(* [who, ids, double, sdf, index], imageAsks [style, width, height,        *)
(* quarters, box] and tileAsks [style, zoom, x, y].  A directory is a set  *)
(* of files [name, ext, hidden, ...]; a font file has `faces`, a sequence  *)
(* of [name, glyphs], or is `broken`.  The pictures are files that change: *)
(* version 0 is one that does not parse, None one that is not there.       *)
(***************************************************************************)
EXTENDS Integers, FiniteSets, SequencesExt

CONSTANTS
  Configs,
  FontTree,     \* the files of each font path; a path that is a file is `single`
  StyleTree,    \* the .json files of each style path
  Folders,      \* the directories of sprites
  Pictures,     \* the names of their files
  RangeSize,    \* 256
  MaxCodepoint, \* 16r10FFFF
  MaxSide,      \* 2048
  MaxScale,     \* 4
  World,        \* the width of the map in metres
  MaxEdits

VARIABLES
  config,
  phase,    \* "fonts", "sprites", "styles", "up" or "failed"
  todo,     \* the inputs of this phase that are left
  fonts,    \* name -> [path, file, glyphs]
  sprites,  \* id -> directory
  styles,   \* id -> file
  disk,     \* directory -> picture -> version
  cache,    \* keys of sheets -> sheet
  flights,  \* keys of the sheets being computed
  sheets,   \* who -> what the request was answered
  last,     \* the last answer about a font or an image
  edits

vars == <<config, phase, todo, fonts, sprites, styles, disk, cache, flights, sheets, last, edits>>
loaded == <<config, phase, todo, fonts, sprites, styles>>

None == -1
Empty == [x \in {} |-> None]
Nothing == [ask |-> [nothing |-> TRUE]]

Init ==
  /\ config \in Configs
  /\ phase = "fonts" /\ todo = config.fonts
  /\ fonts = Empty /\ sprites = Empty /\ styles = Empty
  /\ disk = config.disk
  /\ cache = Empty /\ flights = Empty /\ sheets = Empty
  /\ last = Nothing /\ edits = 0

\* walk_files: the files with the extensions, but for hidden ones.
Walked(files, exts) == {f \in files : f.ext \in exts /\ ~f.hidden}

FontExts == {"otf", "ttf", "ttc"}

\* A face whose name is taken, or that has no glyphs, is left out.
WithFace(all, path, file, face) ==
  IF face.name \in DOMAIN all \/ face.glyphs = {} THEN all
  ELSE all @@ (face.name :> [path |-> path, file |-> file.name, glyphs |-> face.glyphs])

WithFile(all, path, file) ==
  FoldLeft(LAMBDA sofar, face : WithFace(sofar, path, file, face), all, file.faces)

\* The files of a directory come in the order of the file system.
WithFiles(all, path, order) ==
  FoldLeft(LAMBDA sofar, file : WithFile(sofar, path, file), all, order)

Advance(next, rest) ==
  IF Len(todo) > 1 THEN phase' = phase /\ todo' = Tail(todo)
  ELSE phase' = next /\ todo' = rest

Fail == phase' = "failed" /\ todo' = <<>>

\* A directory that adds no name is an error, and so is any file of it.
AddFonts ==
  /\ phase = "fonts" /\ todo # <<>>
  /\ LET path == Head(todo)
         tree == FontTree[path]
         files == IF tree.single THEN tree.files ELSE Walked(tree.files, FontExts)
     IN \E order \in SetToSeqs(files) :
          LET all == WithFiles(fonts, path, order)
              wrong == \/ tree.single /\ \A f \in files : f.ext \notin FontExts
                       \/ \E f \in files : f.broken
                       \/ ~tree.single /\ DOMAIN all = DOMAIN fonts
          IN IF wrong THEN Fail /\ UNCHANGED fonts
             ELSE fonts' = all /\ Advance("sprites", config.sprites)
  /\ UNCHANGED <<config, sprites, styles, disk, cache, flights, sheets, last, edits>>

\* A named directory must exist; a path goes by its last component; files and
\* taken ids are left out.
AddSprites ==
  /\ phase = "sprites" /\ todo # <<>>
  /\ LET input == Head(todo)
     IN IF input.named /\ input.missing THEN Fail /\ UNCHANGED sprites
        ELSE /\ sprites' = IF input.single \/ input.id = "" \/ input.id \in DOMAIN sprites THEN sprites
                           ELSE sprites @@ (input.id :> input.folder)
             /\ Advance("styles", config.styles)
  /\ UNCHANGED <<config, fonts, styles, disk, cache, flights, sheets, last, edits>>

\* A named style must be a file; a path stands for the .json files under it.
AddStyles ==
  /\ phase = "styles" /\ todo # <<>>
  /\ LET input == Head(todo)
     IN IF input.named
        THEN /\ styles' = IF input.single /\ input.id \notin DOMAIN styles
                          THEN styles @@ (input.id :> input.id) ELSE styles
             /\ Advance("up", <<>>)
        ELSE IF input.missing THEN Fail /\ UNCHANGED styles
        ELSE \E order \in SetToSeqs(Walked(StyleTree[input.id], {"json"})) :
               /\ styles' = FoldLeft(LAMBDA sofar, f : IF f.stem \in DOMAIN sofar THEN sofar
                                                       ELSE sofar @@ (f.stem :> f.name),
                                     styles, order)
               /\ Advance("up", <<>>)
  /\ UNCHANGED <<config, fonts, sprites, disk, cache, flights, sheets, last, edits>>

\* A kind of which nothing is configured.
Skip ==
  /\ todo = <<>>
  /\ \/ phase = "fonts" /\ phase' = "sprites" /\ todo' = config.sprites
     \/ phase = "sprites" /\ phase' = "styles" /\ todo' = config.styles
     \/ phase = "styles" /\ phase' = "up" /\ todo' = <<>>
  /\ UNCHANGED <<config, fonts, sprites, styles, disk, cache, flights, sheets, last, edits>>

(***************************************************************************)
(* Glyphs                                                                  *)
(***************************************************************************)

WrongRange(first, final) ==
  \/ first > MaxCodepoint \/ final > MaxCodepoint
  \/ first > final
  \/ first % RangeSize # 0
  \/ final % RangeSize # RangeSize - 1
  \/ final - first # RangeSize - 1

\* Every font of the stack adds all it has, those before it or not.
Glyphs(ids, first, final) ==
  FlattenSeq([i \in DOMAIN ids |->
    LET has == SetToSortSeq({c \in first..final : c \in fonts[ids[i]].glyphs}, <)
    IN [k \in DOMAIN has |-> [font |-> ids[i], code |-> has[k]]]])

AskFont(ask) ==
  /\ phase = "up"
  /\ LET status == IF WrongRange(ask.first, ask.last) THEN 400
                   ELSE IF \E i \in DOMAIN ask.ids : ask.ids[i] \notin DOMAIN fonts THEN 404
                   ELSE 200
     IN last' = [ask |-> ask, status |-> status,
                 body |-> IF status = 200 THEN Glyphs(ask.ids, ask.first, ask.last) ELSE <<>>]
  /\ UNCHANGED <<loaded, disk, cache, flights, sheets, edits>>

(***************************************************************************)
(* Sheets of sprites                                                       *)
(***************************************************************************)

\* Mutant: the ids alone.
IdsOnly(ask) == [ids |-> ask.ids, double |-> ask.double]

\* SpriteCacheKey.  (The ids of the path end in @2x for a sheet of twice the size.)
Key(ask) == [ids |-> ask.ids, double |-> ask.double, sdf |-> ask.sdf, index |-> ask.index]

Here(folder) == {p \in Pictures : disk[folder][p] # None}

Answer(who, what) == [w \in who |-> what] @@ sheets

\* A request is answered from the cache, joins the one that computes what it
\* asks for, or lists the directories and starts.
AskSheet(ask) ==
  /\ phase = "up" /\ ask.who \notin DOMAIN sheets
  /\ \A k \in DOMAIN flights : ask.who \notin flights[k].waiting
  /\ LET key == Key(ask)
         folders == [i \in DOMAIN ask.ids |-> sprites[ask.ids[i]]]
         unknown == \E i \in DOMAIN ask.ids : ask.ids[i] \notin DOMAIN sprites
     IN CASE key \in DOMAIN cache ->
               sheets' = Answer({ask.who}, cache[key]) /\ UNCHANGED flights
          [] key \in DOMAIN flights ->
               /\ flights' = [flights EXCEPT ![key].waiting = @ \cup {ask.who}]
               /\ UNCHANGED sheets
          [] key \notin DOMAIN cache \cup DOMAIN flights /\ unknown ->
               sheets' = Answer({ask.who}, [status |-> 404]) /\ UNCHANGED flights
          [] key \notin DOMAIN cache \cup DOMAIN flights /\ ~unknown ->
               IF \E i \in DOMAIN folders : Here(folders[i]) = {}
               THEN sheets' = Answer({ask.who}, [status |-> 500]) /\ UNCHANGED flights
               ELSE /\ flights' = flights @@ (key :>
                         [waiting |-> {ask.who}, ask |-> ask, folders |-> folders,
                          at |-> disk,
                          todo |-> {ip \in (DOMAIN folders) \X Pictures : ip[2] \in Here(folders[ip[1]])},
                          got |-> Empty])
                    /\ UNCHANGED sheets
  /\ UNCHANGED <<loaded, disk, cache, last, edits>>

Ended(key) == [k \in DOMAIN flights \ {key} |-> flights[k]]

\* One file is read and parsed; the first that cannot be ends the request.
ReadPicture(key) ==
  /\ key \in DOMAIN flights
  /\ \E item \in flights[key].todo :
       LET version == disk[flights[key].folders[item[1]]][item[2]]
       IN IF version \in {None, 0}
          THEN /\ sheets' = Answer(flights[key].waiting, [status |-> 500])
               /\ flights' = Ended(key)
          ELSE /\ flights' = [flights EXCEPT ![key].todo = @ \ {item},
                                             ![key].got = (item :> version) @@ @]
               /\ UNCHANGED sheets
  /\ UNCHANGED <<loaded, disk, cache, last, edits>>

\* The files are collected into a map by name.
SourceOf(got, p) == CHOOSE i \in {g[1] : g \in DOMAIN got} :
  <<i, p>> \in DOMAIN got /\ \A g \in DOMAIN got : g[2] = p => g[1] <= i

FinishSheet(key) ==
  /\ key \in DOMAIN flights /\ flights[key].todo = {}
  /\ LET f == flights[key]
         pictures == [p \in {g[2] : g \in DOMAIN f.got} |->
                        LET i == SourceOf(f.got, p)
                        IN [folder |-> f.folders[i], version |-> f.got[<<i, p>>]]]
         sheet == [status |-> 200, ids |-> f.ask.ids, double |-> f.ask.double, sdf |-> f.ask.sdf,
                   index |-> f.ask.index, pictures |-> pictures, at |-> f.at]
     IN cache' = cache @@ (key :> sheet) /\ sheets' = Answer(f.waiting, sheet)
  /\ flights' = Ended(key)
  /\ UNCHANGED <<loaded, disk, last, edits>>

\* Someone writes, breaks or removes a picture.
Edit ==
  /\ phase = "up" /\ edits < MaxEdits /\ edits' = edits + 1
  /\ \E folder \in Folders, p \in Pictures, v \in {None, 0, edits + 2} :
       /\ disk[folder][p] # v
       /\ disk' = [disk EXCEPT ![folder][p] = v]
  /\ UNCHANGED <<loaded, cache, flights, sheets, last>>

(***************************************************************************)
(* Images of a style                                                       *)
(***************************************************************************)

\* The scale, in quarters, to the nearest whole number.
Scale(quarters) == (quarters + 2) \div 4

WrongSize(ask) ==
  \/ ask.width = 0 \/ ask.height = 0
  \/ ask.width > MaxSide \/ ask.height > MaxSide
  \/ ask.quarters <= 0 \/ Scale(ask.quarters) > MaxScale

\* Pixels of the whole map at the zoom that frames a box [west, south, east, north]
\* in metres, at least those of zoom 0; a side of no length counts as zoom 20.
Least(a, b) == IF a < b THEN a ELSE b
Greatest(a, b) == IF a < b THEN b ELSE a

Framing(metres, pixels) ==
  IF metres = 0 THEN 256 * 2 ^ 20 ELSE (World * pixels) \div metres

MapPixels(box, width, height) ==
  IF box.east = box.west /\ box.north = box.south THEN 256 * 2 ^ 14
  ELSE Greatest(256, Least(Framing(box.east - box.west, width),
                           Framing(box.north - box.south, height)))

\* A tile of a style: its coordinates must be of its zoom.
AskTile(ask) ==
  /\ phase = "up"
  /\ last' = [ask |-> ask, body |-> <<>>,
              status |-> IF ask.style \notin DOMAIN styles THEN 404
                         ELSE IF ask.x >= 2 ^ ask.zoom \/ ask.y >= 2 ^ ask.zoom THEN 400
                         ELSE IF ~config.rendering THEN 403
                         ELSE 200]
  /\ UNCHANGED <<loaded, disk, cache, flights, sheets, edits>>

\* The document of a style, as its file is by now.
AskStyle(style) ==
  /\ phase = "up"
  /\ \E document \in {"style", "malformed", "gone"} :
       last' = [ask |-> [style |-> style], body |-> <<>>,
                status |-> IF style \notin DOMAIN styles \/ document = "gone" THEN 404
                           ELSE IF document = "malformed" THEN 400
                           ELSE 200]
  /\ UNCHANGED <<loaded, disk, cache, flights, sheets, edits>>

AskImage(ask) ==
  /\ phase = "up"
  /\ LET status == IF ask.style \notin DOMAIN styles THEN 404
                   ELSE IF WrongSize(ask) THEN 400
                   ELSE IF ask.box.east < ask.box.west \/ ask.box.north < ask.box.south THEN 400
                   ELSE IF ~config.rendering THEN 403
                   ELSE 200
     IN last' = [ask |-> ask, status |-> status,
                 body |-> IF status = 200
                          THEN [map |-> MapPixels(ask.box, ask.width, ask.height),
                                centre |-> <<ask.box.west + ask.box.east, ask.box.south + ask.box.north>>]
                          ELSE <<>>]
  /\ UNCHANGED <<loaded, disk, cache, flights, sheets, edits>>

Next ==
  \/ AddFonts \/ AddSprites \/ AddStyles \/ Skip
  \/ \E ask \in config.fontAsks : AskFont(ask)
  \/ \E ask \in config.sheetAsks : AskSheet(ask)
  \/ \E key \in DOMAIN flights : ReadPicture(key) \/ FinishSheet(key)
  \/ \E ask \in config.imageAsks : AskImage(ask)
  \/ \E ask \in config.tileAsks : AskTile(ask)
  \/ \E ask \in config.tileAsks : AskStyle(ask.style)
  \/ Edit

Spec == Init /\ [][Next]_vars

(***************************************************************************)
(* Properties                                                              *)
(***************************************************************************)

Usable(path, name) ==
  \E file \in FontTree[path].files :
    /\ FontTree[path].single \/ file \in Walked({file}, FontExts)
    /\ \E i \in DOMAIN file.faces : file.faces[i].name = name /\ file.faces[i].glyphs # {}

NamesIn(path) ==
  UNION {{file.faces[k].name : k \in DOMAIN file.faces} : file \in FontTree[path].files}

\* Once up, every name that some configured font has is served, from the first
\* path in the configuration that has it: later paths never take a name over
\* (parse_font: "Ignoring duplicate font").
FontsOfFirstPath ==
  phase = "up" =>
    \A i \in DOMAIN config.fonts : \A name \in NamesIn(config.fonts[i]) :
      Usable(config.fonts[i], name) =>
        /\ name \in DOMAIN fonts
        /\ (\A j \in 1..i - 1 : ~Usable(config.fonts[j], name)) => fonts[name].path = config.fonts[i]

\* A sheet is what its request asked for, though requests share computations and
\* the cache: the form, kind and size asked for; all the pictures its sources
\* listed, each of the last source that has it, as it was then or is written later.
SheetAsAsked ==
  \A ask \in config.sheetAsks :
    ask.who \in DOMAIN sheets /\ sheets[ask.who].status = 200 =>
      LET s == sheets[ask.who]
          has(i, p) == s.at[sprites[ask.ids[i]]][p] # None
      IN /\ s.ids = ask.ids /\ s.double = ask.double /\ s.sdf = ask.sdf /\ s.index = ask.index
         /\ DOMAIN s.pictures = {p \in Pictures : \E i \in DOMAIN ask.ids : has(i, p)}
         /\ \A p \in DOMAIN s.pictures, i \in DOMAIN ask.ids :
              has(i, p) /\ (\A j \in i + 1..Len(ask.ids) : ~has(j, p)) =>
                /\ s.pictures[p].folder = sprites[ask.ids[i]]
                /\ s.pictures[p].version >= s.at[sprites[ask.ids[i]]][p]

\* The box of an image request is in the image, unless the world is smaller.
BoxInImage ==
  last.ask \in config.imageAsks /\ last.status = 200 =>
    LET across == last.ask.box.east - last.ask.box.west
        up == last.ask.box.north - last.ask.box.south
    IN last.body.map > 256 =>
         /\ across * last.body.map <= last.ask.width * World
         /\ up * last.body.map <= last.ask.height * World
=============================================================================
