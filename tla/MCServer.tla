------------------------------ MODULE MCServer ------------------------------
(* What the server is made of, each part a scene of its own: its ids         *)
(* (IdResolver), its responses (TileResponse), its sources (Cog,              *)
(* PmtilesCache, MbtilesSource, Upstream), its start (Startup), its           *)
(* databases (PgSources), its fonts, sprites and styles (Assets) and its      *)
(* routes (Routes).  The scenes other than "ids" take turns with v1 to v12.   *)
EXTENDS IdResolver, SequencesExt, TLC

CONSTANTS
  Scenes,   \* which of them are run
  Pending,
  Sources, Catalogs, Paths, Accepts, AcceptEncodings, Preferred, MaxRequests,  \* TileResponse
  Cogs, Circumference, MaxZoom, AbsoluteError,                  \* Cog
  Foreign, Asked, Modes, Bodies, TilePlaces, MetaFormats,       \* MbtilesSource
  MetaPackings, DeepestZoom, LastZoom, MaxRows, MaxRuns,
  Archives, Clients, Offsets, MaxVersion, MaxReaders,          \* PmtilesCache
  Upstreams, Documents, Places, HashOf, Given, MaxAsked         \* Upstream

VARIABLES scene, v1, v2, v3, v4, v5, v6, v7, v8, v9, v10, v11, v12

-----------------------------------------------------------------------------
\* Ids: two spellings of "a-b", its dotted form, and a reserved word.
MCSanitised ==
  [n \in Names |-> CASE n = "a-b.1" -> <<"a-b", 1>>
                     [] n = "a b"   -> <<"a-b">>
                     [] OTHER       -> <<n>>]

MCReserved == {<<"catalog">>}

-----------------------------------------------------------------------------
\* Responses: two vector sources that may be stored compressed, may convert and
\* may have an empty tile or no tile at this zoom, beside a raster source.
Stores == {<<"mvt", "none">>, <<"mvt", "gzip">>, <<"mvt", "br">>, <<"mlt", "gzip">>}

Vectors == {[format |-> x[1], encoding |-> x[2], empty |-> e, inZoom |-> z, converts |-> c] :
              x \in Stores, e \in BOOLEAN, z \in BOOLEAN, c \in BOOLEAN}

Raster == [format |-> "png", encoding |-> "internal", empty |-> FALSE,
           inZoom |-> TRUE, converts |-> TRUE]

MCCatalogs ==
  {c \in [{"roads", "water", "sat"} -> Vectors \cup {Raster}] :
     /\ c["sat"] = Raster
     /\ c["roads"] \in {v \in Vectors : ~v.empty /\ v.inZoom}
     /\ c["water"] \in {v \in Vectors : v.converts}
     /\ c["water"].format = c["roads"].format
     /\ c["water"].encoding = c["roads"].encoding
     /\ ~c["roads"].converts => ~c["water"].empty /\ c["water"].inZoom}

MCPaths == {<<"roads">>, <<"roads", "water">>, <<"water">>,
            <<"roads", "water", "roads">>, <<"sat">>, <<"sat", "roads">>, <<"sat", "sat">>}

Take(item)   == [item |-> item, q |-> 2]
Least(item)  == [item |-> item, q |-> 1]
Refuse(item) == [item |-> item, q |-> 0]

MCAccepts == {<<>>, <<Take("mvt")>>, <<Take("mlt")>>, <<Refuse("png"), Take("image/*")>>,
              <<Take("text")>>}

MCAcceptEncodings ==
  {<<>>, <<Take("gzip")>>, <<Take("br"), Take("zstd"), Refuse("gzip")>>,
   <<Least("gzip"), Take("br")>>, <<Least("*"), Take("deflate")>>,
   <<Take("deflate")>>, <<Refuse("identity")>>}

T == INSTANCE TileResponse WITH
       catalog <- v1, cache <- v2, pc <- v3, request <- v4, tiles <- v5,
       tile <- v6, response <- v7, held <- v8, count <- v9

\* A source has a format and an encoding, and no tile is none; a header lists
\* items with qualities, and the server prefers one of two encodings.
ASSUME ResponsesAssumption ==
  /\ Catalogs \subseteq
       [Sources -> [format : T!Formats, encoding : T!Encodings, empty : BOOLEAN,
                    inZoom : BOOLEAN, converts : BOOLEAN]]
  /\ Paths \subseteq Seq(Sources)
  /\ AcceptEncodings \subseteq Seq([item : STRING, q : Nat])
  /\ Preferred \in {"gzip", "br"}
  /\ MaxRequests \in Nat
  /\ Pending \notin Sources \cup T!TileType

-----------------------------------------------------------------------------
\* Images: whole and cut short, on the grid and off it, with a gap in the zooms,
\* with two images of a zoom, and with what is refused.
Image(kind, size, compression, sparse) ==
  [kind |-> kind, size |-> size, tile |-> 2, compression |-> compression, sparse |-> sparse]

PixelAt(zoom) == Circumference \div (2 ^ zoom * 2)

Cog(images, zoom, origin) ==
  [images |-> images, scale |-> PixelAt(zoom), origin |-> origin, lacks |-> {}, ycbcr |-> FALSE]

Whole(c) ==
  <<Image("untyped", 4, c, {<<1, 0>>}), Image("mask", 4, "deflate", {}), Image("overview", 2, c, {})>>

MCCogs ==
  {Cog(Whole(c), 3, k * 2 * PixelAt(2) + d) :
     c \in {"jpeg", "lzw", "webp", "other"}, k \in {0, 1},
     d \in {0, PixelAt(3) \div 2, (3 * PixelAt(3)) \div 2}}
  \cup
  {Cog(<<Image("untyped", 3, "none", {}), Image("overview", 2, "none", {})>>, 3, 0),
   Cog(<<Image("untyped", 6, "none", {}), Image("overview", 3, "jpeg", {}), Image("overview", 3, "lzw", {})>>, 3, 0),
   Cog(<<Image("untyped", 8, "deflate", {}), Image("overview", 2, "deflate", {<<0, 0>>})>>, 3, 0),
   Cog(<<Image("full", 4, "lzw", {}), Image("overview", 2, "lzw", {})>>, 2, 0),
   [Cog(Whole("lzw"), 3, 0) EXCEPT !.lacks = {"crs"}],
   [Cog(Whole("lzw"), 3, 0) EXCEPT !.ycbcr = TRUE],
   [Cog(Whole("jpeg"), 3, 0) EXCEPT !.ycbcr = TRUE]}

C == INSTANCE Cog WITH
       Files <- Cogs,
       file <- v1, source <- v2, answer <- v3

\* An image has pixels, tiles of it are a metre a pixel or more, and the images
\* that stand for a zoom lie on the earth, in at most one tile more than it has.
ASSUME CogsAssumption ==
  /\ Circumference \in Nat /\ MaxZoom \in Nat /\ AbsoluteError \in Nat
  /\ \A f \in Cogs :
       /\ f.images # <<>>
       /\ f.images \in Seq([kind : STRING, size : Nat \ {0}, tile : Nat \ {0},
                             compression : STRING, sparse : SUBSET (Nat \X Nat)])
       /\ f.scale \in Nat /\ f.origin \in Nat
       /\ \A i \in C!Read(f) :
            LET image == C!ImageAt(f, i)
            IN  image.zoom # -1 =>
                  /\ C!Resolution(image.zoom, image.tile) \in Nat \ {0}
                  /\ image.origin + image.across <= 2 ^ image.zoom + 1

ASSUME ArchivesAssumption == IsFiniteSet(Archives) /\ Archives # {}

P == INSTANCE PmtilesCache WITH
       Requests <- Clients,
       version <- v1, reader <- v2, nextId <- v3, cache <- v4, fetching <- v5, request <- v6

-----------------------------------------------------------------------------
\* MBTiles: files whose metadata is wrong, missing or no number, with a tile that
\* is NULL or off the grid, without a unique index, and of another schema.
At == {"zoom_level", "tile_column", "tile_row"}

Object(name, columns, unique) ==
  [name |-> name, table |-> TRUE, columns |-> columns, unique |-> unique, over |-> name]

Metadata == Object("metadata", {"name", "value"}, FALSE)
Flat(unique) == {Metadata, Object("tiles", At \cup {"tile_data"}, unique)}

Body(kind, packing) == [kind |-> kind, packing |-> packing]
Row(in, z, x, y, body) == [in |-> in, z |-> z, x |-> x, y |-> y, body |-> body]
Meta(zooms, format, packing) == [min |-> zooms, max |-> zooms, format |-> format, packing |-> packing]

MCForeign ==
  {[objects |-> Flat(TRUE), meta |-> Meta({}, {"png"}, {"gzip"}),
    rows |-> {Row("tiles", 0, 0, 0, {Body("mvt", "zlib")}), Row("tiles", 1, 1, 2, {Body("mvt", "zlib")})}],
   [objects |-> Flat(TRUE), meta |-> Meta({300}, {"mvt"}, {"gzip"}), rows |-> {}],
   [objects |-> Flat(TRUE), meta |-> Meta({}, {}, {}),
    rows |-> {Row("tiles", 0, 0, 0, {}), Row("tiles", 1, 0, 1, {Body("json", "none")})}],
   [objects |-> Flat(FALSE), meta |-> Meta({1}, {}, {}), rows |-> {}],
   [objects |-> {Metadata, Object("tiles_shallow", At \cup {"tile_data_id"}, TRUE),
                 Object("tiles_data", {"tile_data_id", "tile_data"}, FALSE),
                 [Object("tiles", At \cup {"tile_data"}, FALSE) EXCEPT !.table = FALSE, !.over = "tiles_shallow"]},
    meta |-> Meta({}, {}, {}), rows |-> {Row("tiles_shallow", 2, 3, 0, {Body("mlt", "gzip")})}]}

MCBodies == {Body("mvt", "gzip"), Body("png", "none")}
MCTilePlaces == {[z |-> 0, x |-> 0, y |-> 0], [z |-> 1, x |-> 1, y |-> 1], [z |-> 2, x |-> 0, y |-> 3]}
MCMetaFormats == {{"mvt"}}
MCMetaPackings == {{}, {"gzip"}}

B == INSTANCE MbtilesSource WITH
       Places <- TilePlaces, MaxZoom <- DeepestZoom,
       objects <- v1, rows <- v2, meta <- v3, tool <- v4, source <- v5, valid <- v6

\* What another program wrote is a file of SQLite's: no two objects of one name,
\* a table is over itself, and `tiles` shows the main table of the type it has.
ASSUME ForeignAssumption ==
  /\ \A f \in Foreign :
       /\ f.objects # {}
       /\ \A o, p \in f.objects : o.name = p.name => o = p
       /\ \A o \in f.objects : o.table => o.over = o.name
       /\ LET type == B!DetectedType(f.objects)
          IN type # "unknown" => \A o \in f.objects : o.name = "tiles" => o.over = B!MainTable(type)
       /\ f.rows \subseteq [in : STRING, z : Int, x : Int, y : Int,
                            body : SUBSET [kind : STRING, packing : STRING]]
       /\ \A r \in f.rows : \A b, c \in r.body : b = c
  /\ Asked \subseteq {"flat", "flat-with-hash", "normalized", "normalized-with-view"}
  /\ TilePlaces \subseteq [z : Nat, x : Int, y : Int]
  /\ Bodies \subseteq [kind : STRING, packing : STRING]
  /\ DeepestZoom \in Nat /\ LastZoom \in Nat

-----------------------------------------------------------------------------
\* Upstreams: templates of two servers, one that is none, no URL, and a document
\* that may be out of reach, change its templates or name no format.
Url(template, ext, host) == [template |-> template, ext |-> ext, host |-> host]

MCUpstreams ==
  {[urls |-> <<>>, format |-> {}],
   [urls |-> <<Url(TRUE, {"mlt"}, "a"), Url(TRUE, {}, "b")>>, format |-> {}],
   [urls |-> <<Url(TRUE, {}, "a"), Url(FALSE, {}, "b")>>, format |-> {"png"}],
   [urls |-> <<Url(FALSE, {"json"}, "a")>>, format |-> {}]}

MCDocuments ==
  {[ok |-> FALSE, tiles |-> <<>>, format |-> {}],
   [ok |-> TRUE, tiles |-> <<Url(TRUE, {}, "c"), Url(TRUE, {}, "d")>>, format |-> {"mvt"}],
   [ok |-> TRUE, tiles |-> <<Url(TRUE, {}, "d")>>, format |-> {}]}

MCHashOf == "p" :> 3 @@ "q" :> 4

Empty(status) == [status |-> status, type |-> {}, encoding |-> {}, body |-> {}, tag |-> {}]
Reply(type, encoding, kind, packing) ==
  [status |-> "200", type |-> type, encoding |-> encoding, body |-> {Body(kind, packing)}, tag |-> {"t"}]

MCGiven ==
  {Reply({"mvt"}, {"br"}, "mvt", "br"), Reply({}, {"gzip"}, "mlt", "gzip"),
   Reply({}, {}, "png", "none"), Reply({"avif"}, {}, "avif", "none"),
   Empty("404"), Empty("200"), Empty("500")}

\* Bytes come as one body, and however they are packed, it has a name.
ASSUME GivenAssumption ==
  \A sent \in Given : \A b, c \in sent.body : b = c /\ b.packing # "internal"

U == INSTANCE Upstream WITH
       Configs <- Upstreams, Sent <- Given,
       config <- v1, document <- v2, source <- v3, answers <- v4

\* The start: two kinds, files of each that are called alike, one that may change
\* or be bad, a directory, URLs, and command lines that replace all of it.
Listed(kind, stem) == [kind |-> kind, stem |-> <<stem>>, dir |-> "d", url |-> FALSE, needs |-> FALSE]

MCFiles ==
  "m" :> Listed("mbtiles", "a") @@ "n" :> Listed("mbtiles", "b") @@ "p" :> Listed("pmtiles", "a")
    @@ "u" :> [kind |-> "pmtiles", stem |-> <<"a">>, dir |-> "none", url |-> TRUE, needs |-> TRUE]

MCNames ==
  {<<x>> : x \in {"a", "b"}} \cup ({"a", "b"} \X (1..3)) \cup ({"a", "b"} \X (1..3) \X (1..3))

MCRank ==
  [n \in MCNames |-> (IF n[1] = "a" THEN 0 ELSE 100) + (IF Len(n) > 1 THEN 10 * n[2] ELSE 0)
                     + (IF Len(n) > 2 THEN n[3] ELSE 0)]

Named(file, own) == [file |-> file, own |-> own]

MCConfigs ==
  {"mbtiles" :> [named |-> <<"b">> :> Named("m", "x"), paths |-> <<"d">>, options |-> FALSE]
     @@ "pmtiles" :> [named |-> <<"b">> :> Named("p", "unset") @@ <<"a">> :> Named("p", "y"),
                      paths |-> <<"s3", "u">>, options |-> TRUE]}

MCCaches ==
  LET Size(tiles, sprites) == [tiles |-> tiles, pmtiles |-> -1, sprites |-> sprites, fonts |-> -1]
  IN {[size |-> -1, own |-> Size(10, -1)], [size |-> 9, own |-> Size(-1, 0)]}

MCDisks ==
  {d \in [DOMAIN MCFiles -> {"good", "bad"}] : \A f \in {"m", "p", "u"} : d[f] = "good"}

S == INSTANCE Startup WITH
       Kinds <- {"mbtiles", "pmtiles"}, Names <- MCNames, Rank <- MCRank, Files <- MCFiles,
       Dirs <- "d" :> [prefix |-> FALSE] @@ "s3" :> [prefix |-> TRUE],
       Lines <- {<<"d">>, <<"m", "d", "p">>, <<"s3">>}, Configs <- MCConfigs,
       Types <- "mbtiles" :> "unset" @@ "pmtiles" :> "t", Global <- "g", CacheConfigs <- MCCaches,
       Disks <- MCDisks, MaxStarts <- 2, Changing <- {<<"n", "absent">>, <<"n", "good">>},
       MaxChanges <- 1,
       disk <- v1, phase <- v2, asked <- v3, names <- v4, work <- v5, config <- v6, served <- v7,
       caches <- v8, saved <- v9, touched <- v10, starts <- v11, changes <- v12

-----------------------------------------------------------------------------
\* Databases: tables of one name in two schemas, tables and functions that come,
\* go and change, configured in capitals, by formats, not at all.
Strings == <<"K", "N", "S", "A", "G", "a", "b", "c", "d", "f", "g", "h", "k", "n", "s", "t", "x", "y">>
NumberOf(x) == CHOOSE i \in DOMAIN Strings : Strings[i] = x

Tb(srid, columns, note) == [srid |-> srid, columns |-> columns, note |-> note]
Fn(sqls) == [sqls |-> sqls, note |-> "-"]
Roads == <<"s", "a", "g">>
Roads2 == <<"t", "a", "g">>
Lakes == <<"s", "b", "g">>
None == [x \in {} |-> x]

MCDatabases ==
  LET number == "k" :> "integer" @@ "n" :> "text"
      text == "k" :> "text" @@ "n" :> "text"
  IN {[tables |-> Roads :> Tb(1, number, "-") @@ Roads2 :> Tb(0, number, "-"),
       functions |-> <<"s", "a">> :> Fn({"f"})],
      [tables |-> Roads :> Tb(1, text, "-") @@ Lakes :> Tb(0, number, "c"),
       functions |-> <<"s", "a">> :> Fn({"h"})],
      [tables |-> Roads2 :> Tb(2, number, "-"), functions |-> None]}

MCSettings ==
  LET Set(auto, tables, functions, srid, bounds, onInvalid) ==
        [auto |-> auto, tables |-> tables, functions |-> functions, srid |-> srid,
         process |-> "type", bounds |-> bounds, onInvalid |-> onInvalid]
      Table(key, srid, id, props, process) ==
        [key |-> key, srid |-> srid, id |-> id, props |-> props, process |-> process]
      Function(key) == [key |-> key, process |-> "mine"]
      formats == [kind |-> "object", schemas |-> {}, functions |-> [kind |-> "yes"],
                  tables |-> [kind |-> "object", schemas |-> {}, ids |-> <<"K", "n">>,
                              format |-> Roads :> <<"a">> @@ Roads2 :> <<"x">> @@ Lakes :> <<"b">>]]
  IN {"c" :> Set([kind |-> "unset"], None, None, 3, "calc", "abort")
        @@ "d" :> Set([kind |-> "yes"], <<"x">> :> Table(Roads, 0, "k", {"N"}, "mine"),
                      <<"y">> :> Function(<<"s", "a">>), 0, "quick", "warn"),
      "c" :> Set(formats, <<"a">> :> Table(Roads2, 2, "none", {}, "none"),
                 <<"a">> :> Function(<<"S", "A">>), 0, "skip", "warn")
        @@ "d" :> Set([kind |-> "no"], <<"b">> :> Table(<<"S", "b", "G">>, 0, "none", {}, "none"),
                      None, 0, "calc", "warn")}

MCIds == {<<x>> : x \in {"a", "b", "x", "y"}} \cup ({"a", "b", "x", "y"} \X (1..9))
MCOrder == [x \in {Strings[i] : i \in DOMAIN Strings} |-> NumberOf(x)]
MCLower ==
  [x \in DOMAIN MCOrder |-> IF NumberOf(x) > 5 THEN x ELSE <<"k", "n", "s", "a", "g">>[NumberOf(x)]]

D == INSTANCE PgSources WITH
       Conns <- {"c", "d"}, DbName <- "c" :> "p" @@ "d" :> "q", Settings <- MCSettings,
       Databases <- MCDatabases, Names <- MCIds, Order <- MCOrder, Lower <- MCLower,
       Rank <- [n \in MCIds |-> NumberOf(n[1]) * 100 + (IF Len(n) > 1 THEN n[2] ELSE 0)],
       MaxChanges <- 1, MaxFaults <- 1,
       settings <- v1, db <- v2, phase <- v3, work <- v4, names <- v5, baseline <- v6,
       served <- v7, since <- v8, changes <- v9, faults <- v10

-----------------------------------------------------------------------------
\* Assets: fonts twice, in a collection, hidden and unreadable; sprites of two
\* directories; styles, and images on both sides of what is refused.
Face(name, glyphs) == [name |-> name, glyphs |-> glyphs]
FontFile(name, ext, hidden, broken, faces) ==
  [name |-> name, ext |-> ext, hidden |-> hidden, broken |-> broken, faces |-> faces]

MCFontTree ==
  [main |-> [single |-> FALSE, files |->
     {FontFile("m1", "ttf", FALSE, FALSE, <<Face("Sans", {0, 1, 2})>>),
      FontFile("m2", "ttc", FALSE, FALSE, <<Face("Mono", {}), Face("Mono", {1, 5}), Face("Sans", {3})>>),
      FontFile("m3", "ttf", TRUE, FALSE, <<Face("Secret", {1})>>)}],
   more |-> [single |-> FALSE, files |->
     {FontFile("r1", "otf", FALSE, FALSE, <<Face("Sans", {1, 3, 6}), Face("Serif", {2})>>)}],
   file |-> [single |-> TRUE, files |-> {FontFile("f1", "ttf", FALSE, FALSE, <<Face("Serif", {1, 2, 3})>>)}],
   bad |-> [single |-> FALSE, files |-> {FontFile("b1", "ttf", FALSE, TRUE, <<>>)}]]

MCStyleTree ==
  [here |-> {[name |-> "here/a", stem |-> "a", ext |-> "json", hidden |-> FALSE],
             [name |-> "here/sub/a", stem |-> "a", ext |-> "json", hidden |-> FALSE]}]

Input(named, id, folder, single, missing) ==
  [named |-> named, id |-> id, folder |-> folder, single |-> single, missing |-> missing]

Icons == <<Input(TRUE, "icons", "d1", FALSE, FALSE), Input(FALSE, "d2", "d2", FALSE, FALSE),
           Input(FALSE, "icons", "d2", FALSE, FALSE)>>
Styles == <<Input(TRUE, "basic", "", TRUE, FALSE), Input(FALSE, "here", "", FALSE, FALSE)>>

MCFontAsks ==
  {[ids |-> i, first |-> r[1], last |-> r[2]] :
     i \in {<<"Sans", "Mono">>, <<"Serif">>, <<"Secret">>},
     r \in {<<0, 3>>, <<4, 7>>, <<1, 4>>, <<0, 7>>, <<8, 11>>}}

MCSheetAsks ==
  LET Ask(who, index) ==
        [who |-> who, ids |-> <<"icons", "d2">>, double |-> FALSE, sdf |-> FALSE, index |-> index]
  IN {Ask("p", FALSE), Ask("q", TRUE), Ask("s", FALSE)}

MCTileAsks ==
  {[style |-> s, zoom |-> 1, x |-> x, y |-> 0] : s \in {"a", "basic", "x"}, x \in {1, 2}}

MCImageAsks ==
  LET Box(w, s, e, n) == [west |-> w, south |-> s, east |-> e, north |-> n]
  IN {[style |-> "a", width |-> w, height |-> 512, quarters |-> q, box |-> b] :
        w \in {0, 512, 2048, 2049}, q \in {0, 1, 17, 18},
        b \in {Box(0, 0, 64, 32), Box(0, 0, 0, 8), Box(5, 0, 0, 8), Box(0, 0, 4096, 4096), Box(1, 1, 1, 1)}}

MCAssets ==
  LET Config(fonts, sprites, styles, rendering) ==
        [fonts |-> fonts, sprites |-> sprites, styles |-> styles, rendering |-> rendering,
         disk |-> [d1 |-> [a |-> 1, b |-> 1], d2 |-> [a |-> 1, b |-> -1]],
         fontAsks |-> IF Len(fonts) = 3 THEN MCFontAsks ELSE {},
         sheetAsks |-> IF Len(sprites) = 3 THEN MCSheetAsks ELSE {},
         imageAsks |-> IF styles = <<>> THEN {} ELSE MCImageAsks,
         tileAsks |-> IF styles = <<>> THEN {} ELSE MCTileAsks]
  IN {Config(<<"main", "more", "file">>, <<>>, <<>>, FALSE), Config(<<"file", "main", "main">>, <<>>, <<>>, FALSE),
      Config(<<"more", "bad">>, <<>>, <<>>, FALSE), Config(<<>>, Icons, <<>>, FALSE),
      Config(<<>>, <<Input(TRUE, "gone", "d1", FALSE, TRUE)>>, <<>>, FALSE),
      Config(<<>>, <<>>, Styles, TRUE), Config(<<>>, <<>>, Styles, FALSE)}

A == INSTANCE Assets WITH
       Configs <- MCAssets, FontTree <- MCFontTree, StyleTree <- MCStyleTree, Folders <- {"d1", "d2"},
       Pictures <- {"a", "b"}, RangeSize <- 4, MaxCodepoint <- 10, MaxSide <- 2048, MaxScale <- 4,
       World <- 4096, MaxEdits <- 1,
       config <- v1, phase <- v2, todo <- v3, fonts <- v4, sprites <- v5, styles <- v6, disk <- v7,
       cache <- v8, flights <- v9, sheets <- v10, last <- v11, edits <- v12

-----------------------------------------------------------------------------
\* Routes: on its own, behind proxies that strip a prefix, keep it or say so.
Seg(name) == <<name, "">>
Maps == <<Seg("maps")>>

MCDeployments ==
  LET Deploy(public, internal, route, base, header) ==
        [public |-> public, internal |-> internal, route |-> route, base |-> base, header |-> header]
  IN {Deploy(<<>>, <<>>, {}, {}, "none"), Deploy(Maps, Maps, {Maps}, {}, "none"),
      Deploy(Maps, Maps, {Maps}, {Maps}, "rewrite"), Deploy(Maps, <<>>, {}, {Maps}, "none"),
      Deploy(Maps, <<>>, {}, {}, "rewrite"), Deploy(Maps, <<>>, {}, {}, "forwarded"),
      Deploy(Maps, <<Seg("in")>>, {<<Seg("in")>>}, {Maps}, "none"), Deploy(<<>>, <<>>, {}, {<<>>}, "none")}

MCSources ==
  LET Source(version, min, max, bounds, layers) ==
        [version |-> version, min |-> min, max |-> max, bounds |-> bounds, layers |-> layers]
  IN [a |-> Source("v1", {2}, {5}, {1, 2}, <<"roads">>),
      b |-> Source("v2", {1}, {}, {3}, <<"roads", "water">>),
      tiles |-> Source("v3", {}, {}, {}, <<>>)]

MCRequests ==
  LET Tile(name, last) == <<Seg(name), Seg("0"), Seg("1"), last>>
      paths ==
        {<<Seg(x)>> : x \in {"health", "catalog", "a", "both", "x", "tiles"}} \cup
        {Tile("a", Seg("0")), Tile("tiles", Seg("0")), Tile("both", <<"1", "pbf">>), Tile("a", <<"z", "pbf">>),
         <<Seg("tiles")>> \o Tile("a", Seg("0")), <<Seg("tiles")>> \o Tile("a", <<"0", "pbf">>),
         <<Seg("style")>> \o Tile("s", <<"1", "jpeg">>), <<Seg("style")>> \o Tile("s", <<"1", "gif">>),
         <<Seg("style"), Seg("s"), Seg("static"), Seg("c"), <<"9x9", "jpeg">>>>,
         <<Seg("sprite"), <<"i", "json">>>>, <<Seg("fonts"), Seg("f"), Seg("0-255")>>,
         <<Seg("styles"), Seg("s")>>}
        \cup {<<Seg(s), <<"i", x>>>> : s \in {"sprites", "sdf_sprites"}, x \in {"json", "png"}}
  IN [path: paths, query: {{}, {"key"}}]

R == INSTANCE Routes WITH
       Deployments <- MCDeployments, Requests <- MCRequests, Sources <- MCSources, Numbers <- {"0", "1"},
       deployment <- v1, asked <- v2, url <- v3, answer <- v4, hops <- v5

-----------------------------------------------------------------------------
free == <<v1, v2, v3, v4, v5, v6, v7, v8, v9, v10, v11, v12>>
allVars == <<scene, vars, free>>

\* A scene leaves the variables it has no use for at 0.
Unused(first) ==
  /\ first <= 1 => v1 = 0
  /\ first <= 2 => v2 = 0
  /\ first <= 3 => v3 = 0
  /\ first <= 4 => v4 = 0
  /\ first <= 5 => v5 = 0
  /\ first <= 6 => v6 = 0
  /\ first <= 7 => v7 = 0
  /\ first <= 8 => v8 = 0
  /\ first <= 9 => v9 = 0
  /\ first <= 10 => v10 = 0
  /\ first <= 11 => v11 = 0
  /\ first <= 12 => v12 = 0

AllInit ==
  /\ scene \in Scenes
  /\ Init
  /\ \/ scene = "ids" /\ Unused(1)
     \/ scene = "responses" /\ T!Init /\ Unused(10)
     \/ scene = "cog" /\ C!Init /\ Unused(4)
     \/ scene = "pmtiles" /\ P!Init /\ Unused(7)
     \/ scene = "mbtiles" /\ B!Init /\ Unused(7)
     \/ scene = "upstream" /\ U!Init /\ Unused(5)
     \/ scene = "start" /\ S!Init
     \/ scene = "databases" /\ D!Init /\ Unused(11)
     \/ scene = "assets" /\ A!Init
     \/ scene = "routes" /\ R!Init /\ Unused(6)

AllNext ==
  /\ UNCHANGED scene
  /\ \/ scene = "ids" /\ Next /\ UNCHANGED free
     \/ /\ scene = "responses" /\ T!Next
        /\ UNCHANGED <<vars, v10, v11, v12>>
     \/ /\ scene = "cog" /\ C!Next
        /\ UNCHANGED <<vars, v4, v5, v6, v7, v8, v9, v10, v11, v12>>
     \/ /\ scene = "pmtiles" /\ P!Next
        /\ UNCHANGED <<vars, v7, v8, v9, v10, v11, v12>>
     \/ /\ scene = "mbtiles" /\ B!Next
        /\ UNCHANGED <<vars, v7, v8, v9, v10, v11, v12>>
     \/ /\ scene = "upstream" /\ U!Next
        /\ UNCHANGED <<vars, v5, v6, v7, v8, v9, v10, v11, v12>>
     \/ /\ scene = "start" /\ S!Next
        /\ UNCHANGED <<vars>>
     \/ /\ scene = "databases" /\ D!Next
        /\ UNCHANGED <<vars, v11, v12>>
     \/ /\ scene = "assets" /\ A!Next
        /\ UNCHANGED <<vars>>
     \/ /\ scene = "routes" /\ R!Next
        /\ UNCHANGED <<vars, v6, v7, v8, v9, v10, v11, v12>>

AllSpec == AllInit /\ [][AllNext]_allVars
-----------------------------------------------------------------------------
\* A response is what its headers say it is, in a format the client takes
\* (SentAsLabelled and FormatIsAccepted of TileResponse).
SentRight == scene = "responses" => T!TypeOK /\ T!SentAsLabelled /\ T!FormatIsAccepted

\* What a client keeps or gets merged is right (NotModifiedIsHeld and
\* CompatibleAreMerged of TileResponse).
ClientsRight == scene = "responses" => T!NotModifiedIsHeld /\ T!CompatibleAreMerged

\* Files are served as they were written (TilesInPlace, PixelsInPlace and
\* LabelledAlike of Cog, FilesServedAsWritten of MbtilesSource).
FilesRight ==
  /\ scene = "cog" => C!TilesInPlace /\ C!PixelsInPlace /\ C!LabelledAlike
  /\ scene = "mbtiles" => B!FilesServedAsWritten

\* What is fetched from elsewhere is passed on as what it is (DirectoryOfItsData
\* and OneFetch of PmtilesCache, UpstreamPassedOn of Upstream).
RemotesRight ==
  /\ scene = "pmtiles" => P!DirectoryOfItsData /\ P!OneFetch
  /\ scene = "upstream" => U!UpstreamPassedOn

\* A start serves what it was asked to, and its saved configuration says the same
\* (ServedAsAsked, SettingsFollow, SavedIdsReturn, RestartServesAlike and
\* CachesAsSet of Startup).
StartsRight ==
  scene = "start" =>
    /\ S!ServedAsAsked /\ S!SettingsFollow /\ S!SavedIdsReturn
    /\ S!RestartServesAlike /\ S!CachesAsSet

\* Tables and functions are published as they are declared (PublishedAsDeclared
\* of PgSources).
DatabasesRight == scene = "databases" => D!PublishedAsDeclared

\* Fonts, sheets and images are what was asked for (FontsOfFirstPath, SheetAsAsked
\* and BoxInImage of Assets).
AssetsRight == scene = "assets" => A!FontsOfFirstPath /\ A!SheetAsAsked /\ A!BoxInImage

\* The addresses the server gives out arrive (TilesReached and DocumentCovers of
\* Routes).
RoutesRight == scene = "routes" => R!TilesReached /\ R!DocumentCovers
=============================================================================
