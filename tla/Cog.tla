--------------------------------- MODULE Cog ---------------------------------
(***************************************************************************)
(* Tiles out of Cloud Optimized GeoTIFFs (tiles/cog): which images of the  *)
(* file stand for which zoom levels, where each lies on the grid of web    *)
(* mercator tiles, and which of its chunks a tile is.                      *)
(*                                                                         *)
(* A file is [images, scale, origin, lacks]: its images in their order,    *)
(* each [kind, size (pixels a side), tile (pixels a side of a chunk),      *)
(* compression, sparse (chunks it leaves out)]; metres per pixel of the    *)
(* first; metres from the north-western corner of the world; and the       *)
(* requirements it does not meet.  It is the same along both axes, so an   *)
(* image is square and its chunks are told by <<column, row>>.             *)
(***************************************************************************)
EXTENDS Integers, Sequences, FiniteSets

CONSTANTS
  Files,
  Circumference,  \* of the earth, in metres
  MaxZoom,
  AbsoluteError   \* 3 metres

VARIABLES
  file,
  source,  \* none, refused, or [images by zoom, format]
  answer   \* the last: nothing, an error, or a tile [at, from, label, format, pixels]

vars == <<file, source, answer>>

NoSource == [is |-> "none"]
Refusal == [is |-> "refused"]
Nothing == [is |-> "nothing"]
Error == [is |-> "error"]

Init == file \in Files /\ source = NoSource /\ answer = Nothing

Across(image) == (image.size + image.tile - 1) \div image.tile

\* verify_requirements looks at the first image only.
Refused(f) == f.lacks # {} \/ Head(f.images).compression = "other"

\* Which images are read: those without a subfile type, and the overviews.
Read(f) == {i \in DOMAIN f.images : f.images[i].kind \in {"untyped", "overview"}}

\* Metres per pixel of the tiles of a zoom.
Resolution(zoom, tile) == Circumference \div (2 ^ zoom * tile)

\* web_mercator_zoom: the zooms whose resolution is within 3 metres and 0.1% of
\* metres / pixels.
Matching(metres, pixels, tile) ==
  {z \in 0..MaxZoom :
     LET r == Resolution(z, tile)
         off == metres - r * pixels
         error == IF off < 0 THEN -off ELSE off
     IN error < AbsoluteError * pixels /\ error < (r * pixels) \div 1000}

\* To the nearest whole number.
Rounded(a, b) == (2 * a + b) \div (2 * b)

\* get_image: the image at the zoom its resolution shows.
ImageAt(f, i) ==
  LET image == f.images[i]
      metres == Head(f.images).size * f.scale
      zooms == Matching(metres, image.size, image.tile)
      zoom == CHOOSE z \in zooms : \A y \in zooms : z <= y
  IN IF zooms = {} THEN [zoom |-> -1]
     ELSE [ifd |-> i, zoom |-> zoom, across |-> Across(image), tile |-> image.tile,
           origin |-> Rounded(f.origin, image.tile * Resolution(zoom, image.tile)),
           compression |-> image.compression]

\* output_format
Format(compression) ==
  CASE compression = "webp" -> "webp"
    [] compression = "jpeg" -> "jpeg"
    [] compression \in {"none", "lzw", "deflate"} -> "png"
    [] OTHER -> "unknown"

\* The later image replaces an earlier one.
Kept(images) == CHOOSE m \in images : \A n \in images : m.ifd >= n.ifd

\* CogSource::new.  The format is that of any of the images.
Open ==
  /\ source = NoSource
  /\ LET all == {ImageAt(file, i) : i \in Read(file)}
         zooms == {m.zoom : m \in all}
         images == [z \in zooms |-> Kept({m \in all : m.zoom = z})]
     IN IF Refused(file) \/ all = {} \/ -1 \in zooms \/ \E z, y \in zooms : images[z].tile # images[y].tile
        THEN source' = Refusal
        ELSE \E z \in zooms :
               LET format == Format(images[z].compression)
               IN source' = IF format = "unknown" THEN Refusal ELSE [is |-> "source", images |-> images, format |-> format]
  /\ UNCHANGED <<file, answer>>

Opened == source.is = "source"
Zooms == DOMAIN source.images
Lowest == CHOOSE z \in Zooms : \A y \in Zooms : z <= y
Highest == CHOOSE z \in Zooms : \A y \in Zooms : z >= y

\* The pixels of a chunk that are pixels of the image; the decoder packs its rows.
DataWidth(image, column) ==
  LET left == image.size - column * image.tile IN IF left < image.tile THEN left ELSE image.tile

Data(image, column, row) ==
  LET width == DataWidth(image, column)
  IN [k \in 0..(width * DataWidth(image, row) - 1) |->
        <<column * image.tile + (k % width), row * image.tile + (k \div width)>>]

\* A whole tile: the data at its own width, blank to the right of it and below.
Padded(image, column, row) ==
  LET data == Data(image, column, row)
      width == DataWidth(image, column)
  IN [p \in (0..(image.tile - 1)) \X (0..(image.tile - 1)) |->
        IF p[1] < width /\ p[2] < DataWidth(image, row) THEN data[p[2] * width + p[1]] ELSE <<>>]

\* read_raw_tile_bytes and merge_jpeg_tables_with_tile: a JPEG is sent as it is
\* stored, with the tables of its image in front of its frame.
Raw(compression) ==
  IF compression = "jpeg" THEN <<"SOI", "tables", "frame", "EOI">> ELSE <<"webp">>

\* get_chunk_index
Chunk(m, x, y) == <<x - m.origin, y - m.origin>>
Covered(m, x, y) ==
  /\ x - m.origin \in 0..(m.across - 1)
  /\ y - m.origin \in 0..(m.across - 1)

\* get_tile.  YCbCr is refused when it would have to be encoded again.
GetTile(zoom, x, y) ==
  /\ Opened
  /\ answer' =
       IF zoom \notin Lowest..Highest THEN Nothing
       ELSE IF zoom \notin Zooms THEN Error
       ELSE LET m == source.images[zoom]
                c == Chunk(m, x, y)
                image == file.images[m.ifd]
            IN IF ~Covered(m, x, y) \/ c \in image.sparse THEN Nothing
               ELSE IF m.compression \in {"jpeg", "webp"}
               THEN [is |-> "tile", at |-> <<zoom, x, y>>, from |-> <<m.ifd, c>>, label |-> source.format,
                     format |-> m.compression, pixels |-> Raw(m.compression)]
               ELSE IF file.ycbcr THEN Error
               ELSE [is |-> "tile", at |-> <<zoom, x, y>>, from |-> <<m.ifd, c>>, label |-> source.format,
                     format |-> "png", pixels |-> Padded(image, c[1], c[2])]
  /\ UNCHANGED <<file, source>>

Next == Open \/ \E zoom \in 0..MaxZoom : \E x, y \in 0..(2 ^ zoom - 1) : GetTile(zoom, x, y)

Spec == Init /\ [][Next]_vars

-----------------------------------------------------------------------------
\* Properties

Sent == answer.is = "tile"
Size(a) == IF a < 0 THEN -a ELSE a

\* The chunk that is sent lies where the tile does, but for what the origin of the
\* file is off the grid of that zoom (nothing tests that) and the error allowed to
\* its resolution; and every chunk of an image that is used is some tile.
TilesInPlace ==
  Opened =>
    /\ Sent => LET zoom == answer.at[1]
                   image == file.images[answer.from[1]]
                   width == image.tile * Resolution(zoom, image.tile)
                   metres == Head(file.images).size * file.scale   \* of all of the image
                   off == file.origin % width
                   misaligned == IF 2 * off < width THEN off ELSE width - off
               IN \A axis \in {1, 2} :
                    LET west == file.origin + (answer.from[2][axis] * image.tile * metres) \div image.size
                    IN Size(west - answer.at[axis + 1] * width)
                         <= misaligned + answer.from[2][axis] * image.tile * AbsoluteError
    /\ \A zoom \in Zooms :
         LET m == source.images[zoom]
         IN Cardinality({c \in (0..2 ^ zoom) \X (0..2 ^ zoom) : Covered(m, c[1], c[2])})
              = m.across * m.across

\* The pixels of a tile that is encoded are those of its chunk, each in its place,
\* and the rest of it is blank.
PixelsInPlace ==
  Opened /\ Sent /\ answer.format = "png" =>
    LET image == file.images[answer.from[1]]
    IN \A p \in DOMAIN answer.pixels :
         LET at == <<answer.from[2][1] * image.tile + p[1], answer.from[2][2] * image.tile + p[2]>>
         IN answer.pixels[p] = IF at[1] < image.size /\ at[2] < image.size THEN at ELSE <<>>

\* A tile is labelled as what it is, if the images that are used are compressed alike.
LabelledAlike ==
  Opened /\ Sent =>
    answer.label = answer.format \/ \E z, y \in Zooms : source.images[z].compression # source.images[y].compression
=============================================================================
