---------------------------- MODULE TileResponse ----------------------------
(***************************************************************************)
(* From the sources of a tile request to its HTTP response: format         *)
(* negotiation, concurrent fetches through the tile cache with the         *)
(* MVT/MLT conversion in the cache-miss path, the merge of composite       *)
(* tiles, and the content encoding (srv/tiles/content.rs).                 *)
(*                                                                         *)
(* One client sends requests one after the other and revalidates with the  *)
(* ETag it got last.  The catalog is fixed: TileServing replaces sources.  *)
(*                                                                         *)
(* Bytes are abstracted to the layers in them and the codec they are       *)
(* really wrapped in, beside the encoding the tile claims to have.         *)
(***************************************************************************)
EXTENDS Integers, Sequences, SequencesExt, FiniteSetsExt

CONSTANTS
  Sources,
  Catalogs,         \* set of [Sources -> Source]
  Paths,            \* source lists that may be asked for
  Accepts,          \* Accept headers: sequences of [item, q]
  AcceptEncodings,  \* Accept-Encoding headers, likewise; <<>>: none was sent
  Preferred,        \* preferred_encoding: "gzip" or "br"
  MaxRequests,      \* bound: requests the client sends
  Pending           \* no tile

VARIABLES
  catalog,   \* one of Catalogs
  cache,     \* [a set of cache keys -> Tile]
  pc,        \* "idle", "fetch", "merge", "encode", "respond"
  request,   \* the request served
  tiles,     \* one per source of the request: a Tile, or Pending
  tile,      \* the merged tile
  response,  \* the last response: its status, and the tile for 200
  held,      \* the client's copy: the tile of the last 200, or Pending
  count      \* requests sent

vars == <<catalog, cache, pc, request, tiles, tile, response, held, count>>

Formats   == {"mvt", "mlt", "png"}
Vector    == {"mvt", "mlt"}
Encodings == {"none", "internal", "gzip", "br", "deflate", "zstd"}
AnyFormat       == "any"

Init ==
  /\ catalog \in Catalogs
  /\ cache = [k \in {} |-> Pending]
  /\ pc = "idle"
  /\ request = [path |-> <<>>, accepted |-> AnyFormat, header |-> <<>>,
                encodings |-> <<>>, match |-> <<>>]
  /\ tiles = <<>>
  /\ tile = Pending
  /\ response = [status |-> 0, tile |-> Pending]
  /\ held = Pending
  /\ count = 0

-----------------------------------------------------------------------------
(* parse_accept, get_sources and resolve_accepted_format.                  *)

Items(header) == {header[i] : i \in DOMAIN header}

AcceptsAny(header) ==
  header = <<>> \/ \E h \in Items(header) : h.item = "*/*" /\ h.q > 0

Accepted(header) ==
  UNION {IF h.item = "image/*" THEN {"png"} ELSE {h.item} \cap Formats :
           h \in {x \in Items(header) : x.q > 0}}

\* The format the sources are converted to, or AnyFormat.
Negotiated(header, format) ==
  CASE AcceptsAny(header)         -> AnyFormat
    [] format \in Accepted(header) -> format
    [] OTHER -> CHOOSE f \in Vector : f # format

Negotiable(header, format) ==
  \/ AcceptsAny(header)
  \/ format \in Accepted(header)
  \/ format \in Vector /\ Accepted(header) \cap Vector # {}

Info(s) == [format |-> catalog[s].format, encoding |-> catalog[s].encoding]

Mergeable(path) == \A i \in DOMAIN path : Info(path[i]) = Info(path[1])

InZoom(path) ==
  FlattenSeq([i \in DOMAIN path |-> IF catalog[path[i]].inZoom THEN <<path[i]>> ELSE <<>>])

\* The status DynTileSource::new refuses a request with, or 0.
Refusal(path, header) ==
  CASE ~AcceptsAny(header) /\ Accepted(header) = {}          -> 406
    [] ~Mergeable(path) \/ InZoom(path) = <<>>                -> 404
    [] ~Negotiable(header, catalog[path[1]].format)           -> 406
    [] OTHER                                                  -> 0

\* The client may revalidate with the ETag of the copy it holds.
Receive(path, header, encodings) ==
  /\ pc = "idle"
  /\ count < MaxRequests
  /\ count' = count + 1
  /\ IF Refusal(path, header) # 0
     THEN /\ response' = [status |-> Refusal(path, header), tile |-> Pending]
          /\ UNCHANGED <<pc, request, tiles>>
     ELSE /\ \E match \in {<<>>, IF held = Pending THEN <<>> ELSE held.etag} :
               request' = [path |-> InZoom(path),
                           accepted |-> Negotiated(header, catalog[path[1]].format),
                           header |-> header, encodings |-> encodings,
                           match |-> match]
          /\ tiles' = [i \in DOMAIN InZoom(path) |-> Pending]
          /\ pc' = "fetch"
          /\ UNCHANGED response
  /\ UNCHANGED <<catalog, cache, tile, held>>

-----------------------------------------------------------------------------
(* get_tile_content: the fetches run concurrently, and all must succeed.   *)

IsEmpty(t) == t.data.layers = <<>>

Tile(layers, codec, format, encoding, etag) ==
  [data |-> [layers |-> layers, codec |-> codec],
   format |-> format, encoding |-> encoding, etag |-> etag]

Codec(encoding) == IF encoding = "internal" THEN "none" ELSE encoding

\* Bytes of the same source and format have the same hash.
Hash(s, format) == <<<<s, format>>>>

\* Source::get_tile_with_etag.
Stored(s) ==
  IF catalog[s].empty
  THEN Tile(<<>>, "none", catalog[s].format, catalog[s].encoding, Hash(Pending, AnyFormat))
  ELSE Tile(<<[source |-> s, format |-> catalog[s].format]>>,
            Codec(catalog[s].encoding), catalog[s].format, catalog[s].encoding,
            Hash(s, catalog[s].format))

Decoded(t) ==
  IF t.encoding \in {"none", "internal"} THEN t
  ELSE [t EXCEPT !.encoding = "none",
                 !.data.codec = IF @ = t.encoding THEN "none" ELSE "broken"]

\* A mutant: the conversion keeps the ETag of the source.
ConvertedKeepingEtag(s, format) ==
  Tile(<<[source |-> s, format |-> format]>>, Decoded(Stored(s)).data.codec, format,
       IF format = "mlt" THEN "internal" ELSE "none", Stored(s).etag)

\* convert_mvt_to_mlt, convert_mlt_to_mvt.
Converted(s, format) ==
  Tile(<<[source |-> s, format |-> format]>>, Decoded(Stored(s)).data.codec, format,
       IF format = "mlt" THEN "internal" ELSE "none", Hash(s, format))

\* apply_pre_cache_processors.
Processed(s, accepted) ==
  IF /\ ~catalog[s].empty /\ catalog[s].converts
     /\ {accepted, catalog[s].format} = Vector
  THEN Converted(s, accepted) ELSE Stored(s)

Key(s, accepted) == <<s, accepted>>

Fetch(i) ==
  /\ pc = "fetch"
  /\ tiles[i] = Pending
  /\ LET s == request.path[i]
         k == Key(s, request.accepted)
         t == IF k \in DOMAIN cache THEN cache[k] ELSE Processed(s, request.accepted)
     IN  /\ tiles' = [tiles EXCEPT ![i] = t]
         /\ cache' = [x \in DOMAIN cache \cup {k} |-> IF x = k THEN t ELSE cache[x]]
  /\ pc' = IF \A j \in DOMAIN tiles : tiles'[j] # Pending THEN "merge" ELSE pc
  /\ UNCHANGED <<catalog, request, tile, response, held, count>>

Reply(status) ==
  /\ pc' = "idle"
  /\ tiles' = <<>>
  /\ tile' = Pending
  /\ response' = [status |-> status, tile |-> IF status \in {200, 304} THEN tile ELSE Pending]

\* The source fails, and the request with it.
FetchFails(i) ==
  /\ pc = "fetch"
  /\ tiles[i] = Pending
  /\ Key(request.path[i], request.accepted) \notin DOMAIN cache
  /\ Reply(500)
  /\ UNCHANGED <<catalog, cache, request, held, count>>

-----------------------------------------------------------------------------
(* merge_tiles.                                                            *)

NonEmpty == {i \in DOMAIN tiles : ~IsEmpty(tiles[i])}

Layers(ts) == FlattenSeq([i \in DOMAIN ts |-> ts[i].data.layers])
Etags(ts)  == FlattenSeq([i \in DOMAIN ts |-> ts[i].etag])

\* Streams of one codec, if it allows for that; anything else is unreadable.
Concatenated(ts) ==
  LET codecs == {ts[i].data.codec : i \in NonEmpty} IN
    IF Cardinality(codecs) = 1 /\ codecs \subseteq {"none", "gzip", "zstd"}
    THEN CHOOSE c \in codecs : TRUE ELSE "broken"

LastInfo == LET t == tiles[Max(NonEmpty)] IN <<t.format, t.encoding>>

CanJoin ==
  /\ LastInfo[1] \in Vector
  /\ \A i \in DOMAIN tiles : <<tiles[i].format, tiles[i].encoding>> = LastInfo

\* A mutant: any streams are concatenated.
JoinedAlways ==
  Tile(Layers(tiles), Concatenated(tiles), LastInfo[1], LastInfo[2], Etags(tiles))

Joined ==
  IF LastInfo[2] \in {"none", "gzip", "zstd"}
  THEN Tile(Layers(tiles), Concatenated(tiles), LastInfo[1], LastInfo[2], Etags(tiles))
  ELSE Tile(Layers(tiles), Concatenated([i \in DOMAIN tiles |-> Decoded(tiles[i])]),
            LastInfo[1], "none", Etags(tiles))

Merge ==
  /\ pc = "merge"
  /\ CASE NonEmpty = {} -> Reply(204)
       [] Cardinality(NonEmpty) = 1 ->
            /\ tile' = tiles[Max(NonEmpty)]
            /\ pc' = "encode"
            /\ UNCHANGED <<tiles, response>>
       [] Cardinality(NonEmpty) > 1 /\ CanJoin ->
            /\ tile' = Joined
            /\ pc' = "encode"
            /\ UNCHANGED <<tiles, response>>
       [] OTHER -> Reply(400)
  /\ UNCHANGED <<catalog, cache, request, held, count>>

-----------------------------------------------------------------------------
(* recompress.                                                             *)

\* The quality of an encoding: a specific item counts before "*", the last
\* one before others; -1 without any.
QualityOf(encoding, header) ==
  LET specific == {i \in DOMAIN header : header[i].item = encoding}
      any      == {i \in DOMAIN header : header[i].item = "*"}
  IN  CASE specific # {} -> header[Max(specific)].q
        [] specific = {} /\ any # {} -> header[Min(any)].q
        [] OTHER -> -1

Compressors == {"gzip", "br", "zstd"}

\* AcceptEncoding::negotiate of actix-web: of the supported codings the
\* first of the highest quality; else the identity, if it is not refused.
Negotiate(header) ==
  LET usable == {i \in DOMAIN header :
                   header[i].item \in Compressors \cup {"identity"} /\ header[i].q > 0}
      best   == {i \in usable : \A j \in usable : header[i].q >= header[j].q}
      ident  == {header[i].q : i \in {j \in DOMAIN header : header[j].item \in {"identity", "*"}}}
  IN  CASE usable # {} -> header[Min(best)].item
        [] usable = {} /\ (ident = {} \/ Max(ident) > 0) -> "identity"
        [] OTHER -> "refused"

\* decide_encoding.
Decided(header) ==
  LET q == [e \in Compressors |-> Max({QualityOf(e, header), 0})]
      best == {e \in Compressors : \A f \in Compressors : q[e] >= q[f]}
  IN  IF QualityOf("gzip", header) < 0 \/ QualityOf("br", header) < 0
      THEN Negotiate(header)
      ELSE CASE \A e \in best : q[e] = 0 -> "identity"
             [] Cardinality(best) > 1 /\ \E e \in best : q[e] # 0 -> Preferred
             [] OTHER -> CHOOSE e \in best : TRUE

Encoded(t, coding) ==
  IF coding = "identity" THEN t
  ELSE [t EXCEPT !.encoding = coding, !.data.codec = coding]

\* A compressed tile is sent as it is if the header names its encoding.
AsSent(header) ==
  IF header = <<>> \/ \A h \in Items(header) : h.item # tile.encoding
  THEN Decoded(tile) ELSE tile

Recompress ==
  /\ pc = "encode"
  /\ LET header == request.encodings
         t == AsSent(header)
     IN  IF header # <<>> /\ t.encoding = "none"
         THEN IF Decided(header) = "refused"
              THEN Reply(406)
              ELSE /\ tile' = Encoded(t, Decided(header))
                   /\ pc' = "respond"
                   /\ UNCHANGED <<tiles, response>>
         ELSE /\ tile' = t
              /\ pc' = "respond"
              /\ UNCHANGED <<tiles, response>>
  /\ UNCHANGED <<catalog, cache, request, held, count>>

\* get_http_response.
Respond ==
  /\ pc = "respond"
  /\ IF request.match = tile.etag
     THEN Reply(304) /\ UNCHANGED held
     ELSE Reply(200) /\ held' = tile
  /\ UNCHANGED <<catalog, cache, request, count>>

-----------------------------------------------------------------------------
Next ==
  \/ \E path \in Paths, header \in Accepts, encodings \in AcceptEncodings :
       Receive(path, header, encodings)
  \/ \E i \in DOMAIN tiles : Fetch(i) \/ FetchFails(i)
  \/ Merge \/ Recompress \/ Respond

Spec == Init /\ [][Next]_vars
-----------------------------------------------------------------------------
(* Properties.                                                             *)

TileType ==
  [data : [layers : Seq([source : Sources, format : Formats]),
           codec : Encodings \cup {"broken"}],
   format : Formats, encoding : Encodings,
   etag : Seq((Sources \cup {Pending}) \X (Formats \cup {AnyFormat}))]

TypeOK ==
  /\ pc \in {"idle", "fetch", "merge", "encode", "respond"}
  /\ tile \in TileType \cup {Pending}
  /\ \A i \in DOMAIN tiles : tiles[i] \in TileType \cup {Pending}
  /\ held \in TileType \cup {Pending}
  /\ count \in 0..MaxRequests

Answered(status) == pc = "idle" /\ response.status = status

\* What a request asks for: the layers of its non-empty sources, in order.
Wanted(format) ==
  LET LayersOf(s) == IF catalog[s].empty THEN <<>> ELSE <<[source |-> s, format |-> format]>>
  IN  FlattenSeq([i \in DOMAIN request.path |-> LayersOf(request.path[i])])

\* A tile that is sent holds every layer asked for, each in the format that
\* Content-Type names, and decodes under the Content-Encoding it is sent with:
\* through cached conversions, concatenated streams and re-compression.
SentAsLabelled ==
  Answered(200) =>
    /\ response.tile.data.layers = Wanted(response.tile.format)
    /\ response.tile.data.codec = Codec(response.tile.encoding)

\* A client that lists formats gets one of them from sources that convert,
\* also when an earlier request left the other format in the cache.
FormatIsAccepted ==
  Answered(200) /\ ~AcceptsAny(request.header)
    => \/ response.tile.format \in Accepted(request.header)
       \/ \E i \in DOMAIN request.path : ~catalog[request.path[i]].converts

\* A client is told that its copy is current only if it is what it would be
\* sent, up to the content encoding: format, sources and their order.
NotModifiedIsHeld ==
  Answered(304) => /\ held.format = response.tile.format
                   /\ held.data.layers = response.tile.data.layers

\* Vector sources that get_sources found compatible are merged, in whatever
\* format the request negotiated and whatever the cache holds of them, when
\* they all convert and none has an empty tile there (can_join compares empty
\* tiles too, which no conversion has touched).
CompatibleAreMerged ==
  Answered(400) =>
    \/ catalog[request.path[1]].format \notin Vector
    \/ \E i \in DOMAIN request.path : LET c == catalog[request.path[i]]
                                      IN  c.empty \/ ~c.converts
=============================================================================
