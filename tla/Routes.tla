------------------------------- MODULE Routes -------------------------------
(***************************************************************************)
(* Which handler a request reaches, what the handlers that only send the   *)
(* client elsewhere answer, and the URLs of tiles in TileJSON documents,   *)
(* behind a proxy that gives the server a path of its own.                 *)
(*                                                                         *)
(* A path is a sequence of segments <<name, extension>>, "" when there is  *)
(* none.  A deployment is [public, internal, route, base, header]: the     *)
(* prefix clients use and the one the proxy puts in its place; the options *)
(* route_prefix and base_path, sets of at most one prefix; and the header  *)
(* the proxy adds.  The options are those that fit the proxy.              *)
(***************************************************************************)
EXTENDS Naturals, FiniteSets, SequencesExt

CONSTANTS
  Deployments,
  Requests,   \* what clients begin with, below the public prefix: [path, query]
  Sources,    \* id -> [version, min, max, bounds, layers]; min and max of at most one zoom
  Numbers     \* the names that parse as a coordinate

VARIABLES
  deployment,
  asked,    \* what the client began with
  url,      \* what it requests now: [path, query]
  answer,   \* nothing, or what it got
  hops      \* how often it was sent elsewhere

vars == <<deployment, asked, url, answer, hops>>

None == "none"
Nothing == [is |-> "nothing"]
NotFound == [is |-> "404"]

Start(request) == [path |-> deployment.public \o request.path, query |-> request.query]

Init ==
  /\ deployment \in Deployments
  /\ asked \in Requests /\ url = Start(asked)
  /\ answer = Nothing /\ hops = 0

Literal(name) == <<"literal", name>>
Param == <<"param", "">>
WithExt == <<"param", "any">>
Ending(ext) == <<"param", ext>>

Fits(segment, matcher) ==
  \/ matcher[1] = "literal" /\ segment = <<matcher[2], "">>
  \/ matcher = Param
  \/ matcher = WithExt /\ segment[2] # ""
  \/ matcher[1] = "param" /\ matcher[2] # "" /\ segment[2] = matcher[2]

Route(handler, pattern) == [handler |-> handler, pattern |-> pattern]

\* The plain form of a resource and the one that redirects to it.
Pair(handler, plain, plural, rest) ==
  << Route(handler, <<Literal(plain)>> \o rest), Route("to " \o handler, <<Literal(plural)>> \o rest) >>

\* Mutant: tiles before their form with an extension.
PlainFirst ==
  << Route("tilejson", <<Param>>), Route("tile", <<Param, Param, Param, Param>>),
     Route("to tile", <<Param, Param, Param, WithExt>>),
     Route("to tile", <<Literal("tiles"), Param, Param, Param, Param>>) >>

TileRoutes ==
  << Route("to tile", <<Param, Param, Param, WithExt>>), Route("tilejson", <<Param>>),
     Route("tile", <<Param, Param, Param, Param>>),
     Route("to tile", <<Literal("tiles"), Param, Param, Param, Param>>) >>

\* register_services, in its order.
Routes ==
  << Route("health", <<Literal("health")>>), Route("catalog", <<Literal("catalog")>>) >>
  \o TileRoutes
  \o Pair("sdf index", "sdf_sprite", "sdf_sprites", <<Ending("json")>>)
  \o Pair("index", "sprite", "sprites", <<Ending("json")>>)
  \o Pair("sdf sheet", "sdf_sprite", "sdf_sprites", <<Ending("png")>>)
  \o Pair("sheet", "sprite", "sprites", <<Ending("png")>>)
  \o Pair("font", "font", "fonts", <<Param, Param>>)
  \o Pair("style", "style", "styles", <<Param>>)
  \o << Route("to image", <<Literal("style"), Param, Literal("static"), Param, Ending("jpeg")>>),
        Route("image", <<Literal("style"), Param, Literal("static"), Param, WithExt>>),
        Route("to style tile", <<Literal("style"), Param, Param, Param, Ending("jpeg")>>),
        Route("style tile", <<Literal("style"), Param, Param, Param, WithExt>>) >>

Below(prefix, path) == IsPrefix(prefix, path)
Rest(prefix, path) == SubSeq(path, Len(prefix) + 1, Len(path))

Prefix(d) == IF d.route = {} THEN <<>> ELSE CHOOSE p \in d.route : TRUE

\* The first that fits: actix takes them in the order of registration.
Matching(path) ==
  {i \in DOMAIN Routes : /\ Len(Routes[i].pattern) = Len(path)
                         /\ \A k \in DOMAIN path : Fits(path[k], Routes[i].pattern[k])}

HandlerOf(path) ==
  IF Matching(path) = {} THEN None
  ELSE Routes[CHOOSE i \in Matching(path) : \A j \in Matching(path) : i <= j].handler

Last3(path) == SubSeq(path, Len(path) - 2, Len(path))
Coordinates(path) == \A k \in 1..3 : Last3(path)[k][1] \in Numbers
Plain(segment) == <<segment[1], "">>
Sent(to) == [is |-> "redirect", to |-> to]

\* redirect_tile_with_query: below route_prefix, with the query.
ToTile(path, query) ==
  LET from == IF Len(path) = 5 THEN Tail(path) ELSE path
      tile == <<from[1], from[2], from[3], Plain(from[4])>>
  IN IF ~Coordinates(path) \/ (Len(path) = 5 /\ path[5][2] # "") THEN NotFound
     ELSE Sent([path |-> Prefix(deployment) \o tile, query |-> query])

\* The others name the path of the plain form, and drop the query.
Singular(name, path) == Sent([path |-> <<<<name, "">>>> \o Tail(path), query |-> {}])

ToSheet(path) == Singular("sprite", path)
ToSdfSheet(path) == Singular("sdf_sprite", path)
ToIndex(path) == Singular("sprite", path)
ToSdfIndex(path) == Singular("sdf_sprite", path)
ToFont(path) == Singular("font", path)
ToStyle(path) == Singular("style", path)

\* Images of a style end in .jpg.
Jpg(path) == Sent([path |-> [path EXCEPT ![Len(path)] = <<@[1], "jpg">>], query |-> {}])

ToImage(path) == Jpg(path)
ToStyleTile(path) == IF Coordinates(path) THEN Jpg(path) ELSE NotFound

\* public_path_prefix.
PublicPrefix(d) == IF d.base # {} THEN d.base ELSE d.route

(***************************************************************************)
(* TileJSON                                                                *)
(***************************************************************************)

\* Where the tiles of the source are said to be: below the configured prefix,
\* or else at the path of the header, or else of the request.
TilesPath(path, served) ==
  IF PublicPrefix(deployment) # {} THEN (CHOOSE p \in PublicPrefix(deployment) : TRUE) \o <<path[1]>>
  ELSE CASE deployment.header = "rewrite" -> url.path
         [] deployment.header = "forwarded" -> deployment.public
         [] deployment.header = None -> served

IdsOf(segment) == IF segment = <<"both", "">> THEN <<"a", "b">> ELSE <<segment[1]>>

Known(segment) == segment[2] = "" /\ \A id \in Range(IdsOf(segment)) : id \in DOMAIN Sources

\* merge_tilejson: the widest zooms and bounds any source states.
Merged(ids) ==
  LET stated(field) == UNION {Sources[id][field] : id \in Range(ids)}
  IN [min |-> {v \in stated("min") : \A w \in stated("min") : v <= w},
      max |-> {v \in stated("max") : \A w \in stated("max") : v >= w},
      bounds |-> stated("bounds"),
      layers |-> FlattenSeq([i \in DOMAIN ids |-> Sources[ids[i]].layers])]

\* get_source_info: the versions of the sources are added to the query.
Document(path, query, served) ==
  [is |-> "tilejson", ids |-> path[1], about |-> Merged(IdsOf(path[1])),
   tiles |-> [path |-> TilesPath(path, served),
              query |-> query \cup {Sources[id].version : id \in Range(IdsOf(path[1]))}]]

Found(handler, path, query) == [is |-> handler, path |-> path, query |-> query]

\* What the server answers for the path the proxy gives it.
Answered(served, query) ==
  LET path == Rest(Prefix(deployment), served)
      handler == HandlerOf(path)
  IN CASE served = <<<<"health", "">>>> -> Found("health", served, query)
       [] served # <<<<"health", "">>>> /\ (~Below(Prefix(deployment), served) \/ handler = None) -> NotFound
       [] served # <<<<"health", "">>>> /\ Below(Prefix(deployment), served) /\ handler # None ->
            CASE handler = "to tile" -> ToTile(path, query)
              [] handler = "to sheet" -> ToSheet(path)
              [] handler = "to sdf sheet" -> ToSdfSheet(path)
              [] handler = "to index" -> ToIndex(path)
              [] handler = "to sdf index" -> ToSdfIndex(path)
              [] handler = "to font" -> ToFont(path)
              [] handler = "to style" -> ToStyle(path)
              [] handler = "to image" -> ToImage(path)
              [] handler = "to style tile" -> ToStyleTile(path)
              [] handler = "tilejson" ->
                   IF Known(path[1]) THEN Document(path, query, served) ELSE NotFound
              [] handler = "tile" ->
                   IF Known(path[1]) /\ Coordinates(path) /\ path[4][2] = ""
                   THEN Found("tile", path, query) ELSE NotFound
              [] handler = "style tile" ->
                   IF Coordinates(path) /\ path[5][2] \in {"png", "jpg", "webp"}
                   THEN Found(handler, path, query) ELSE NotFound
              [] OTHER -> Found(handler, path, query)

\* The proxy passes on what is below the public prefix.
Serve ==
  /\ answer = Nothing
  /\ answer' = IF ~Below(deployment.public, url.path) THEN NotFound
               ELSE Answered(deployment.internal \o Rest(deployment.public, url.path), url.query)
  /\ UNCHANGED <<deployment, asked, url, hops>>

Follow ==
  /\ answer.is = "redirect"
  /\ url' = answer.to /\ answer' = Nothing /\ hops' = hops + 1
  /\ UNCHANGED <<deployment, asked>>

\* A map client fills in the URL of the document it got.
FetchTile ==
  /\ answer.is = "tilejson"
  /\ \E z, x, y \in Numbers :
       /\ asked' = [path |-> <<answer.ids, <<z, "">>, <<x, "">>, <<y, "">>>>, query |-> answer.tiles.query]
       /\ url' = [path |-> answer.tiles.path \o Tail(asked'.path), query |-> answer.tiles.query]
  /\ answer' = Nothing /\ hops' = 0
  /\ UNCHANGED deployment

Next == Serve \/ Follow \/ FetchTile

Spec == Init /\ [][Next]_vars

(***************************************************************************)
(* Properties                                                              *)
(***************************************************************************)

TilePath(path) ==
  LET from == IF Len(path) = 5 /\ path[1] = <<"tiles", "">> THEN Tail(path) ELSE path
  IN IF Len(from) = 4 /\ Known(from[1]) /\ Coordinates(from) /\ (from = path \/ from[4][2] = "")
     THEN <<from[1], from[2], from[3], Plain(from[4])>> ELSE <<>>

\* A request for a tile of a known source ends with that tile and its query,
\* whether it was written plainly, with an extension or below /tiles, or comes of
\* a TileJSON document, and after one redirect at most: behind every proxy, but
\* for redirects below a prefix that the proxy removes, and documents below one
\* told by X-Forwarded-Prefix.
TilesReached ==
  LET removed == deployment.public # deployment.internal
  IN /\ TilePath(asked.path) # <<>> /\ answer # Nothing =>
          \/ answer.is = "redirect" /\ hops = 0
          \/ answer = Found("tile", TilePath(asked.path), asked.query)
          \/ removed /\ hops > 0
          \/ removed /\ deployment.header = "forwarded" /\ url.path # deployment.public \o asked.path
     /\ hops <= 1

\* The document of several sources covers each: zooms, bounds and layers.
DocumentCovers ==
  answer.is = "tilejson" =>
    \A id \in Range(IdsOf(answer.ids)) :
      LET s == Sources[id]
          about == answer.about
      IN /\ \A zoom \in s.min : \E least \in about.min : least <= zoom
         /\ \A zoom \in s.max : \E most \in about.max : zoom <= most
         /\ s.bounds \subseteq about.bounds
         /\ \A l \in Range(s.layers) : l \in Range(about.layers)
=============================================================================
