------------------------------ MODULE Upstream ------------------------------
(***************************************************************************)
(* A passthrough source: tiles of another tile server.  The source is made *)
(* from URLs that are tile templates or one TileJSON document, picks one   *)
(* template for each tile, and labels what comes back from its headers,    *)
(* its bytes or its own format.  The other server changes its document and *)
(* its tiles while the source stands, and may be asked through a reload.   *)
(***************************************************************************)
EXTENDS Integers, Sequences, TileKinds

CONSTANTS
  Configs,    \* [urls, format]: sequences of URLs and {} or {format}
  Documents,  \* what the document URL may give: [ok, tiles, format]
  Places,     \* the tiles asked for
  HashOf,     \* [Places -> Nat]: xxh3 of the coordinates
  Sent,       \* [status, type, encoding, body, tag]: an upstream's answers
  MaxAsked    \* bound: tiles asked for

\* A URL is [template, ext, host]: whether it has {z}, {x} and {y}, its extension if it
\* is a format's, and the server it is of.
VARIABLES
  config,     \* what the operator wrote
  document,   \* what the document URL gives now
  source,     \* [state, urls, info]: "none", "failed" or "built"
  answers     \* <<[place, url, info, body, tag, failed, sent]>>, since the source was built

vars == <<config, document, source, answers>>

First(options) == CHOOSE o \in options : TRUE
NoSource == [state |-> "none", urls |-> <<>>, info |-> {}]
Failed == [state |-> "failed", urls |-> <<>>, info |-> {}]

\* The format of the source: the configured, the URL's or the document's.
DerivedFormat(format, url, documented) ==
  IF format # {} THEN format ELSE IF url.ext # {} THEN url.ext ELSE documented

SourceOf(urls, format) ==
  IF urls = <<>> \/ format = {} THEN Failed
  ELSE [state |-> "built", urls |-> urls, info |-> {OfFormat(f) : f \in format}]

\* A lone URL that is no template is a document; all others must be templates
\* (Upstream::from_config, TemplateSet::new, PassthroughSource::new).
Built ==
  CASE config.urls = <<>> -> Failed
    [] Len(config.urls) = 1 /\ ~config.urls[1].template ->
         IF ~document.ok \/ document.tiles = <<>> THEN Failed
         ELSE SourceOf(document.tiles,
                       DerivedFormat(config.format, document.tiles[1], document.format))
    [] OTHER ->
         IF \E i \in DOMAIN config.urls : ~config.urls[i].template THEN Failed
         ELSE SourceOf(config.urls, DerivedFormat(config.format, config.urls[1], {}))
-----------------------------------------------------------------------------
Init ==
  /\ config \in Configs /\ document \in Documents
  /\ source = NoSource /\ answers = <<>>

Build ==
  /\ source.state = "none"
  /\ source' = Built
  /\ UNCHANGED <<config, document, answers>>

\* The document is fetched anew; a source that cannot be made again is not
\* replaced (try_reload).
Reload ==
  /\ source.state = "built"
  /\ source' = IF Built = Failed THEN source ELSE Built
  /\ answers' = IF Built \in {Failed, source} THEN answers ELSE <<>>
  /\ UNCHANGED <<config, document>>

ChangeDocument(d) ==
  /\ d # document
  /\ document' = d
  /\ UNCHANGED <<config, source, answers>>

\* The template of a tile, by the hash of its coordinates (select_url).
UrlOf(place) == source.urls[(HashOf[place] % Len(source.urls)) + 1]

\* What a response is labelled: Content-Type, else the bytes, else the source.
Label(sent) ==
  LET format == IF sent.type # {} THEN First(sent.type)
                ELSE IF sent.body # {} THEN Detect(First(sent.body)).format
                ELSE First(source.info).format
  IN  Info(format, IF sent.encoding # {} THEN First(sent.encoding) ELSE "none")

Answer(place, sent) ==
  LET answer == [place |-> place, url |-> UrlOf(place), sent |-> sent, failed |-> FALSE,
                 info |-> First(source.info), body |-> {}, tag |-> {}]
  IN  CASE sent.status \in {"404", "204"} -> answer
        [] sent.status = "200" ->
             [answer EXCEPT !.info = Label(sent), !.body = sent.body,
                            !.tag = IF sent.body = {} THEN {} ELSE sent.tag]
        [] OTHER -> [answer EXCEPT !.failed = TRUE]

\* A tile is asked for: the upstream's own tag is kept for a tile that has
\* bytes, all others are hashed (fetch, get_tile_with_etag).
Fetch(place, sent) ==
  /\ source.state = "built" /\ Len(answers) < MaxAsked
  /\ answers' = Append(answers, Answer(place, sent))
  /\ UNCHANGED <<config, document, source>>

Next ==
  \/ Build
  \/ Reload
  \/ \E d \in Documents : ChangeDocument(d)
  \/ \E place \in Places, sent \in Sent : Fetch(place, sent)

Spec == Init /\ [][Next]_vars
-----------------------------------------------------------------------------
\* One tile is asked of one server as long as the source stands, whatever was
\* asked before it.
OnePlaceOneUrl ==
  \A i, j \in DOMAIN answers : answers[i].place = answers[j].place => answers[i].url = answers[j].url

\* An upstream that says how its tile is packed, and what it is or leaves that
\* to bytes the sniffers know, is passed on under the right label.
LabelledAsSent ==
  \A i \in DOMAIN answers :
    LET a == answers[i]
        honest(b) == /\ \A t \in a.sent.type : t = b.kind
                     /\ \/ a.sent.encoding = {b.packing}
                        \/ a.sent.encoding = {} /\ b.packing = "none"
                     /\ a.sent.type = {} => Recognised(b)
    IN  ~a.failed => \A b \in a.body : honest(b) => Tells(a.info, b)

\* A source that stands has templates to ask and a format to declare, so no
\* failed reload ever leaves one that cannot answer.
StandsOnItsTemplates ==
  source.state = "built" => source.urls # <<>> /\ source.info # {}

UpstreamPassedOn == OnePlaceOneUrl /\ LabelledAsSent /\ StandsOnItsTemplates
=============================================================================
