----------------------------- MODULE TileKinds -----------------------------
(***************************************************************************)
(* What a tile's bytes are taken for: martin-tile-utils.  A body is a      *)
(* record of what it holds (`kind`) and how it is packed (`packing`): the  *)
(* sniffers look at the first bytes, and inside gzip and zlib.             *)
(***************************************************************************)

Rasters == {"png", "gif", "jpeg", "webp"}

Info(format, encoding) == [format |-> format, encoding |-> encoding]

\* A format without its bytes: MVT and JSON are not packed by themselves.
OfFormat(format) == Info(format, IF format \in {"mvt", "json"} THEN "none" ELSE "internal")

\* Only gzip and zlib are unpacked, only four rasters have a signature, and
\* what nothing recognises is MVT.
Detect(body) ==
  CASE body.packing \in {"gzip", "zlib"} ->
         Info(IF body.kind \in {"mlt", "json"} THEN body.kind ELSE "mvt", body.packing)
    [] body.packing = "none" /\ body.kind \in Rasters -> Info(body.kind, "internal")
    [] body.packing = "none" /\ body.kind \in {"mlt", "json"} -> OfFormat(body.kind)
    [] OTHER -> OfFormat("mvt")

\* The bodies the sniffers tell: an AVIF picture and a brotli or zstd body
\* are none of them, and pictures are not packed again.
Recognised(body) ==
  \/ body.kind \in Rasters /\ body.packing = "none"
  \/ body.kind \in {"mvt", "mlt", "json"} /\ body.packing \in {"none", "gzip", "zlib"}

Packed(encoding) == encoding \notin {"none", "internal"}

\* A label is right for a body: its format, and the packing to undo.
Tells(info, body) ==
  /\ info.format = body.kind
  /\ IF Packed(info.encoding) THEN info.encoding = body.packing ELSE body.packing = "none"
=============================================================================
