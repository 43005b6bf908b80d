\* Requests, runs, starts and changes are bounded in every scene.
CHECK_DEADLOCK FALSE
CONSTANTS
  Scenes = {"ids", "responses", "cog", "pmtiles", "mbtiles", "upstream", "start",
            "databases", "assets", "routes"}
  Names = {"a-b", "a-b.1", "a b", "catalog"}
  Uniques = {1, 2, 3}
  Sanitised <- MCSanitised
  Reserved <- MCReserved
  MaxIndex = 3
  Pending = Pending
  Sources = {"roads", "water", "sat"}
  Catalogs <- MCCatalogs
  Paths <- MCPaths
  Accepts <- MCAccepts
  AcceptEncodings <- MCAcceptEncodings
  Preferred = "gzip"
  MaxRequests = 2
  Cogs <- MCCogs
  Circumference = 40075008
  MaxZoom = 3
  AbsoluteError = 3
  Foreign <- MCForeign
  Asked = {"flat", "flat-with-hash", "normalized-with-view"}
  Modes = {"none", "ignore", "override", "abort"}
  Bodies <- MCBodies
  TilePlaces <- MCTilePlaces
  MetaFormats <- MCMetaFormats
  MetaPackings <- MCMetaPackings
  DeepestZoom = 2
  LastZoom = 1
  MaxRows = 1
  MaxRuns = 2
  Archives = {"a", "b"}
  Clients = {"p", "q"}
  Offsets = {1}
  MaxVersion = 2
  MaxReaders = 3
  Upstreams <- MCUpstreams
  Documents <- MCDocuments
  Places = {"p", "q"}
  HashOf <- MCHashOf
  Given <- MCGiven
  MaxAsked = 3
SPECIFICATION AllSpec
INVARIANTS TypeOK IdsRight SentRight  FilesRight RemotesRight StartsRight DatabasesRight AssetsRight RoutesRight
