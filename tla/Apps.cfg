\* The applications stop when nobody asks them for anything.
CHECK_DEADLOCK FALSE
CONSTANTS
  Scenes = {"studio", "tool", "registry", "embed", "service", "maps"}
  Uploads = {"u", "v"}
  Sanitized <- MCSanitized
  Refused = Refused
  MaxLog = 2
  MaxJobs = 1
  MaxLines = 4
  Scripts <- MCScripts
  PipeSize = 1
  TailSize = 2
  ConnectionIds = {"bundled", "x", "y"}
  Passwords = {"p", "new", ""}
  Commands = {"c", "d"}
  Asking <- MCAsking
  Databases <- MCDatabases
  Own = "bundled"
  InitialConfig <- MCInitialConfig
  Default <- MCDefault
  Slug <- MCSlug
  MapSlugs = {1}
  MaxFaults = 0
  Callers = {"gui", "service"}
  MaxKills = 1
  MaxStops = 2
  Ports = {1, 2}
  MaxEvents = 4
  Stems <- MCStems
  Extensions = {"mbtiles", "tif", "TIF"}
  Tables <- MCStems
  Workers = {"v", "w"}
  Imports = {"i", "j"}
  Picked <- MCPicked
  MaxVersion = 2
SPECIFICATION AllSpec
INVARIANTS JobsRight RegistryRight ServicesRight 
PROPERTIES MapsStayTheirOwn AppsSettle
