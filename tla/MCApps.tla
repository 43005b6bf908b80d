------------------------------- MODULE MCApps -------------------------------
(* The applications around the server, each a scene of its own: the studio's  *)
(* jobs (StudioJobs) and the tools they run (ToolRun); and of the desktop     *)
(* application its PostGIS registry (PgRegistry), its bundled cluster         *)
(* (PgEmbed), its background service (TileService) and its maps (DesktopMaps).*)
EXTENDS StudioJobs, TLC

CONSTANTS
  Scenes,   \* which of them are run
  Scripts, PipeSize, TailSize,                                   \* of ToolRun
  ConnectionIds, Passwords, Commands, Asking, Databases, Own,    \* of PgRegistry
  InitialConfig, Default, Slug, MapSlugs, MaxFaults,
  Callers, MaxKills, MaxStops,                                   \* of PgEmbed
  Ports, MaxEvents,                                              \* of TileService
  Stems, Extensions, Tables, Workers, Imports, Picked, MaxVersion  \* of DesktopMaps

VARIABLES
  scene,
  tool, pipe, reader, lines, reported, tail, result,
  config, db, pools, sources, states, refresh, command, current, faults,
  data, port, database, caller, changed, taken, raced, kills, stops,
  platform, portFile, unit, enabled, process, preview, others, asking, stale, events,
  maps, cogs, answer, import, deleting, made

toolVars == <<tool, pipe, reader, lines, reported, tail, result>>
registryVars == <<config, db, pools, sources, states, refresh, command, current, faults>>
embedVars == <<data, port, database, caller, changed, taken, raced, kills, stops>>
serviceVars ==
  <<platform, portFile, unit, enabled, process, preview, others, asking, stale, events>>
mapsVars == <<maps, cogs, answer, import, deleting, made>>

\* Two names that become one, and one that is refused.
MCSanitized == "a.tif" :> "a" @@ "x/a.tif" :> "a" @@ "a.png" :> Refused

\* More on standard error than a pipe holds; and a line that is no text.
MCScripts ==
  LET L(p, good) == [pipe |-> p, good |-> good]
  IN {<<L("stdout", TRUE), L("stderr", TRUE), L("stdout", TRUE), L("stderr", TRUE), L("stderr", TRUE)>>,
      <<L("stdout", TRUE), L("stderr", FALSE), L("stderr", TRUE), L("stdout", TRUE)>>}

T == INSTANCE ToolRun

\* A changed password; a table dropped while one is imported; a connection
\* deleted; one moved to another database.
Connection(id, name, pw) == [id |-> id, db |-> name, pw |-> pw, enabled |-> TRUE]
MCDefault == Connection("bundled", "bundled", "p")

MCAsking ==
  LET Both(q, r) == "c" :> q @@ "d" :> r
      Put(id, name, pw) == [do |-> "save", conn |-> Connection(id, name, pw)]
      Delete(id) == [do |-> "delete", id |-> id]
      import1 == [do |-> "import", id |-> "x", table |-> "roads"]
      drop == [do |-> "drop", source |-> <<1, 3>>]
      none == [do |-> "none"]
  IN {Both(Put("bundled", "far", "new"), none), Both(drop, import1),
      Both(Delete("x"), none), Both(Put("x", "far", ""), none)}

MCDatabases ==
  "bundled" :> [tables |-> {"roads"}, pw |-> "p", up |-> FALSE]
    @@ "near" :> [tables |-> {"roads"}, pw |-> "p", up |-> TRUE]
    @@ "far" :> [tables |-> {}, pw |-> "p", up |-> TRUE]

MCSlug == "roads" :> 1

\* One of the connections is not enabled.
MCInitialConfig ==
  <<MCDefault, [Connection("y", "far", "p") EXCEPT !.enabled = FALSE], Connection("x", "near", "p")>>

R == INSTANCE PgRegistry WITH Stems <- MapSlugs

Connections ==
  [id : ConnectionIds, db : DOMAIN Databases, pw : Passwords, enabled : BOOLEAN]

\* What a command may be asked.
Requests ==
  [do : {"save"}, conn : Connections] \cup [do : {"delete"}, id : ConnectionIds]
    \cup [do : {"import"}, id : ConnectionIds, table : DOMAIN Slug]
    \cup [do : {"drop"}, source : {Slug[t] : t \in DOMAIN Slug} \X Nat] \cup [do : {"none"}]

E == INSTANCE PgEmbed

S == INSTANCE TileService

MCMap == <<"a", 0>>
MCStems == {MCMap}
MCPicked == [i \in Imports |-> <<MCMap, "tif">>]

M == INSTANCE DesktopMaps WITH dir <- maps

ASSUME ToolAssumption ==
  Scripts \subseteq Seq([pipe : T!Pipes, good : BOOLEAN]) /\ TailSize \in Nat \ {0}

\* The bundled connection is of the bundled cluster, with its password; an id is that
\* of one connection.
ASSUME RegistryAssumption ==
  /\ "thread" \notin Commands /\ IsFiniteSet(DOMAIN Slug) /\ IsFiniteSet(MapSlugs)
  /\ Own \in DOMAIN Databases
  /\ Databases \in
       [DOMAIN Databases -> [tables : SUBSET DOMAIN Slug, pw : Passwords, up : BOOLEAN]]
  /\ Default \in Connections /\ Default.id = Own /\ Default.db = Own
  /\ InitialConfig \in Seq(Connections)
  /\ \A i, j \in DOMAIN InitialConfig : InitialConfig[i].id = InitialConfig[j].id => i = j
  /\ R!Find(InitialConfig, Own) # {}
  /\ \A i \in R!Find(InitialConfig, Own) :
       InitialConfig[i].db = Own /\ InitialConfig[i].pw = Databases[Own].pw
  /\ Asking \subseteq [Commands -> Requests]
ASSUME EmbedAssumption == IsFiniteSet(Callers)
ASSUME ServiceAssumption == Ports \subseteq Nat \ {0}

-----------------------------------------------------------------------------

Nothing == [x \in {} |-> x]

StudioIdle == dir = Nothing /\ upload = Nothing /\ job = <<>>

ToolIdle ==
  tool = Nothing /\ pipe = Nothing /\ reader = Nothing
    /\ lines = <<>> /\ reported = <<>> /\ tail = <<>> /\ result = "idle"

RegistryIdle ==
  /\ config = <<>> /\ db = Databases /\ pools = Nothing /\ sources = Nothing /\ states = Nothing
  /\ refresh = Nothing /\ command = Nothing /\ current = FALSE /\ faults = 0

EmbedIdle ==
  /\ data = {} /\ port = "none" /\ database = {} /\ caller = Nothing
  /\ changed = {} /\ taken = FALSE /\ raced = FALSE /\ kills = 0 /\ stops = 0

ServiceIdle ==
  /\ platform = "none" /\ portFile = 0 /\ unit = 0 /\ enabled = FALSE /\ process = S!NoProcess
  /\ preview = 0 /\ others = {} /\ asking = Nothing /\ stale = FALSE /\ events = 0

MapsIdle ==
  maps = Nothing /\ cogs = Nothing /\ answer = Nothing /\ import = Nothing
    /\ deleting = <<>> /\ made = 0

AllInit ==
  /\ scene \in Scenes
  /\ IF scene = "studio" THEN Init ELSE StudioIdle
  /\ IF scene = "tool" THEN T!Init ELSE ToolIdle
  /\ IF scene = "registry" THEN R!Init ELSE RegistryIdle
  /\ IF scene = "embed" THEN E!Init ELSE EmbedIdle
  /\ IF scene = "service" THEN S!Init ELSE ServiceIdle
  /\ IF scene = "maps" THEN M!Init ELSE MapsIdle

AllNext ==
  /\ UNCHANGED scene
  /\ \/ /\ scene = "studio" /\ Next
        /\ UNCHANGED <<toolVars, registryVars, embedVars, serviceVars, mapsVars>>
     \/ /\ scene = "tool" /\ T!Next
        /\ UNCHANGED <<vars, registryVars, embedVars, serviceVars, mapsVars>>
     \/ /\ scene = "registry" /\ R!Next
        /\ UNCHANGED <<vars, toolVars, embedVars, serviceVars, mapsVars>>
     \/ /\ scene = "embed" /\ E!Next
        /\ UNCHANGED <<vars, toolVars, registryVars, serviceVars, mapsVars>>
     \/ /\ scene = "service" /\ S!Next
        /\ UNCHANGED <<vars, toolVars, registryVars, embedVars, mapsVars>>
     \/ /\ scene = "maps" /\ M!Next
        /\ UNCHANGED <<vars, toolVars, registryVars, embedVars, serviceVars>>

allVars == <<scene, vars, toolVars, registryVars, embedVars, serviceVars, mapsVars>>

\* The fairness of each of the specifications.
AllSpec ==
  /\ AllInit /\ [][AllNext]_allVars
  /\ WF_toolVars(scene = "tool" /\ T!Next)
  /\ \A r \in R!Refreshers : WF_registryVars(scene = "registry" /\ R!Refresh(r))
  /\ \A p \in Commands :
       WF_registryVars(scene = "registry" /\ command[p].at # "new" /\ R!Run(p))
  /\ \A c \in Callers : WF_embedVars(scene = "embed" /\ E!Step(c))
  /\ WF_serviceVars(scene = "service" /\ S!Progress)

-----------------------------------------------------------------------------

\* UploadsWhole and JobToldRight of StudioJobs, and LinesReported of ToolRun.
JobsRight ==
  /\ scene = "studio" => UploadsWhole /\ JobToldRight
  /\ scene = "tool" => T!LinesReported

\* RefreshShowsAll and EditsKept of PgRegistry.
RegistryRight == scene = "registry" => R!RefreshShowsAll /\ R!EditsKept

\* ForeignUntouched and ClusterWhole of PgEmbed, ShownPortServes of TileService.
ServicesRight ==
  /\ scene = "embed" => E!ForeignUntouched /\ E!ClusterWhole
  /\ scene = "service" => S!ShownPortServes

\* DescribedAsServed of DesktopMaps.
DescribedAsServed == scene = "maps" => M!DescribedAsServed

\* MapsStayTheirOwn of DesktopMaps.
MapsStayTheirOwn ==
  [][ scene = "maps" => M!OverwritesNothing /\ M!ServesWhatIsThere ]_allVars

\* ToolReturns, RegistryCatchesUp, ClusterComesUp and ComesToServe.
AppsSettle ==
  /\ scene = "tool" => T!ToolReturns
  /\ scene = "registry" => R!RegistryCatchesUp
  /\ scene = "embed" => E!ClusterComesUp
  /\ scene = "service" => S!ComesToServe
=============================================================================
