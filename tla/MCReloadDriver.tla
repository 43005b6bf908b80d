--------------------------- MODULE MCReloadDriver ---------------------------
(* The kinds of driver the code has, over two sources in two locations;    *)
(* the .cfg files choose among them and set the bounds.                    *)
EXTENDS ReloadDriver

MCLocOf == [id \in Ids |-> IF id = 1 THEN "left" ELSE "right"]

\* config/file/tiles/reload: local directories, bucket prefixes, PostgreSQL.
MCKinds(start, source, skips, reads) ==
  [onInvalid : {"Abort", "Warn"}, baseline : {start}, trigger : {source},
   skipFailed : {skips}, readEvents : reads]

MCPrefixes == MCKinds("Empty", "poll", TRUE, {FALSE})
MCDirectories == MCKinds("StartupResolved", "notify", FALSE, BOOLEAN)
MCDatabases   == MCKinds("StartupResolved", "poll", FALSE, {FALSE})
MCDrivers     == MCPrefixes \cup MCDirectories \cup MCDatabases
=============================================================================
