------------------------- MODULE MCReloadDriverSync -------------------------
(* ReloadDriverSync over two sources in two locations.                     *)
EXTENDS ReloadDriverSync

MCLocOf == [id \in Ids |-> IF id = 1 THEN "left" ELSE "right"]

\* config/file/tiles/reload: local directories, bucket prefixes, PostgreSQL.
MCKinds(start, source, skips, reads) ==
  [onInvalid : {"Abort", "Warn"}, baseline : {start}, trigger : {source},
   skipFailed : {skips}, readEvents : reads]

MCWatched == MCKinds("StartupResolved", "notify", FALSE, BOOLEAN)
             \cup MCKinds("StartupResolved", "poll", FALSE, {FALSE})
=============================================================================
