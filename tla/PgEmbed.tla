------------------------------ MODULE PgEmbed ------------------------------
(***************************************************************************)
(* The desktop application's bundled PostgreSQL cluster (pg/embed.rs).     *)
(* The registry of the GUI, that of the headless service and an import     *)
(* each bring it up: is something listening, is the directory initialised, *)
(* initdb, the configuration, pg_ctl, the database, its extension.  The    *)
(* steps of several processes interleave, and one can be killed between    *)
(* any two.  Another PostgreSQL may hold the port.                         *)
(*                                                                         *)
(* The tools are external: initdb refuses a directory that is not empty,   *)
(* writes PG_VERSION before the rest and removes what it wrote if it       *)
(* fails; pg_ctl fails if the port is taken or the directory is in use.    *)
(***************************************************************************)
EXTENDS Naturals, FiniteSets

CONSTANTS
  Callers,    \* processes that call ensure_running again and again
  MaxKills,   \* bound: processes killed
  MaxStops    \* bound: times the cluster, or the other server, stops

VARIABLES
  data,       \* the data directory: a subset of {"junk", "version", "base", "ours", "whole"}
  port,       \* who listens: "none", "ours" or "foreign"
  database,   \* of our cluster: a subset of {"db", "postgis"}
  caller,     \* [Callers -> [at, body: what configure read]]
  changed,    \* history: servers that createdb or psql changed
  taken,      \* history: a foreign server took the port from ours
  raced,      \* history: two processes initialised or configured at once
  kills, stops

vars == <<data, port, database, caller, changed, taken, raced, kills, stops>>

Init ==
  /\ data \in {{}, {"junk"}}
  /\ port \in {"none", "foreign"}
  /\ database = {} /\ changed = {} /\ taken = FALSE /\ raced = FALSE
  /\ caller = [c \in Callers |-> [at |-> "idle", body |-> {}]]
  /\ kills = 0 /\ stops = 0

At(c, at) == caller[c].at = at
Goes(c, at) == caller' = [caller EXCEPT ![c].at = at]
Setting(c) == caller[c].at \in {"initdb", "bootstrap", "configure", "append"}
Race == raced' = (raced \/ Cardinality({c \in Callers : Setting(c)'}) > 1)

Listening == port # "none"

\* ensure_running up to its first branch.
Begin(c) ==
  /\ At(c, "idle")
  /\ Goes(c, IF Listening THEN "sentinel"
             ELSE IF "version" \in data THEN "configure"
             ELSE IF data # {} THEN "idle" ELSE "initdb")
  /\ Race
  /\ UNCHANGED <<data, port, database, changed, taken, kills, stops>>

\* initdb begins, in a directory that is empty.
Initdb(c) ==
  /\ At(c, "initdb")
  /\ IF data = {}
     THEN data' = {"junk"} /\ Goes(c, "bootstrap")
     ELSE data' = data /\ Goes(c, "idle")
  /\ UNCHANGED <<port, database, changed, taken, raced, kills, stops>>

\* It writes PG_VERSION, then postgresql.conf, then the rest.
Bootstrap(c) ==
  /\ At(c, "bootstrap")
  /\ CASE "version" \notin data -> data' = data \cup {"version"} /\ UNCHANGED caller
       [] "version" \in data /\ "base" \notin data ->
            data' = (data \ {"ours"}) \cup {"base"} /\ UNCHANGED caller
       [] OTHER -> data' = data \cup {"whole"} /\ Goes(c, "configure")
  /\ UNCHANGED <<port, database, changed, taken, raced, kills, stops>>

InitdbFails(c) ==
  /\ At(c, "bootstrap")
  /\ stops < MaxStops
  /\ stops' = stops + 1
  /\ data' = {}
  /\ Goes(c, "idle")
  /\ UNCHANGED <<port, database, changed, taken, raced, kills>>

Conf == data \cap {"base", "ours"}

\* configure reads postgresql.conf; one that cannot be read is empty.
Configure(c) ==
  /\ At(c, "configure")
  /\ caller' = [caller EXCEPT ![c] =
       IF "ours" \notin Conf THEN [at |-> "append", body |-> Conf] ELSE [at |-> "start", body |-> {}]]
  /\ UNCHANGED <<data, port, database, changed, taken, raced, kills, stops>>

\* Mutant: the settings alone.
OnlyOurs(c) == {"ours"}

Configured(c) == caller[c].body \cup {"ours"}

\* It writes what it read and the settings.
WriteConf(c) ==
  /\ At(c, "append")
  /\ data' = IF data = {} THEN {} ELSE (data \ Conf) \cup Configured(c)
  /\ caller' = [caller EXCEPT ![c] = [at |-> IF data = {} THEN "idle" ELSE "start", body |-> {}]]
  /\ UNCHANGED <<port, database, changed, taken, raced, kills, stops>>

\* pg_ctl -w start: the port must be free and the cluster whole.
Start(c) ==
  /\ At(c, "start")
  /\ IF ~Listening /\ "whole" \in data
     THEN port' = "ours" /\ Goes(c, "sentinel")
     ELSE port' = port /\ Goes(c, "idle")
  /\ UNCHANGED <<data, database, changed, taken, raced, kills, stops>>

\* Whether the server that answers shows our data directory.
IsOurs == port = "ours"

\* ensure_database: SHOW data_directory first.
Sentinel(c) ==
  /\ At(c, "sentinel")
  /\ Goes(c, IF IsOurs THEN "exists" ELSE "idle")
  /\ UNCHANGED <<data, port, database, changed, taken, raced, kills, stops>>

AfterDatabase(c) == "extension"

\* Does the database exist?  A server that does not answer has none.
Exists(c) ==
  /\ At(c, "exists")
  /\ Goes(c, IF port = "ours" /\ "db" \in database THEN AfterDatabase(c) ELSE "createdb")
  /\ UNCHANGED <<data, port, database, changed, taken, raced, kills, stops>>

\* createdb fails if another process has been faster, and CREATE EXTENSION may.
Create(c) ==
  /\ At(c, "createdb")
  /\ IF ~Listening \/ (port = "ours" /\ "db" \in database)
     THEN Goes(c, "idle") /\ UNCHANGED <<database, changed>>
     ELSE /\ database' = IF port = "ours" THEN {"db"} ELSE database
          /\ changed' = changed \cup {port}
          /\ Goes(c, "extension")
  /\ UNCHANGED <<data, port, taken, raced, kills, stops>>

Extend(c) ==
  /\ At(c, "extension")
  /\ IF ~Listening
     THEN UNCHANGED <<database, changed>>
     ELSE /\ database' = IF port = "ours" THEN database \cup {"postgis"} ELSE database
          /\ changed' = changed \cup {port}
  /\ Goes(c, "idle")
  /\ UNCHANGED <<data, port, taken, raced, kills, stops>>

\* External: a process is killed, with the tool it runs; our cluster stops, and a
\* foreign one may get its port, or gives it up.
Kill(c) ==
  /\ ~At(c, "idle") /\ kills < MaxKills
  /\ kills' = kills + 1
  /\ caller' = [caller EXCEPT ![c] = [at |-> "idle", body |-> {}]]
  /\ UNCHANGED <<data, port, database, changed, taken, raced, stops>>

Stop ==
  /\ Listening /\ stops < MaxStops
  /\ stops' = stops + 1
  /\ port' \in {"none", "foreign"} \ {port}
  /\ taken' = (taken \/ port' = "foreign")
  /\ UNCHANGED <<data, database, caller, changed, raced, kills>>

Step(c) ==
  Begin(c) \/ Initdb(c) \/ Bootstrap(c) \/ Configure(c) \/ WriteConf(c) \/ Start(c)
    \/ Sentinel(c) \/ Exists(c) \/ Create(c) \/ Extend(c)

Next == (\E c \in Callers : Step(c) \/ InitdbFails(c) \/ Kill(c)) \/ Stop

Spec == Init /\ [][Next]_vars /\ \A c \in Callers : WF_vars(Step(c))

-----------------------------------------------------------------------------
\* Properties

Ready == port = "ours" /\ database = {"db", "postgis"}

\* Only our own server is ever changed, unless a foreign one takes its port just
\* after it has been identified.
ForeignUntouched == "foreign" \in changed => taken

\* A cluster that runs has its default configuration and our settings, unless two
\* processes set it up at once.
ClusterWhole == port = "ours" /\ ~raced => {"base", "ours", "whole"} \subseteq data

\* Callers that keep trying bring the cluster up, whatever way their steps meet,
\* unless the directory is broken or the port is a foreign server's.
ClusterComesUp ==
  <>[](Ready \/ port = "foreign" \/ ~({"version", "whole"} \subseteq data))
=============================================================================
