----------------------------- MODULE PgRegistry -----------------------------
(***************************************************************************)
(* The desktop application's PostGIS registry: the pools, sources and      *)
(* states it serves from (pg/registry.rs), the connections.json they are   *)
(* made from (pg/config.rs) and the commands that change either            *)
(* (pg_cmd.rs).  A background thread refreshes the registry again and      *)
(* again, and every command ends with a refresh of its own.  A refresh     *)
(* reads the config, visits the connections, and publishes its pools, its  *)
(* sources and its states one after the other; nothing keeps two of them,  *)
(* or two commands, apart.                                                 *)
(*                                                                         *)
(* A connection is [id, db, pw, enabled].  The databases are external: one *)
(* has tables and a password, and is reachable or not.                     *)
(***************************************************************************)
EXTENDS Naturals, FiniteSets, SequencesExt

CONSTANTS
  Commands,     \* processes that run one command each
  Asking,       \* what the commands may be asked together: functions of Commands
  Databases,    \* [name -> [tables, pw, up]]: what there is at first
  Own,          \* the bundled cluster
  InitialConfig,
  Default,      \* PgConnection::bundled_default
  Slug,         \* [tables -> slugify of the name]
  Stems,        \* slugs of the file sources in the maps directory
  MaxFaults     \* bound: times a database goes away

VARIABLES
  config,       \* connections.json: a sequence of connections, or Torn while written
  db,           \* [DOMAIN Databases -> [tables, pw, up]]
  pools,        \* [connection id -> [db, pw]]
  sources,      \* [id -> [conn, db, table]]
  states,       \* [connection id -> ok]
  refresh,      \* [Refreshers -> [at, todo, naming, existing, pools, sources, states, clean]]
  command,      \* [Commands -> [at, request, cfg, overlapped]]
  current,      \* history: published by one refresh, and nothing has changed since it began
  faults

vars == <<config, db, pools, sources, states, refresh, command, current, faults>>
served == <<pools, sources, states>>

Refreshers == Commands \cup {"thread"}
Torn == <<>>
Nothing == [x \in {} |-> x]

NoRefresh == [at |-> "idle", todo |-> <<>>, naming |-> {}, existing |-> Nothing,
              pools |-> Nothing, sources |-> Nothing, states |-> Nothing, clean |-> FALSE]

Init ==
  /\ config = InitialConfig
  /\ db = Databases
  /\ pools = Nothing /\ sources = Nothing /\ states = Nothing
  /\ refresh = [r \in Refreshers |-> NoRefresh]
  /\ \E asked \in Asking :
       command = [p \in Commands |->
         [at |-> "new", request |-> asked[p], cfg |-> <<>>, overlapped |-> FALSE]]
  /\ current = FALSE
  /\ faults = 0

\* PgConfig::load: a file that does not parse is as good as none.
Loaded == IF config = Torn THEN <<Default>> ELSE config

\* The connection string of c opens its database.
Opens(c) == db[c.db].up /\ db[c.db].pw = c.pw

With(f, k, v) == [x \in DOMAIN f \cup {k} |-> IF x = k THEN v ELSE f[x]]

\* Mutant: the name of the table alone.
TableSlug(base, used) == <<base, 1>>

\* unique_slug
UniqueSlug(base, used) ==
  LET free == {i \in 1..(Cardinality(used) + 1) : <<base, i>> \notin used}
  IN <<base, CHOOSE i \in free : \A k \in free : i <= k>>

\* file_source_stems
FileStems == {<<s, 1>> : s \in Stems}

\* discover_tables: what there is to serve of connection c.
TablesOf(c) == {[conn |-> c.id, db |-> c.db, table |-> t] : t \in db[c.db].tables}

\* What any change makes of the refreshes that run, and of what was published.
Dirtied(rs) == [r \in Refreshers |-> IF r \in rs THEN [refresh[r] EXCEPT !.clean = FALSE] ELSE refresh[r]]
Changed == refresh' = Dirtied(Refreshers) /\ current' = FALSE

-----------------------------------------------------------------------------
\* refresh

RAt(r, at) == refresh[r].at = at

\* The config, with the bundled cluster started if it is down and can be.
Load(r) ==
  /\ \/ r = "thread" /\ RAt(r, "idle")
     \/ r \in Commands /\ RAt(r, "load")
  /\ \E up \in {db[Own].up, TRUE} : db' = [db EXCEPT ![Own].up = up]
  /\ refresh' = [q \in Refreshers |->
       IF q = r
       THEN [NoRefresh EXCEPT !.at = "visit", !.clean = TRUE, !.existing = pools,
               !.todo = Loaded]
       ELSE [refresh[q] EXCEPT !.clean = @ /\ db' = db]]
  /\ current' = (current /\ db' = db)
  /\ UNCHANGED <<config, served, command, faults>>

\* The pool of before is used again if its connection string is unchanged.
Reused(r, c) ==
  /\ c.id \in DOMAIN refresh[r].existing
  /\ refresh[r].existing[c.id] = [db |-> c.db, pw |-> c.pw]

Visits(r) == RAt(r, "visit") /\ refresh[r].naming = {} /\ refresh[r].todo # <<>>

\* Only connections that are enabled are visited.
Skip(r) ==
  /\ Visits(r) /\ ~Head(refresh[r].todo).enabled
  /\ refresh' = [refresh EXCEPT ![r].todo = Tail(@)]
  /\ UNCHANGED <<config, db, served, command, current, faults>>

\* One connection: connected and discovered.  A pool may still hold connections of
\* before the password changed.
Visit(r) ==
  /\ Visits(r) /\ Head(refresh[r].todo).enabled
  /\ LET x == refresh[r]
         c == Head(x.todo)
         connected == Reused(r, c) \/ Opens(c)
     IN \E found \in IF Opens(c) THEN {TRUE} ELSE {FALSE, Reused(r, c) /\ db[c.db].up} :
          refresh' = [refresh EXCEPT ![r] = [x EXCEPT
            !.todo = Tail(x.todo),
            !.naming = IF found THEN TablesOf(c) ELSE {},
            !.pools = IF connected THEN With(x.pools, c.id, [db |-> c.db, pw |-> c.pw]) ELSE x.pools,
            !.states = With(x.states, c.id, found)]]
  /\ UNCHANGED <<config, db, served, command, current, faults>>

\* One of its tables gets its id; those of one slug in any order.
Name(r) ==
  /\ RAt(r, "visit")
  /\ LET x == refresh[r]
     IN \E s \in x.naming :
          /\ \A t \in x.naming : Slug[s.table] <= Slug[t.table]
          /\ refresh' = [refresh EXCEPT ![r] = [x EXCEPT
               !.naming = x.naming \ {s},
               !.sources =
                 With(x.sources, UniqueSlug(Slug[s.table], DOMAIN x.sources \cup FileStems), s)]]
  /\ UNCHANGED <<config, db, served, command, current, faults>>

Others(r) == {q \in Refreshers \ {r} : refresh[q].at # "idle"}

PublishPools(r) ==
  /\ RAt(r, "visit") /\ refresh[r].naming = {} /\ refresh[r].todo = <<>>
  /\ pools' = refresh[r].pools
  /\ refresh' = [Dirtied(Others(r)) EXCEPT ![r].at = "sources"]
  /\ current' = FALSE
  /\ UNCHANGED <<config, db, sources, states, command, faults>>

PublishSources(r) ==
  /\ RAt(r, "sources")
  /\ sources' = refresh[r].sources
  /\ refresh' = [Dirtied(Others(r)) EXCEPT ![r].at = "states"]
  /\ current' = FALSE
  /\ UNCHANGED <<config, db, pools, states, command, faults>>

PublishStates(r) ==
  /\ RAt(r, "states")
  /\ states' = refresh[r].states
  /\ refresh' = [Dirtied(Others(r)) EXCEPT ![r] = NoRefresh]
  /\ current' = refresh[r].clean
  /\ command' = IF r = "thread" THEN command ELSE [command EXCEPT ![r].at = "done"]
  /\ UNCHANGED <<config, db, pools, sources, faults>>

-----------------------------------------------------------------------------
\* The commands

CAt(p, at) == command[p].at = at
Asked(p) == command[p].request
Ends(p, how) == command' = [command EXCEPT ![p].at = how]

\* A command that has loaded the config and has yet to write it.
Editing(p) == command[p].at \in {"alter", "save", "write"}

Find(cfg, id) == {i \in DOMAIN cfg : cfg[i].id = id}

\* The fields of the bundled connection that are fixed stay; a blank password
\* keeps the one that is there.
Edited(old, new) ==
  [id |-> old.id, db |-> IF old.id = Default.id THEN old.db ELSE new.db,
   pw |-> IF new.pw = "" THEN old.pw ELSE new.pw, enabled |-> new.enabled]

\* The config with the connection saved, or deleted.
Saved(cfg, conn) ==
  IF Find(cfg, conn.id) = {} THEN Append(cfg, conn)
  ELSE [i \in DOMAIN cfg |-> IF cfg[i].id = conn.id THEN Edited(cfg[i], conn) ELSE cfg[i]]
Deleted(cfg, id) ==
  IF Find(cfg, id) = {} THEN cfg ELSE RemoveAt(cfg, CHOOSE i \in Find(cfg, id) : TRUE)

\* Whether the password of the bundled cluster changes.
Alters(p, cfg, new) ==
  Asked(p).do = "save" /\ \E i \in Find(cfg, Own) : new[i].pw # cfg[i].pw

\* pg_save_connection and pg_delete_connection load the config and change it.
Edit(p) ==
  /\ CAt(p, "new") /\ Asked(p).do \in {"save", "delete"}
  /\ LET cfg == Loaded
         new == IF Asked(p).do = "save" THEN Saved(cfg, Asked(p).conn) ELSE Deleted(cfg, Asked(p).id)
         others == {q \in Commands \ {p} : Editing(q)}
     IN IF Asked(p).do = "delete" /\ Asked(p).id = Default.id
        THEN Ends(p, "failed")
        ELSE command' = [q \in Commands |->
               IF q = p THEN [at |-> IF Alters(p, cfg, new) THEN "alter" ELSE "save", request |-> Asked(p),
                              cfg |-> [old |-> cfg, new |-> new], overlapped |-> others # {}]
               ELSE IF q \in others THEN [command[q] EXCEPT !.overlapped = TRUE]
               ELSE command[q]]
  /\ UNCHANGED <<config, db, served, refresh, current, faults>>

\* alter_role_password, with the password the config had.
Alter(p) ==
  /\ CAt(p, "alter")
  /\ LET old == command[p].cfg.old[CHOOSE i \in Find(command[p].cfg.old, Own) : TRUE]
     IN IF Opens(old)
        THEN db' = [db EXCEPT ![Own].pw = Asked(p).conn.pw] /\ Ends(p, "save") /\ Changed
        ELSE Ends(p, "failed") /\ UNCHANGED <<db, refresh, current>>
  /\ UNCHANGED <<config, served, faults>>

\* PgConfig::save truncates the file and writes it.
Save(p) ==
  /\ CAt(p, "save")
  /\ config' = Torn
  /\ Ends(p, "write")
  /\ Changed
  /\ UNCHANGED <<db, served, faults>>

Write(p) ==
  /\ CAt(p, "write")
  /\ config' = command[p].cfg.new
  /\ Ends(p, "reconnect")
  /\ Changed
  /\ UNCHANGED <<db, served, faults>>

\* The file cannot be written.
SaveFails(p) ==
  /\ CAt(p, "save")
  /\ Ends(p, "unsaved")
  /\ UNCHANGED <<config, db, served, refresh, current, faults>>

\* reconnect drops the pools; its refresh follows.
Reconnect(p) ==
  /\ CAt(p, "reconnect")
  /\ pools' = Nothing
  /\ Ends(p, "refresh")
  /\ refresh' = [Dirtied(Refreshers) EXCEPT ![p].at = "load"]
  /\ current' = FALSE
  /\ UNCHANGED <<config, db, sources, states, faults>>

\* pg_import: a table in the database of a connection, or of the bundled one.
Import(p) ==
  /\ CAt(p, "new") /\ Asked(p).do = "import"
  /\ LET ids == Find(Loaded, Asked(p).id) \cup
                (IF Find(Loaded, Asked(p).id) = {} THEN Find(Loaded, Own) ELSE {})
         c == Loaded[CHOOSE i \in ids : TRUE]
     IN IF Opens(c)
        THEN /\ db' = [db EXCEPT ![c.db].tables = @ \cup {Asked(p).table}]
             /\ Ends(p, "refresh")
             /\ refresh' = [Dirtied(Refreshers) EXCEPT ![p].at = "load"]
             /\ current' = FALSE
        ELSE Ends(p, "failed") /\ UNCHANGED <<db, refresh, current>>
  /\ UNCHANGED <<config, served, faults>>

\* pg_drop_source: a source of the registry, through the connection of its id.
Drop(p) ==
  /\ CAt(p, "new") /\ Asked(p).do = "drop"
  /\ IF Asked(p).source \in DOMAIN sources
        /\ \E i \in Find(Loaded, sources[Asked(p).source].conn) : Opens(Loaded[i])
     THEN LET s == sources[Asked(p).source]
              c == Loaded[CHOOSE i \in Find(Loaded, s.conn) : TRUE]
          IN /\ db' = [db EXCEPT ![c.db].tables = @ \ {s.table}]
             /\ Ends(p, "refresh")
             /\ refresh' = [Dirtied(Refreshers) EXCEPT ![p].at = "load"]
             /\ current' = FALSE
     ELSE Ends(p, "failed") /\ UNCHANGED <<db, refresh, current>>
  /\ UNCHANGED <<config, served, faults>>

\* External: a database goes away, or comes back.
Flip(d) ==
  /\ db[d].up => faults < MaxFaults
  /\ faults' = IF db[d].up THEN faults + 1 ELSE faults
  /\ db' = [db EXCEPT ![d].up = ~@]
  /\ Changed
  /\ UNCHANGED <<config, served, command>>

Refresh(r) ==
  \/ Load(r) \/ Skip(r) \/ Visit(r) \/ Name(r)
  \/ PublishPools(r) \/ PublishSources(r) \/ PublishStates(r)

Run(p) ==
  Edit(p) \/ Alter(p) \/ Save(p) \/ Write(p) \/ SaveFails(p) \/ Reconnect(p)
    \/ Import(p) \/ Drop(p)

Next ==
  \/ \E r \in Refreshers : Refresh(r)
  \/ \E p \in Commands : Run(p)
  \/ \E d \in DOMAIN db : Flip(d)

\* The thread refreshes for ever, and what a command started ends.
Spec ==
  /\ Init /\ [][Next]_vars
  /\ \A r \in Refreshers : WF_vars(Refresh(r))
  /\ \A p \in Commands : WF_vars(command[p].at # "new" /\ Run(p))

-----------------------------------------------------------------------------
\* Properties

Enabled(c) == c.enabled
Active == {Loaded[i] : i \in {k \in DOMAIN Loaded : Enabled(Loaded[k])}}

\* The registry shows what there is: every table of every connection that opens
\* under one id, no other table but of a connection with a wrong password, no id
\* of a file, and for each source a pool of its database.
Shows ==
  LET found == {sources[id] : id \in DOMAIN sources}
  IN /\ DOMAIN states = {c.id : c \in Active}
     /\ \A c \in Active : Opens(c) => TablesOf(c) \subseteq found /\ states[c.id]
     /\ \A s \in found : \E c \in Active : s \in TablesOf(c) /\ db[c.db].up
     /\ Cardinality(found) = Cardinality(DOMAIN sources)
     /\ DOMAIN sources \cap FileStems = {}
     /\ \A s \in found : s.conn \in DOMAIN pools /\ pools[s.conn].db = s.db

\* After a refresh that no other and no change overlapped, the registry shows what
\* there is.
RefreshShowsAll == current => Shows

\* However refreshes overlapped, the registry comes to show what there is once
\* changes have stopped.
RegistryCatchesUp == <>[]Shows

\* What a command saved stays saved, and the password of the bundled cluster is the
\* one in the config, unless two commands edited at once or one could not save.
EditsKept ==
  (\A p \in Commands : ~command[p].overlapped /\ ~Editing(p) /\ command[p].at # "unsaved") =>
    /\ \A i \in Find(config, Own) : config[i].pw = db[config[i].db].pw
    /\ \A c \in {InitialConfig[i] : i \in DOMAIN InitialConfig} :
         Find(config, c.id) = {} => \E p \in Commands : Asked(p).do = "delete" /\ Asked(p).id = c.id
    /\ \A p \in Commands : command[p].at \in {"reconnect", "refresh", "done"} /\ Asked(p).do = "save" =>
         Find(config, Asked(p).conn.id) # {}
           \/ \E q \in Commands : Asked(q).do = "delete" /\ Asked(q).id = Asked(p).conn.id
=============================================================================
