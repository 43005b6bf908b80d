------------------------------ MODULE PgSources ------------------------------
(***************************************************************************)
(* The tile sources of PostgreSQL connections (config/file/tiles/postgres, *)
(* tiles/discovery/postgres.rs): which tables and functions each publishes *)
(* under which id, and how the reloader finds again what has changed.      *)
(* A start resolves all connections concurrently, with one id resolver;    *)
(* then each connection discovers once to know what is served, and again   *)
(* for every reload.  ReloadDriver has the steps of a reload's last part,  *)
(* which is one action here.                                               *)
(*                                                                         *)
(* A table is <<schema, table, geometry column>>, a function               *)
(* <<schema, name>>.                                                       *)
(***************************************************************************)
EXTENDS Naturals, FiniteSets, SequencesExt

CONSTANTS
  Conns,       \* connections
  DbName,      \* [Conns -> name of the database]
  Settings,    \* what the configurations may say: a set of [Conns -> settings]
  Databases,   \* what the databases may hold
  Names,       \* ids: sequences, so that a renamed one is an id too
  Rank,        \* [Names -> Nat], their alphabetical order
  Order,       \* [strings -> Nat], the alphabetical order of keys and connections
  Lower,       \* [strings -> the same in lower case]
  MaxChanges,  \* bound: of databases
  MaxFaults    \* bound: queries that fail

None == "none"

Empty == [x \in {} |-> 0]

VARIABLES
  settings,
  db,        \* [Conns -> what its database holds]
  phase,     \* "starting", "serving" or "failed"
  work,      \* [Conns -> its discovery]
  names,     \* the ids that are taken: [a set of ids -> relations]
  baseline,  \* [Conns -> [known, specs]]: what the reloader takes to be served
  served,    \* [a set of ids -> [conn, spec, process]]
  since,     \* history, per connection: what changed since the last discovery
  changes, faults

vars == <<settings, db, phase, work, names, baseline, served, since, changes, faults>>

Relations == UNION {{<<DbName[c], k>> : k \in DOMAIN d.tables \cup DOMAIN d.functions} :
                      c \in Conns, d \in Databases}

I == INSTANCE IdResolver WITH
       Uniques <- Relations, Sanitised <- [n \in Names |-> n], Reserved <- {},
       MaxIndex <- Cardinality(Relations), answers <- {}, poisoned <- FALSE

Discovering(mode) ==
  [at |-> "connect", mode |-> mode, todo |-> <<>>, specs |-> Empty, warned |-> FALSE]

Init ==
  /\ settings \in Settings
  /\ db \in [Conns -> Databases]
  /\ phase = "starting"
  /\ work = [c \in Conns |-> Discovering("start")]
  /\ names = Empty
  /\ baseline = [c \in Conns |-> [known |-> FALSE, specs |-> Empty]]
  /\ served = Empty
  /\ since = [c \in Conns |-> "nothing"]
  /\ changes = 0 /\ faults = 0

-----------------------------------------------------------------------------
\* find_info: the key itself, or the only one that differs in case alone.
Found(keys, key) ==
  LET alike == {k \in keys : Lower[k] = Lower[key]}
  IN IF key \in keys THEN {key} ELSE IF Cardinality(alike) = 1 THEN alike ELSE {}

FoundTable(tables, key) ==
  UNION {UNION {{<<s, t, g>> : g \in Found({k[3] : k \in {x \in tables : x[1] = s /\ x[2] = t}}, key[3])} :
                  t \in Found({k[2] : k \in {x \in tables : x[1] = s}}, key[2])} :
           s \in Found({k[1] : k \in tables}, key[1])}

FoundFunction(functions, key) ==
  UNION {{<<s, f>> : f \in Found({k[2] : k \in {x \in functions : x[1] = s}}, key[2])} :
           s \in Found({k[1] : k \in functions}, key[1])}

Alphabetical(S) == SetToSortSeq(S, LAMBDA a, b : Rank[a] < Rank[b])

\* Of keys, by their parts.
InOrder(S) ==
  SetToSortSeq(S, LAMBDA a, b : \E i \in DOMAIN a :
    Order[a[i]] < Order[b[i]] /\ \A j \in 1..(i - 1) : a[j] = b[j])

\* use_auto_publish: one that is not mentioned is the inverse of the other.
Auto(c, mine, other) ==
  LET p == settings[c].auto
  IN CASE p.kind = "unset" -> settings[c].tables = Empty /\ settings[c].functions = Empty
       [] p.kind = "object" ->
            \/ p[mine].kind \in {"object", "yes"}
            \/ p[mine].kind = "unset" /\ p[other].kind \in {"unset", "no"}
       [] OTHER -> p.kind = "yes"

\* The schemas that are named; all of them when none is.
AutoSchemas(c, mine) ==
  LET p == settings[c].auto
  IN IF p.kind # "object" THEN {}
     ELSE p.schemas \cup (IF p[mine].kind = "object" THEN p[mine].schemas ELSE {})

Within(schemas, keys) ==
  {k \in keys : schemas = {} \/ \E s \in schemas : k[1] \in Found({x[1] : x \in keys}, s)}

\* source_id_format, "{table}" or "{function}" if not set.
IdFor(c, mine, key) ==
  LET p == settings[c].auto
  IN IF p.kind = "object" /\ p[mine].kind = "object" THEN p[mine].format[key] ELSE <<key[2]>>

\* calc_srid: the table's or the configured one, which must not differ; else the
\* default for the connection, if there is one.
Srid(c, table, own) ==
  CASE table = 0 /\ own = 0 -> {settings[c].srid} \ {0}
    [] table # 0 /\ own # 0 /\ table # own -> {}
    [] OTHER -> {IF own = 0 THEN table ELSE own}

Item(name, key, specs) == [name |-> name, key |-> key, specs |-> specs]

\* append_cfg_info: the columns that are asked for must be there.
ConfiguredTable(c, key, table, own) ==
  LET asked == own.props \cup ({own.id} \ {None})
  IN IF \E p \in asked : Found(DOMAIN table.columns, p) = {} THEN {}
     ELSE {[kind |-> "table", key |-> key, srid |-> s, id |-> own.id, props |-> own.props,
            columns |-> [p \in asked |-> CHOOSE q \in Found(DOMAIN table.columns, p) : TRUE],
            note |-> table.note, own |-> own.process] : s \in Srid(c, table.srid, own.srid)}

IsId(table, column) == column \in DOMAIN table.columns /\ table.columns[column] = "integer"

\* update_auto_fields: the first of the id columns that is there, and a number, is
\* the feature id instead of a property.
AutoTable(c, key, table) ==
  LET p == settings[c].auto
      tries == IF p.kind = "object" /\ p.tables.kind = "object" THEN p.tables.ids ELSE <<>>
      ids == SelectSeq(tries, LAMBDA t : \E q \in Found(DOMAIN table.columns, t) : IsId(table, q))
      id == IF ids = <<>> THEN None
            ELSE CHOOSE q \in Found(DOMAIN table.columns, Head(ids)) : TRUE
  IN {[kind |-> "table", key |-> key, srid |-> s, id |-> id, props |-> DOMAIN table.columns \ {id},
       columns |-> Empty, note |-> table.note, own |-> None] : s \in Srid(c, table.srid, 0)}

Function(key, function, sql, own) ==
  [kind |-> "function", key |-> key, sql |-> sql, note |-> function.note, own |-> own]

\* Without auto-publishing only the tables that are configured are looked at.
Visible(c) ==
  IF Auto(c, "tables", "functions") THEN DOMAIN db[c].tables
  ELSE {k \in DOMAIN db[c].tables : \E n \in DOMAIN settings[c].tables :
          LET own == settings[c].tables[n].key
          IN Lower[own[1]] = Lower[k[1]] /\ Lower[own[2]] = Lower[k[2]]}

\* discover_tables, up to the ids: the configured ones that are found, by their
\* names; then those that are left, in order.
Tables(c) ==
  LET all == db[c].tables
      cfg == settings[c].tables
      Of(n) == IF FoundTable(Visible(c), cfg[n].key) = {} THEN Item(n, cfg[n].key, {})
               ELSE LET k == CHOOSE k \in FoundTable(Visible(c), cfg[n].key) : TRUE
                    IN Item(n, k, ConfiguredTable(c, k, all[k], cfg[n]))
      good == SelectSeq(Alphabetical(DOMAIN cfg), LAMBDA n : Of(n).specs # {})
      used == {cfg[good[i]].key : i \in DOMAIN good}
      left == IF ~Auto(c, "tables", "functions") THEN {}
              ELSE Within(AutoSchemas(c, "tables"), Visible(c)) \ used
      rest == InOrder(left)
  IN [todo |-> [i \in DOMAIN good |-> Of(good[i])]
                 \o [i \in DOMAIN rest |-> Item(IdFor(c, "tables", rest[i]), rest[i],
                                                AutoTable(c, rest[i], all[rest[i]]))],
      warned |-> Len(good) < Cardinality(DOMAIN cfg)]

\* discover_functions; of functions of one name the last row stays, in any order.
Functions(c, sql) ==
  LET all == db[c].functions
      cfg == settings[c].functions
      Of(n) == IF FoundFunction(DOMAIN all, cfg[n].key) = {} THEN Item(n, cfg[n].key, {})
               ELSE LET k == CHOOSE k \in FoundFunction(DOMAIN all, cfg[n].key) : TRUE
                    IN Item(n, k, {Function(k, all[k], sql[k], cfg[n].process)})
      good == SelectSeq(Alphabetical(DOMAIN cfg), LAMBDA n : Of(n).specs # {})
      used == {cfg[good[i]].key : i \in DOMAIN good}
      left == IF ~Auto(c, "functions", "tables") THEN {}
              ELSE Within(AutoSchemas(c, "functions"), DOMAIN all) \ used
      rest == InOrder(left)
  IN [todo |-> [i \in DOMAIN good |-> Of(good[i])]
                 \o [i \in DOMAIN rest |-> Item(IdFor(c, "functions", rest[i]), rest[i],
                                                {Function(rest[i], all[rest[i]], sql[rest[i]], None)})],
      warned |-> Len(good) < Cardinality(DOMAIN cfg)]

-----------------------------------------------------------------------------
\* A discovery, which a start, the reloader's seeding and every reload begin with.

At(c, at) == work[c].at = at

Step(c, new) == work' = [work EXCEPT ![c] = new]

Discovers(c) ==
  /\ phase # "failed"
  /\ work[c].mode = "start" => phase = "starting"

Query(c, at, found) ==
  Step(c, [work[c] EXCEPT !.at = at, !.todo = found.todo, !.warned = @ \/ found.warned])

QueryTables(c) ==
  /\ At(c, "connect") /\ Discovers(c)
  /\ Query(c, "tables", Tables(c))
  /\ since' = [since EXCEPT ![c] = IF work[c].mode = "reload" /\ @ = "changed" THEN "discovering" ELSE @]
  /\ UNCHANGED <<settings, db, phase, names, baseline, served, changes, faults>>

QueryFunctions(c) ==
  /\ At(c, "tables") /\ work[c].todo = <<>> /\ Discovers(c)
  /\ \E sql \in [DOMAIN db[c].functions -> UNION {db[c].functions[k].sqls : k \in DOMAIN db[c].functions}] :
       /\ \A k \in DOMAIN sql : sql[k] \in db[c].functions[k].sqls
       /\ Query(c, "functions", Functions(c, sql))
  /\ UNCHANGED <<settings, db, phase, names, baseline, served, since, changes, faults>>

Put(f, x, y) == [z \in DOMAIN f \cup {x} |-> IF z = x THEN y ELSE f[z]]

\* The next one gets its id; one whose SRID is not known keeps it without use.
ResolveId(c) ==
  /\ At(c, "tables") \/ At(c, "functions")
  /\ work[c].todo # <<>> /\ Discovers(c)
  /\ LET item == Head(work[c].todo)
         unique == <<DbName[c], item.key>>
     IN \E i \in I!Indices :
          LET id == I!Candidate(item.name, i)
          IN /\ I!First(item.name, unique, i)
             /\ names' = I!Owned(id, unique)
             /\ Step(c, [work[c] EXCEPT
                  !.todo = Tail(@),
                  !.specs = IF item.specs = {} THEN @ ELSE Put(@, id, CHOOSE s \in item.specs : TRUE)])
  /\ UNCHANGED <<settings, db, phase, baseline, served, since, changes, faults>>

Changed(c) == since' = [since EXCEPT ![c] = IF @ = "discovering" THEN "changed" ELSE @]

\* A query, or the first connection, fails: a start ends, a discovery is left.
Fails(c) ==
  /\ faults < MaxFaults
  /\ At(c, "connect") \/ (At(c, "tables") /\ work[c].todo = <<>>)
  /\ Discovers(c)
  /\ faults' = faults + 1
  /\ IF work[c].mode = "start" THEN phase' = "failed" /\ UNCHANGED work
     ELSE phase' = phase /\ Step(c, [Discovering("idle") EXCEPT !.at = "idle"])
  /\ Changed(c)
  /\ UNCHANGED <<settings, db, names, baseline, served, changes>>

Discovered(c) == At(c, "functions") /\ work[c].todo = <<>> /\ phase # "failed"

-----------------------------------------------------------------------------
\* instantiate: the bounds of a table are computed with a query, which fails when
\* the table is gone; a quick one may first be given up.
Gone(c, specs) ==
  {i \in DOMAIN specs : specs[i].kind = "table" /\ specs[i].key \notin DOMAIN db[c].tables}

MayFail(c, specs) ==
  CASE settings[c].bounds = "skip" -> {{}}
    [] settings[c].bounds = "calc" -> {Gone(c, specs)}
    [] OTHER -> SUBSET Gone(c, specs)

\* A source: the query for its tiles and its TileJSON are written from its spec.
Source(c, spec, process) == [conn |-> c, spec |-> spec, process |-> process]

Process(c, own) == IF own # None THEN own ELSE settings[c].process

Keep(f, S) == [x \in S |-> f[x]]

\* PostgresConfig::resolve.
Instantiate(c) ==
  /\ Discovered(c) /\ work[c].mode = "start" /\ phase = "starting"
  /\ \E failed \in MayFail(c, work[c].specs) :
       Step(c, [work[c] EXCEPT !.at = "built", !.specs = Keep(@, DOMAIN @ \ failed),
                               !.warned = @ \/ failed # {}])
  /\ UNCHANGED <<settings, db, phase, names, baseline, served, since, changes, faults>>

\* All connections are resolved; of two sources of one id the last is served.
Serve ==
  /\ phase = "starting" /\ \A c \in Conns : At(c, "built")
  /\ IF (\E c \in Conns : work[c].warned) /\ \E c \in Conns : settings[c].onInvalid = "abort"
     THEN phase' = "failed" /\ UNCHANGED <<work, served>>
     ELSE /\ phase' = "serving"
          /\ work' = [c \in Conns |-> Discovering("seed")]
          /\ served' = [id \in UNION {DOMAIN work[c].specs : c \in Conns} |->
               LET last == CHOOSE c \in Conns : id \in DOMAIN work[c].specs
                             /\ \A d \in Conns : id \in DOMAIN work[d].specs => Order[d] <= Order[c]
                   spec == work[last].specs[id]
               IN Source(last, spec, Process(last, spec.own))]
  /\ UNCHANGED <<settings, db, names, baseline, since, changes, faults>>

Idle == [Discovering("idle") EXCEPT !.at = "idle"]

\* The first discovery of the reloader, or the first that did not fail.
Seed(c) ==
  /\ Discovered(c) /\ work[c].mode # "start" /\ ~baseline[c].known
  /\ baseline' = [baseline EXCEPT ![c] = [known |-> TRUE, specs |-> work[c].specs]]
  /\ Step(c, Idle)
  /\ Changed(c)
  /\ UNCHANGED <<settings, db, phase, names, served, changes, faults>>

Tick(c) ==
  /\ phase = "serving" /\ At(c, "idle")
  /\ Step(c, Discovering("reload"))
  /\ UNCHANGED <<settings, db, phase, names, baseline, served, since, changes, faults>>

\* Mutant: only what a table is called is compared.
KeyOnly(spec) == <<spec.kind, spec.key>>

\* fingerprint: everything that affects the tiles, not how they are processed.
Fingerprint(spec) == [x \in DOMAIN spec \ {"own"} |-> spec[x]]

\* Updates, then additions, then removals; the first that cannot be built ends it
\* all, or is left out.
Reload(c) ==
  /\ Discovered(c) /\ work[c].mode # "start" /\ baseline[c].known
  /\ LET new == work[c].specs
         old == baseline[c].specs
         updates == {i \in DOMAIN new \cap DOMAIN old : Fingerprint(new[i]) # Fingerprint(old[i])}
         additions == DOMAIN new \ DOMAIN old
         removals == DOMAIN old \ DOMAIN new
         Earlier(i, j) == \/ i \in updates /\ j \in additions
                          \/ (i \in updates <=> j \in updates) /\ Rank[i] < Rank[j]
     IN \E failed \in MayFail(c, Keep(new, updates \cup additions)) :
          LET ends == failed # {} /\ settings[c].onInvalid = "abort"
              put == {i \in (updates \cup additions) \ failed : ends => \A f \in failed : Earlier(i, f)}
              cut == IF ends THEN {} ELSE removals
          IN /\ served' = [i \in (DOMAIN served \ cut) \cup put |->
                  IF i \in put THEN Source(c, new[i], settings[c].process)
                  ELSE served[i]]
             /\ IF ends THEN UNCHANGED baseline
                ELSE baseline' = [baseline EXCEPT ![c].specs = new]
             /\ since' = [since EXCEPT ![c] = IF @ # "discovering" THEN @
                                              ELSE IF failed = {} THEN "nothing" ELSE "changed"]
  /\ Step(c, Idle)
  /\ UNCHANGED <<settings, db, phase, names, changes, faults>>

\* The schema of a database is changed.  (What changes before the reloader has
\* discovered for the first time may stay unseen: ReloadDriver has that race.)
Alter(c) ==
  /\ changes < MaxChanges
  /\ changes' = changes + 1
  /\ \E d \in Databases \ {db[c]} : db' = [db EXCEPT ![c] = d]
  /\ since' = [since EXCEPT ![c] = IF ~baseline[c].known \/ @ = "unseen" THEN "unseen" ELSE "changed"]
  /\ UNCHANGED <<settings, phase, work, names, baseline, served, faults>>

Next ==
  \/ Serve
  \/ \E c \in Conns :
       \/ QueryTables(c) \/ QueryFunctions(c) \/ ResolveId(c) \/ Fails(c)
       \/ Instantiate(c) \/ Seed(c) \/ Tick(c) \/ Reload(c) \/ Alter(c)

Spec == Init /\ [][Next]_vars

-----------------------------------------------------------------------------
\* Properties

Own(c) == {id \in DOMAIN served : served[id].conn = c}

\* The configured sources that can be published, and what each should be.
WantedTables(c) ==
  {n \in DOMAIN settings[c].tables :
     \E k \in FoundTable(DOMAIN db[c].tables, settings[c].tables[n].key) :
       ConfiguredTable(c, k, db[c].tables[k], settings[c].tables[n]) # {}}

\* When nothing has changed since a reload began that came through, a connection
\* serves its tables as they are now: each configured one as it is configured, once
\* for every name it has, and each of the others once if tables are published by
\* themselves; and nothing else.  (A table that is configured in another case than
\* its own may in addition be published by itself.)
PublishedAsDeclared ==
  \A c \in Conns :
    phase = "serving" /\ At(c, "idle") /\ baseline[c].known /\ since[c] = "nothing" =>
      LET tables == db[c].tables
          Serving(spec) == {id \in Own(c) : served[id].spec = spec}
          cfg == settings[c].tables
          exact == {n \in WantedTables(c) : cfg[n].key \in DOMAIN tables}
          named == {cfg[n].key : n \in exact}
      IN /\ \A id \in Own(c) : served[id].spec.key \in DOMAIN tables \cup DOMAIN db[c].functions
         /\ \A n \in exact : \E id \in Own(c) :
              served[id].spec \in ConfiguredTable(c, cfg[n].key, tables[cfg[n].key], cfg[n])
         /\ \A k \in DOMAIN tables :
              LET of == {id \in Own(c) : served[id].spec.key = k}
              IN /\ k \in named => Cardinality(of) = Cardinality({n \in exact : cfg[n].key = k})
                 /\ Auto(c, "tables", "functions") /\ AutoSchemas(c, "tables") = {}
                      /\ k \notin named /\ Srid(c, tables[k].srid, 0) # {} =>
                      /\ of # {}
                      /\ exact = WantedTables(c) =>
                           \A id \in of : served[id].spec \in AutoTable(c, k, tables[k])
         /\ \A k \in DOMAIN db[c].functions :
              Auto(c, "functions", "tables") /\ AutoSchemas(c, "functions") = {} =>
                \E id \in Own(c) : served[id].spec.key = k /\ served[id].spec.sql \in db[c].functions[k].sqls
=============================================================================
