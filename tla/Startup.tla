------------------------------- MODULE Startup -------------------------------
(***************************************************************************)
(* How Martin finds the tile sources it starts with (config/file/main,     *)
(* file_config.rs, args): the command line or a configuration names files, *)
(* URLs and directories for each kind of source; the kinds are resolved    *)
(* concurrently, with one id resolver; what was found can be saved as the  *)
(* configuration of a later start.                                         *)
(*                                                                         *)
(* A configuration is, for each kind, [named, paths, options]: its sources *)
(* by name, each [file, own] with its own conversion settings; its paths;  *)
(* and whether it has the options that some remote files need.             *)
(***************************************************************************)
EXTENDS Integers, Sequences, FiniteSets

CONSTANTS
  Kinds,
  Names,       \* of sources: sequences, so that a renamed one is a name too
  Rank,        \* [Names -> Nat], their alphabetical order
  Files,       \* the files and URLs: [Files -> [kind, stem, dir, url, needs]]
  Dirs,        \* directories and URL prefixes: [Dirs -> [prefix]]
  Lines,       \* command lines: sequences of paths
  Configs,     \* configurations that may be given
  Types,       \* [Kinds -> conversion settings], or Unset
  Global,      \* conversion settings, or Unset
  CacheConfigs, \* [size, own: [Caches -> size]] in MB, each NotSet or not
  Disks,       \* what may be there at first
  MaxStarts,   \* bound: of the server
  Changing,    \* bound: the changes of files, each <<file, state>>
  MaxChanges   \* bound: how many of them

Unset == "unset"
NotSet == -1
Caches == {"tiles", "pmtiles", "sprites", "fonts"}
Torn == [k \in Kinds |-> [named |-> <<>>, paths |-> <<>>, options |-> FALSE]]
NoIds == [i \in {} |-> 0]

VARIABLES
  disk,     \* [Files -> "absent", "good" or "bad"]
  phase,    \* "off", "resolving", "serving" or "failed"
  asked,    \* of this start: its configuration, and whether an earlier one saved it
  names,    \* the ids that are taken: [a set of ids -> Files]
  work,     \* [Kinds -> how far its resolution is]
  config,   \* the configuration, rewritten by the kinds that are resolved
  served,   \* the sources: a set of [id, file, process]
  caches,   \* [Caches -> MB]
  saved,    \* the configuration that was saved, or none; history: its sources and files
  touched,  \* history: the files that changed during this start
  starts, changes

vars == <<disk, phase, asked, names, work, config, served, caches, saved, touched, starts, changes>>

I == INSTANCE IdResolver WITH
       Uniques <- DOMAIN Files, Sanitised <- [n \in Names |-> n], Reserved <- {},
       MaxIndex <- Cardinality(DOMAIN Files), answers <- {}, poisoned <- FALSE

Idle == [at |-> "done", named |-> {}, paths |-> <<>>, listed |-> {}, opening |-> <<>>,
         files |-> {}, dirs |-> <<>>, configs |-> NoIds, found |-> {}, results |-> {}, warned |-> {}]

NotAsked == [from |-> "given", onInvalid |-> "abort", cache |-> [size |-> NotSet],
             config |-> Torn, served |-> {}, disk |-> NoIds]

Init ==
  /\ disk \in Disks
  /\ phase = "off"
  /\ asked = NotAsked
  /\ names = NoIds
  /\ work = [k \in Kinds |-> Idle]
  /\ config = Torn
  /\ served = {} /\ caches = NoIds
  /\ saved = [exists |-> FALSE, config |-> Torn, cache |-> [size |-> NotSet], served |-> {}, disk |-> NoIds]
  /\ touched = {}
  /\ starts = 0 /\ changes = 0

-----------------------------------------------------------------------------
\* Where the configuration comes from.

IsDir(path) == path \in DOMAIN Dirs
Is(path, k) == path \in DOMAIN Files /\ Files[path].kind = k
Recognized(path) ==
  IF IsDir(path) THEN ~Dirs[path].prefix ELSE Files[path].url \/ disk[path] # "absent"

\* parse_file_args: a kind takes its files, and shares directories.
OfLine(line, k) ==
  [named |-> <<>>, options |-> FALSE,
   paths |-> SelectSeq(line, LAMBDA p : Recognized(p) /\ (IsDir(p) \/ Is(p, k)))]

IsEmpty(c) == \A k \in Kinds : c[k].named = <<>> /\ c[k].paths = <<>>

\* A start: command line and arguments that nobody claims are errors, and so is
\* a configuration without sources.
Start(from, c, cache, recognized) ==
  /\ phase = "off" /\ starts < MaxStarts
  /\ starts' = starts + 1
  /\ \E onInvalid \in {"abort", "warn"} :
       asked' = [from |-> from, onInvalid |-> onInvalid, cache |-> cache, config |-> c,
                 served |-> saved.served, disk |-> saved.disk]
  /\ config' = c
  /\ touched' = {}
  /\ served' = {} /\ caches' = NoIds
  /\ names' = NoIds
  /\ IF ~recognized \/ IsEmpty(c)
     THEN phase' = "failed" /\ work' = [k \in Kinds |-> Idle]
     ELSE /\ phase' = "resolving"
          /\ work' = [k \in Kinds |->
               [Idle EXCEPT !.at = "next", !.named = DOMAIN c[k].named, !.paths = c[k].paths]]
  /\ UNCHANGED <<disk, saved, changes>>

StartLine(line) ==
  Start("given", [k \in Kinds |-> OfLine(line, k)], [size |-> NotSet, own |-> [c \in Caches |-> NotSet]],
        \A i \in DOMAIN line : Recognized(line[i]))
StartGiven(c) == \E cache \in CacheConfigs : Start("given", c, cache, TRUE)
StartSaved == saved.exists /\ Start("saved", saved.config, saved.cache, TRUE)

-----------------------------------------------------------------------------
\* resolve_int, for each kind.

At(k, at) == phase = "resolving" /\ work[k].at = at

Step(k, new) == work' = [work EXCEPT ![k] = new]

Present(f) == Files[f].url \/ disk[f] # "absent"
Opens(k, f) == disk[f] = "good" /\ (Files[f].needs => asked.config[k].options)

With(f, x, y) == [z \in DOMAIN f \cup {x} |-> IF z = x THEN y ELSE f[z]]

\* The id is resolved, and the source is opened under it.
Open(k, w, how, name, file, own) ==
  \E i \in I!Indices :
    LET id == I!Candidate(name, i)
    IN /\ I!First(name, file, i)
       /\ names' = I!Owned(id, file)
       /\ Step(k, [w EXCEPT !.at = "opening",
                            !.opening = [how |-> how, id |-> id, file |-> file],
                            !.files = IF how = "named" THEN @ \cup {file} ELSE @,
                            !.configs = IF how = "listed" THEN @ ELSE With(@, id, [file |-> file, own |-> own])])

\* resolve_one_source_int, up to the opening: a file that is not there is dropped.
NextNamed(k) ==
  /\ At(k, "next") /\ work[k].named # {}
  /\ LET name == CHOOSE n \in work[k].named : \A m \in work[k].named : Rank[n] <= Rank[m]
         source == asked.config[k].named[name]
         w == [work[k] EXCEPT !.named = @ \ {name}]
     IN IF Present(source.file) THEN Open(k, w, "named", name, source.file, source.own)
        ELSE Step(k, [w EXCEPT !.warned = @ \cup {source.file}]) /\ UNCHANGED names
  /\ UNCHANGED <<disk, phase, asked, config, served, caches, saved, touched, starts, changes>>

\* resolve_one_path_int: prefixes are for the reloader, directories are listed.
NextPath(k) ==
  /\ At(k, "next") /\ work[k].named = {} /\ work[k].paths # <<>>
  /\ LET path == Head(work[k].paths)
         w == [work[k] EXCEPT !.paths = Tail(@), !.found = {}]
     IN CASE IsDir(path) ->
               /\ Step(k, [w EXCEPT !.dirs = Append(@, path),
                                    !.at = IF Dirs[path].prefix THEN "next" ELSE "listing",
                                    !.listed = {f \in DOMAIN Files : Is(f, k) /\ Files[f].dir = path /\ Present(f)}])
               /\ UNCHANGED names
          [] ~IsDir(path) /\ Files[path].url -> Open(k, w, "url", Files[path].stem, path, Unset)
          [] OTHER ->
               /\ Step(k, IF Present(path) THEN [w EXCEPT !.at = "listing", !.listed = {path}]
                          ELSE [w EXCEPT !.warned = @ \cup {path}])
               /\ UNCHANGED names
  /\ UNCHANGED <<disk, phase, asked, config, served, caches, saved, touched, starts, changes>>

\* A file of the listing; that one is gone is an error of the whole path.
NextListed(k) ==
  /\ At(k, "listing")
  /\ \E f \in work[k].listed :
       LET w == [work[k] EXCEPT !.listed = @ \ {f}]
       IN CASE ~Present(f) ->
                 /\ Step(k, [w EXCEPT !.at = "next", !.listed = {}, !.found = {}, !.warned = @ \cup {f}])
                 /\ UNCHANGED names
            [] Present(f) /\ f \in w.files -> Step(k, w) /\ UNCHANGED names
            [] OTHER -> Open(k, w, "listed", Files[f].stem, f, Unset)
  /\ UNCHANGED <<disk, phase, asked, config, served, caches, saved, touched, starts, changes>>

EndListing(k) ==
  /\ At(k, "listing") /\ work[k].listed = {}
  /\ Step(k, [work[k] EXCEPT !.at = "next", !.results = @ \cup work[k].found])
  /\ UNCHANGED <<disk, phase, asked, names, config, served, caches, saved, touched, starts, changes>>

\* Mutant: what cannot be opened ends the listing, with all it has found.
EndsAll(w) == [w EXCEPT !.at = "next", !.listed = {}, !.found = {}]

\* A listed file that cannot be opened is left out.
LeavesOut(w) == [w EXCEPT !.at = "listing"]

Opened(k) ==
  /\ At(k, "opening")
  /\ LET w == work[k]
         source == [id |-> w.opening.id, file |-> w.opening.file]
         warned == w.warned \cup {source.file}
     IN Step(k, CASE w.opening.how # "listed" ->
                       IF Opens(k, source.file) THEN [w EXCEPT !.at = "next", !.results = @ \cup {source}]
                       ELSE [w EXCEPT !.at = "next", !.warned = warned]
                  [] w.opening.how = "listed" /\ Opens(k, source.file) ->
                       [w EXCEPT !.at = "listing", !.files = @ \cup {source.file}, !.found = @ \cup {source},
                                 !.configs = With(@, source.id, [file |-> source.file, own |-> Unset])]
                  [] OTHER -> LeavesOut([w EXCEPT !.warned = warned]))
  /\ UNCHANGED <<disk, phase, asked, names, config, served, caches, saved, touched, starts, changes>>

\* The configuration is written anew from what was found.
Rebuilt(k) == [named |-> work[k].configs, paths |-> work[k].dirs, options |-> asked.config[k].options]

EndKind(k) ==
  /\ At(k, "next") /\ work[k].named = {} /\ work[k].paths = <<>>
  /\ Step(k, [work[k] EXCEPT !.at = "done"])
  /\ config' = [config EXCEPT ![k] = Rebuilt(k)]
  /\ UNCHANGED <<disk, phase, asked, names, served, caches, saved, touched, starts, changes>>

-----------------------------------------------------------------------------

\* build_process_config_map, and what a source that is not in it gets.
Process(k, id) ==
  CASE id \notin DOMAIN config[k].named -> Unset
    [] id \in DOMAIN config[k].named /\ config[k].named[id].own # Unset -> config[k].named[id].own
    [] OTHER -> IF Types[k] # Unset THEN Types[k] ELSE Global

\* resolve_cache_config: a share of the whole, or one's own; or of 512 MB.
Share == [tiles |-> 2, pmtiles |-> 4, sprites |-> 8, fonts |-> 8]
CacheSize(cache, c) ==
  IF cache.size = NotSet THEN 512 \div Share[c]
  ELSE IF cache.own[c] # NotSet THEN cache.own[c] ELSE cache.size \div Share[c]

Warned == UNION {work[k].warned : k \in Kinds}

Resolved ==
  /\ phase = "resolving" /\ \A k \in Kinds : At(k, "done")
  /\ IF Warned # {} /\ asked.onInvalid = "abort" THEN phase' = "failed" /\ UNCHANGED <<served, caches>>
     ELSE /\ phase' = "serving"
          /\ caches' = [c \in Caches |-> CacheSize(asked.cache, c)]
          /\ served' = UNION {{[kind |-> k, id |-> s.id, file |-> s.file, process |-> Process(k, s.id)] :
                                 s \in work[k].results} : k \in Kinds}
  /\ UNCHANGED <<disk, asked, names, work, config, saved, touched, starts, changes>>

\* save_to_file; the options of remote files are not written.
Save ==
  /\ phase = "serving"
  /\ saved' = [exists |-> TRUE, config |-> [k \in Kinds |-> [config[k] EXCEPT !.options = FALSE]],
               cache |-> asked.cache, served |-> served, disk |-> IF touched = {} THEN disk ELSE NoIds]
  /\ UNCHANGED <<disk, phase, asked, names, work, config, served, caches, touched, starts, changes>>

\* The file is created, and cannot be written.
SaveFails ==
  /\ phase = "serving"
  /\ saved' = [exists |-> TRUE, config |-> Torn, cache |-> [size |-> NotSet], served |-> {}, disk |-> NoIds]
  /\ phase' = "failed"
  /\ UNCHANGED <<disk, asked, names, work, config, served, caches, touched, starts, changes>>

\* What was saved is left.
Stop ==
  /\ phase \in {"serving", "failed"}
  /\ phase' = "off"
  /\ asked' = NotAsked /\ names' = NoIds /\ work' = [k \in Kinds |-> Idle]
  /\ config' = Torn /\ served' = {} /\ caches' = NoIds /\ touched' = {}
  /\ UNCHANGED <<disk, saved, starts, changes>>

Change(f, state) ==
  /\ changes < MaxChanges /\ disk[f] # state
  /\ disk' = [disk EXCEPT ![f] = state]
  /\ changes' = changes + 1
  /\ touched' = touched \cup {f}
  /\ UNCHANGED <<phase, asked, names, work, config, served, caches, saved, starts>>

Next ==
  \/ \E line \in Lines : StartLine(line)
  \/ \E c \in Configs : StartGiven(c)
  \/ StartSaved \/ Resolved \/ Save \/ SaveFails \/ Stop
  \/ \E k \in Kinds :
       NextNamed(k) \/ NextPath(k) \/ NextListed(k) \/ EndListing(k) \/ Opened(k) \/ EndKind(k)
  \/ \E c \in Changing : Change(c[1], c[2])

Spec == Init /\ [][Next]_vars

-----------------------------------------------------------------------------
\* Properties

Serving == phase = "serving"
Of(k, f) == {s \in served : s.kind = k /\ s.file = f}
NamesOf(k, f) ==
  {n \in DOMAIN asked.config[k].named : asked.config[k].named[n].file = f}
Reached(k) ==
  {f \in DOMAIN Files : Is(f, k) /\
     \/ NamesOf(k, f) # {}
     \/ \E i \in DOMAIN asked.config[k].paths :
          asked.config[k].paths[i] \in {f, Files[f].dir} /\ (Files[f].url => asked.config[k].paths[i] = f)}
Beside(f) == {g \in DOMAIN Files : Files[g].dir = Files[f].dir /\ IsDir(Files[f].dir)}

\* A file is served, once for every name it is given and else once, whatever else
\* names it and whichever of the other files cannot be opened; or there is a
\* warning, which the default does not start with.  Files that change meanwhile
\* are excepted, and those listed with one that is gone.
ServedAsAsked ==
  Serving =>
    /\ Warned # {} => asked.onInvalid = "warn"
    /\ \A k \in Kinds : \A f \in Reached(k) \ touched :
         Beside(f) \cap touched = {} =>
           IF ~Opens(k, f) THEN Of(k, f) = {} /\ (Present(f) => f \in Warned)
           ELSE \/ NamesOf(k, f) = {} /\ Cardinality(Of(k, f)) = 1
                \/ NamesOf(k, f) # {} /\ Cardinality(Of(k, f)) = Cardinality(NamesOf(k, f))
                \/ Of(k, f) # {} /\ Files[f].url

\* The conversion settings a source is given follow it to the id it gets.
SettingsFollow ==
  Serving =>
    \A s \in served :
      s.file \in touched \/ s.process \in {IF own # Unset THEN own ELSE IF Types[s.kind] # Unset THEN Types[s.kind] ELSE Global :
        own \in IF NamesOf(s.kind, s.file) = {} THEN {Unset}
                ELSE {asked.config[s.kind].named[n].own : n \in NamesOf(s.kind, s.file)}}

\* A start from what was saved, in which nothing else has taken an id.
FromSaved ==
  Serving /\ asked.from = "saved"
    /\ \A id \in DOMAIN names : \E k \in Kinds : NamesOf(k, names[id]) # {}

\* Sources get the ids back that they were saved with, in whatever order the kinds
\* are resolved and whatever has happened to other files, unless a file that was
\* not saved has taken an id before.
SavedIdsReturn ==
  FromSaved =>
    \A k \in Kinds : \A n \in DOMAIN asked.config[k].named :
      LET f == asked.config[k].named[n].file
      IN Opens(k, f) /\ f \notin touched => \E s \in Of(k, f) : s.id = n

Without(sources) == {s \in sources : ~Files[s.file].needs}

\* With the same files that start serves what was served when it was saved, with
\* the same settings, but for the remote files that need options.
RestartServesAlike ==
  FromSaved /\ asked.disk = disk /\ touched = {} => Without(served) = Without(asked.served)

\* The caches are as large as they are set to, and without that share the memory
\* they are given together.
CachesAsSet ==
  Serving /\ asked.cache.size # NotSet =>
    LET own == asked.cache.own
    IN /\ \A c \in Caches : own[c] # NotSet => caches[c] = own[c]
       /\ (\A c \in Caches : own[c] = NotSet) =>
            caches["tiles"] + caches["pmtiles"] + caches["sprites"] + caches["fonts"] <= asked.cache.size
=============================================================================
