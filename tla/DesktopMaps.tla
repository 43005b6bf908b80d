----------------------------- MODULE DesktopMaps -----------------------------
(***************************************************************************)
(* The maps folder of the desktop application: the tile server's workers   *)
(* resolve every request against it (tile-server/src/lib.rs), each with a  *)
(* cache of the COGs it has opened that is never emptied, while commands   *)
(* import and delete maps (src-tauri/src/lib.rs) and the generator puts    *)
(* new ones in their place.                                                *)
(*                                                                         *)
(* A path is <<stem, extension>>, a stem <<name, suffix>>.  A file is      *)
(* [version, good]: a COG that cannot be opened, or a file still being     *)
(* copied, is not good.                                                    *)
(***************************************************************************)
EXTENDS Naturals, Sequences, FiniteSets

CONSTANTS
  Stems, Extensions,  \* "mbtiles", "tif", "tiff", and one in capitals
  Tables,             \* stems that are also sources of the PostGIS registry
  Workers, Imports,
  Picked,             \* [Imports -> the path that is imported]
  MaxVersion          \* bound: files made

VARIABLES
  dir,       \* [paths -> [version, good]]
  cogs,      \* [Workers -> [paths -> version opened]]
  answer,    \* the last tile sent: [from: a path, a table or nowhere, version]
  import,    \* [Imports -> [at, dest, version, raced: history]]
  deleting,  \* the paths delete_maps has left
  made       \* the last version

vars == <<dir, cogs, answer, import, deleting, made>>

Paths == Stems \X Extensions
Kinds == <<"mbtiles", "tif", "tiff">>
Table(s) == <<s, "table">>
Nowhere == <<<<"", 0>>, "">>
None == [from |-> Nowhere, version |-> 0]
With(f, k, v) == [x \in DOMAIN f \cup {k} |-> IF x = k THEN v ELSE f[x]]

Init ==
  /\ dir = [p \in {} |-> 0]
  /\ cogs = [w \in Workers |-> [p \in {} |-> 0]]
  /\ answer = None
  /\ import = [i \in Imports |-> [at |-> "new", dest |-> <<>>, version |-> 0, raced |-> FALSE]]
  /\ deleting = <<>>
  /\ made = 0

\* The first of some extensions with which a stem is there, or "".
FirstThere(kinds, s) ==
  LET there == {k \in DOMAIN kinds : <<s, kinds[k]>> \in DOMAIN dir}
  IN IF there = {} THEN "" ELSE kinds[CHOOSE k \in there : \A m \in there : k <= m]

\* The file that stands for a stem has the first extension, in lower case.
Candidate(s) == FirstThere(Kinds, s)

Backing(w, s) == Candidate(s)

\* resolve_tile
Tile(w, s) ==
  /\ IF Backing(w, s) = ""
     THEN /\ answer' = IF s \in Tables THEN [from |-> Table(s), version |-> 0] ELSE None
          /\ UNCHANGED cogs
     ELSE LET p == <<s, Backing(w, s)>>
          IN CASE p[2] = "mbtiles" ->
                    /\ answer' = IF dir[p].good THEN [from |-> p, version |-> dir[p].version] ELSE None
                    /\ UNCHANGED cogs
               [] p[2] # "mbtiles" /\ p \in DOMAIN cogs[w] ->
                    answer' = [from |-> p, version |-> cogs[w][p]] /\ UNCHANGED cogs
               [] p[2] # "mbtiles" /\ p \notin DOMAIN cogs[w] /\ dir[p].good ->
                    /\ answer' = [from |-> p, version |-> dir[p].version]
                    /\ cogs' = [cogs EXCEPT ![w] = With(@, p, dir[p].version)]
               [] OTHER -> answer' = None /\ UNCHANGED cogs
  /\ UNCHANGED <<dir, import, deleting, made>>

\* Mutant: the extensions of COGs first.
CogsFirst(s) == FirstThere(<<"tif", "tiff", "mbtiles">>, s)

\* source_meta
Described(s) == Candidate(s)

\* tilejson: what the description of a source is taken from.
JsonFrom(s) ==
  IF Described(s) # "" /\ dir[<<s, Described(s)>>].good THEN <<s, Described(s)>>
  ELSE IF s \in Tables THEN Table(s) ELSE Nowhere

\* list_sources: extensions in any case, and the tables.
Listed == {p[1] : p \in DOMAIN dir} \cup Tables

-----------------------------------------------------------------------------

\* import_map chooses a path: the name, or the name with the first free suffix.
Renamed(path, n) == IF n = 0 THEN path ELSE <<<<path[1][1], n>>, path[2]>>

\* Mutant: the name as it is.
Overwriting(path) == path

FreePath(path) ==
  LET free == {n \in 0..Cardinality(DOMAIN dir) + 1 : Renamed(path, n) \notin DOMAIN dir}
  IN Renamed(path, CHOOSE n \in free : \A m \in free : n <= m)

ChooseDest(i) ==
  /\ import[i].at = "new"
  /\ LET dest == FreePath(Picked[i])
         rivals == {k \in Imports : import[k].at = "copy" /\ import[k].dest = dest}
     IN import' = [k \in Imports |->
          IF k = i THEN [at |-> "copy", dest |-> dest, version |-> 0, raced |-> rivals # {}]
          ELSE [import[k] EXCEPT !.raced = (@ \/ k \in rivals)]]
  /\ UNCHANGED <<dir, cogs, answer, deleting, made>>

\* fs::copy creates the file, and then fills it.
CreateDest(i) ==
  /\ import[i].at = "copy" /\ made < MaxVersion
  /\ dir' = With(dir, import[i].dest, [version |-> made + 1, good |-> FALSE])
  /\ made' = made + 1
  /\ import' = [import EXCEPT ![i] = [@ EXCEPT !.at = "fill", !.version = made + 1]]
  /\ UNCHANGED <<cogs, answer, deleting>>

FillDest(i) ==
  /\ import[i].at = "fill"
  /\ dir' = IF import[i].dest \in DOMAIN dir /\ dir[import[i].dest].version = import[i].version
            THEN [dir EXCEPT ![import[i].dest].good = TRUE] ELSE dir
  /\ import' = [import EXCEPT ![i].at = "done"]
  /\ UNCHANGED <<cogs, answer, deleting, made>>

\* The generator removes the map of that name and leaves a whole one, or half of one.
Generate(p, good) ==
  /\ made < MaxVersion
  /\ p \in Paths
  /\ dir' = With(dir, p, [version |-> made + 1, good |-> good])
  /\ made' = made + 1
  /\ import' = [k \in Imports |-> [import[k] EXCEPT !.raced = (@ \/ import[k].dest = p)]]
  /\ UNCHANGED <<cogs, answer, deleting>>

\* delete_maps, one path after the other; an error ends it.
AskDelete(paths) ==
  /\ deleting = <<>>
  /\ deleting' = paths
  /\ UNCHANGED <<dir, cogs, answer, import, made>>

DeleteNext ==
  /\ deleting # <<>>
  /\ IF Head(deleting) \in DOMAIN dir
     THEN /\ dir' = [p \in DOMAIN dir \ {Head(deleting)} |-> dir[p]]
          /\ deleting' = Tail(deleting)
     ELSE dir' = dir /\ deleting' = <<>>
  /\ UNCHANGED <<cogs, answer, import, made>>

Next ==
  \/ \E w \in Workers, s \in Stems : Tile(w, s)
  \/ \E i \in Imports : ChooseDest(i) \/ CreateDest(i) \/ FillDest(i)
  \/ \E p \in Paths, good \in BOOLEAN : Generate(p, good)
  \/ \E p, q \in DOMAIN dir : AskDelete(<<p, q>>) \/ AskDelete(<<p>>)
  \/ DeleteNext

Spec == Init /\ [][Next]_vars

-----------------------------------------------------------------------------
\* Properties

\* A description and the tiles of a source come from one file or table, unless the
\* file that stands for it is unreadable; and every source with tiles is listed.
DescribedAsServed ==
  \A s \in Stems, w \in Workers :
    LET from == IF Backing(w, s) # "" THEN <<s, Backing(w, s)>>
                ELSE IF s \in Tables THEN Table(s) ELSE Nowhere
    IN /\ JsonFrom(s) = from \/ (from \in DOMAIN dir /\ ~dir[from].good)
       /\ from # Nowhere => s \in Listed

\* The comment in import_map: "Never overwrite an existing catalog file".  No import
\* does, unless another import or a generation chose its path at the same time.
OverwritesNothing ==
  \A i \in Imports :
    import[i].at = "copy" /\ import'[i].at # "copy" /\ ~import[i].raced
      => import[i].dest \notin DOMAIN dir

\* A map that has been deleted is not served from a worker's cache, and a tile is
\* never of a map older than the one its worker has opened.
ServesWhatIsThere ==
  \A w \in Workers, s \in Stems :
    Tile(w, s) /\ answer'.from \notin {Table(s), Nowhere} =>
      /\ answer'.from \in DOMAIN dir
      /\ answer'.from \in DOMAIN cogs[w] \/ answer'.version = dir[answer'.from].version

\* Both, of every step.
MapsStayTheirOwn == [][OverwritesNothing /\ ServesWhatIsThere]_vars
=============================================================================
