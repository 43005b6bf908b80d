----------------------------- MODULE PmtilesCache -----------------------------
(***************************************************************************)
(* Reading tiles of PMTiles archives through the directory cache that all  *)
(* of them share (tiles/pmtiles): an entry's key is the id of the reader   *)
(* and the offset of the directory, a reader of a modified archive is      *)
(* replaced by one with an id of its own, and lookups that miss at the     *)
(* same time fetch once.                                                   *)
(*                                                                         *)
(* The archive reader and the store are external: a read of an archive     *)
(* that is not the version the reader opened fails as SourceModified.  A   *)
(* directory holds the offsets of one version of its archive.              *)
(***************************************************************************)
EXTENDS Naturals, FiniteSets

CONSTANTS
  Archives, Requests,
  Offsets,      \* of directories
  MaxVersion,   \* bound: times an archive is written
  MaxReaders    \* bound: reloads

VARIABLES
  version,   \* [Archives -> the version in the store]
  reader,    \* [Archives -> [id, version] of the reader that is served]
  nextId,
  cache,     \* [<<id, offset>> -> the archive and version of the directory]
  fetching,  \* the keys being fetched
  request    \* [Requests -> [at, archive, reader, offset, directory, sent]]

vars == <<version, reader, nextId, cache, fetching, request>>

Nothing == <<>>

Init ==
  /\ version = [a \in Archives |-> 1]
  /\ \E ids \in {f \in [Archives -> 1..Cardinality(Archives)] :
                    \A a, b \in Archives : f[a] = f[b] => a = b} :
       reader = [a \in Archives |-> [id |-> ids[a], version |-> 1]]
  /\ nextId = Cardinality(Archives) + 1
  /\ cache = [k \in {} |-> Nothing]
  /\ fetching = {}
  /\ request = [r \in Requests |->
       [at |-> "new", archive |-> CHOOSE a \in Archives : TRUE, reader |-> [id |-> 0, version |-> 0],
        offset |-> 0, directory |-> Nothing, sent |-> Nothing]]

At(r, at) == request[r].at = at
Key(r) == <<request[r].reader.id, request[r].offset>>
Current(r) == request[r].reader.version = version[request[r].archive]

\* get_tile, with the reader that is served now.
Start(r, a, offset) ==
  /\ request[r].at \in {"new", "done"}
  /\ request' = [request EXCEPT ![r] =
       [at |-> "lookup", archive |-> a, reader |-> reader[a], offset |-> offset,
        directory |-> Nothing, sent |-> Nothing]]
  /\ UNCHANGED <<version, reader, nextId, cache, fetching>>

Goes(r, at, directory) ==
  request' = [request EXCEPT ![r] = [@ EXCEPT !.at = at, !.directory = directory]]

\* get_dir_entry_or_insert: the cached directory, one fetch, or a wait for another's.
Lookup(r) ==
  /\ At(r, "lookup")
  /\ IF Key(r) \in DOMAIN cache
     THEN Goes(r, "data", cache[Key(r)]) /\ UNCHANGED fetching
     ELSE /\ Key(r) \notin fetching
          /\ fetching' = fetching \cup {Key(r)}
          /\ Goes(r, "fetch", Nothing)
  /\ UNCHANGED <<version, reader, nextId, cache>>

\* The fetch succeeds and is cached, or fails, and the next waiter fetches.
Fetch(r) ==
  /\ At(r, "fetch")
  /\ fetching' = fetching \ {Key(r)}
  /\ LET directory == <<request[r].archive, version[request[r].archive]>>
     IN IF Current(r)
        THEN /\ cache' = [k \in DOMAIN cache \cup {Key(r)} |-> IF k = Key(r) THEN directory ELSE cache[k]]
             /\ Goes(r, "data", directory)
        ELSE Goes(r, "error", Nothing) /\ UNCHANGED cache
  /\ UNCHANGED <<version, reader, nextId>>

\* The client is gone, and its fetch with it.
Drop(r) ==
  /\ request[r].at \in {"lookup", "fetch", "data"}
  /\ fetching' = IF At(r, "fetch") THEN fetching \ {Key(r)} ELSE fetching
  /\ Goes(r, "done", Nothing)
  /\ UNCHANGED <<version, reader, nextId, cache>>

\* The data is where the directory says.
ReadData(r) ==
  /\ At(r, "data")
  /\ request' = [request EXCEPT ![r] =
       IF Current(r)
       THEN [@ EXCEPT !.at = "done", !.sent = <<request[r].archive, version[request[r].archive]>>]
       ELSE [@ EXCEPT !.at = "modified"]]
  /\ UNCHANGED <<version, reader, nextId, cache, fetching>>

\* Mutant: a reader of the same archive keeps its id.
SameId(a) == reader[a].id

ForkedId(a) == nextId

\* try_reload
Reload(r) ==
  /\ At(r, "modified") /\ nextId <= MaxReaders
  /\ LET a == request[r].archive
     IN reader' = [reader EXCEPT ![a] = [id |-> ForkedId(a), version |-> version[a]]]
  /\ nextId' = nextId + 1
  /\ Goes(r, "done", Nothing)
  /\ UNCHANGED <<version, cache, fetching>>

\* An error of a directory is an error of the cache, not a modification.
Fail(r) ==
  /\ At(r, "error")
  /\ Goes(r, "done", Nothing)
  /\ UNCHANGED <<version, reader, nextId, cache, fetching>>

\* The archive is written again.
Publish(a) ==
  /\ version[a] < MaxVersion
  /\ version' = [version EXCEPT ![a] = @ + 1]
  /\ UNCHANGED <<reader, nextId, cache, fetching, request>>

\* What expires, or has to make room.
Evict(k) ==
  /\ k \in DOMAIN cache
  /\ cache' = [j \in DOMAIN cache \ {k} |-> cache[j]]
  /\ UNCHANGED <<version, reader, nextId, fetching, request>>

Next ==
  \/ \E r \in Requests :
       \/ \E a \in Archives, offset \in Offsets : Start(r, a, offset)
       \/ Lookup(r) \/ Fetch(r) \/ ReadData(r) \/ Reload(r) \/ Fail(r) \/ Drop(r)
  \/ \E a \in Archives : Publish(a)
  \/ \E k \in DOMAIN cache : Evict(k)

Spec == Init /\ [][Next]_vars

-----------------------------------------------------------------------------
\* Properties

\* The bytes that are sent were found through a directory of the same version of
\* the same archive, whichever readers, reloads and requests share the cache.
DirectoryOfItsData ==
  \A r \in Requests : request[r].sent # Nothing => request[r].directory = request[r].sent

\* A directory is fetched by one request at a time, and nobody waits for a fetch
\* that has ended.
OneFetch ==
  \A k \in fetching : Cardinality({r \in Requests : At(r, "fetch") /\ Key(r) = k}) = 1
=============================================================================
