---------------------------- MODULE TileServing ----------------------------
(***************************************************************************)
(* Tile requests against the live catalog and the tile cache, while the    *)
(* reload driver (ReloadDriver, reduced here to the steps of its sink)     *)
(* and other requests replace the sources under them.                      *)
(*                                                                         *)
(* A request clones its source out of the catalog, goes through the cache, *)
(* whose fills are single-flight per key, and, when the source reports     *)
(* that its file was modified, reloads the source, applies the reload to   *)
(* the catalog as an update, and tries once more.  All tasks run on a      *)
(* multi-threaded runtime without a common lock.                           *)
(***************************************************************************)
EXTENDS Naturals, FiniteSets

CONSTANTS
  Requests, Sources,
  Keys,        \* cache keys: source, coordinates, query and format
  SourceOf,    \* [Keys -> Sources]
  Cached,      \* keys within the cache's zoom range; {} without a cache
  MaxVersion,  \* bound: versions written in a run
  Nobody

ASSUME KeysAssumption     == Keys # {}
ASSUME SourceOfAssumption == SourceOf \in [Keys -> Sources]
ASSUME CachedAssumption   == Cached \subseteq Keys
ASSUME VersionAssumption  == MaxVersion \in Nat \ {0}
ASSUME NobodyAssumption   == Nobody \notin Requests

VARIABLES
  detects,  \* [Sources -> BOOLEAN]: whether reading a modified file is an
            \* error (PMTiles) or goes on from the open file (MBTiles)
  file,     \* [Sources -> version on disk], 0 when there is none
  clock,    \* last version written
  catalog,  \* [Sources -> version of the source object], 0 when absent
  cache,    \* [Keys -> version of the cached tile], 0 when absent
  leader,   \* [Keys -> the request computing the tile, or Nobody]
  req,      \* [Requests -> Request]
  step,     \* the driver: "idle" or its next sink step
  target,   \* the source it is applying
  fresh,    \* the version of the source object it has built
  baseline  \* [Sources -> version]: what the driver believes is served

disk   == <<detects, file, clock>>
driver == <<step, target, fresh, baseline>>
vars   == <<detects, file, clock, catalog, cache, leader, req, step, target,
            fresh, baseline>>

Versions == 0..MaxVersion

Request == [pc : {"idle", "lookup", "compute", "fill", "wait", "reload",
                  "invalidate", "swap"},
            key : Keys, src : Versions, tile : Versions, retried : BOOLEAN,
            answer : {"none", "tile", "notfound", "error"}]

TypeOK ==
  /\ detects \in [Sources -> BOOLEAN]
  /\ file \in [Sources -> Versions] /\ clock \in Versions
  /\ catalog \in [Sources -> Versions]
  /\ cache \in [Keys -> Versions]
  /\ leader \in [Keys -> Requests \cup {Nobody}]
  /\ req \in [Requests -> Request]
  /\ step \in {"idle", "invalidate", "insert", "remove", "sweep"}
  /\ target \in Sources /\ fresh \in Versions
  /\ baseline \in [Sources -> Versions]
  /\ \A k \in Keys : leader[k] # Nobody =>
       req[leader[k]].key = k /\ req[leader[k]].pc \in {"compute", "fill"}

Init ==
  /\ detects \in [Sources -> BOOLEAN]
  /\ clock = 1
  /\ file \in [Sources -> {0, 1}]
  /\ catalog = file
  /\ baseline = file
  /\ cache = [k \in Keys |-> 0]
  /\ leader = [k \in Keys |-> Nobody]
  /\ req \in [Requests -> [pc : {"idle"}, key : {CHOOSE k \in Keys : TRUE},
                           src : {0}, tile : {0}, retried : {FALSE},
                           answer : {"none"}]]
  /\ step = "idle"
  /\ target = CHOOSE s \in Sources : TRUE
  /\ fresh = 0

SourceId(r) == SourceOf[req[r].key]

-----------------------------------------------------------------------------
(* The files.                                                              *)

Replace(s) ==
  /\ clock < MaxVersion
  /\ clock' = clock + 1
  /\ file' = [file EXCEPT ![s] = clock + 1]
  /\ UNCHANGED <<detects, catalog, cache, leader, req, driver>>

Delete(s) ==
  /\ file[s] # 0
  /\ file' = [file EXCEPT ![s] = 0]
  /\ UNCHANGED <<detects, clock, catalog, cache, leader, req, driver>>

-----------------------------------------------------------------------------
(* A request: get_source, then fetch_tile_content_with_cache.              *)

Resolve(r, k) ==
  /\ req[r].pc = "idle"
  /\ LET version == catalog[SourceOf[k]] IN
       req' = [req EXCEPT ![r] =
         [pc |-> IF version = 0 THEN "idle" ELSE "lookup", key |-> k,
          src |-> version, tile |-> 0, retried |-> FALSE,
          answer |-> IF version = 0 THEN "notfound" ELSE "none"]]
  /\ UNCHANGED <<disk, catalog, cache, leader, driver>>

Hit(r) ==
  /\ req[r].pc = "lookup"
  /\ req[r].key \in Cached
  /\ cache[req[r].key] # 0
  /\ req' = [req EXCEPT ![r].pc = "idle", ![r].tile = cache[req[r].key],
                        ![r].answer = "tile"]
  /\ UNCHANGED <<disk, catalog, cache, leader, driver>>

\* A miss: the first request computes, later ones for the key wait for it.
Miss(r) ==
  /\ req[r].pc = "lookup"
  /\ req[r].key \in Cached
  /\ cache[req[r].key] = 0
  /\ \/ /\ leader[req[r].key] = Nobody
        /\ leader' = [leader EXCEPT ![req[r].key] = r]
        /\ req' = [req EXCEPT ![r].pc = "compute"]
     \/ /\ leader[req[r].key] # Nobody
        /\ req' = [req EXCEPT ![r].pc = "wait"]
        /\ UNCHANGED leader
  /\ UNCHANGED <<disk, catalog, cache, driver>>

Bypass(r) ==
  /\ req[r].pc = "lookup"
  /\ req[r].key \notin Cached
  /\ req' = [req EXCEPT ![r].pc = "compute"]
  /\ UNCHANGED <<disk, catalog, cache, leader, driver>>

\* The requests that learn the outcome of r's computation, r among them.
Party(r) == {r} \cup {w \in Requests : /\ leader[req[r].key] = r
                                       /\ req[w].pc = "wait"
                                       /\ req[w].key = req[r].key}

Dismissed(r) == [k \in Keys |-> IF leader[k] = r THEN Nobody ELSE leader[k]]

\* Source::get_tile_with_etag returned data.
Read(r) ==
  /\ req[r].pc = "compute"
  /\ \E version \in {req[r].src, file[SourceId(r)]} \ {0} :
       /\ detects[SourceId(r)] => version = file[SourceId(r)] /\ version = req[r].src
       /\ req' = [req EXCEPT ![r].pc = "fill", ![r].tile = version]
  /\ UNCHANGED <<disk, catalog, cache, leader, driver>>

\* It is inserted and handed to everyone waiting for it.
Fill(r) ==
  /\ req[r].pc = "fill"
  /\ cache' = IF req[r].key \in Cached
              THEN [cache EXCEPT ![req[r].key] = req[r].tile] ELSE cache
  /\ req' = [q \in Requests |->
       IF q \in Party(r) THEN [req[q] EXCEPT !.pc = "idle", !.tile = req[r].tile,
                                             !.answer = "tile"]
                         ELSE req[q]]
  /\ leader' = Dismissed(r)
  /\ UNCHANGED <<disk, catalog, driver>>

\* It failed: nothing is cached, and the error is shared.  SourceNeedsReload
\* sends every first attempt to reload; any other error is the answer.
Fail(r) ==
  /\ req[r].pc = "compute"
  /\ detects[SourceId(r)]
  /\ file[SourceId(r)] # req[r].src
  /\ req' = [q \in Requests |->
       IF q \notin Party(r) THEN req[q]
       ELSE IF file[SourceId(r)] # 0 /\ ~req[q].retried
            THEN [req[q] EXCEPT !.pc = "reload"]
            ELSE [req[q] EXCEPT !.pc = "idle", !.answer = "error"]]
  /\ leader' = Dismissed(r)
  /\ UNCHANGED <<disk, catalog, cache, driver>>

\* A mutant: the leadership outlives the request.
CancelLeaking(r) ==
  /\ req[r].pc \in {"compute", "wait", "reload"}
  /\ req' = [req EXCEPT ![r].pc = "idle"]
  /\ UNCHANGED <<disk, catalog, cache, leader, driver>>

\* The client hangs up.  The future of a computation is dropped with the
\* request that runs it, and those waiting start over.
Cancel(r) ==
  /\ req[r].pc \in {"compute", "wait", "reload"}
  /\ req' = [q \in Requests |->
       IF q = r THEN [req[r] EXCEPT !.pc = "idle"]
       ELSE IF q \in Party(r) THEN [req[q] EXCEPT !.pc = "lookup"] ELSE req[q]]
  /\ leader' = Dismissed(r)
  /\ UNCHANGED <<disk, catalog, cache, driver>>

-----------------------------------------------------------------------------
(* A request that was told to reload: reload_source_and_retry_get_tile.    *)

\* A mutant: the retry goes back to the source that asked for the reload.
TryReloadKeeping(r) ==
  /\ req[r].pc = "reload"
  /\ req' = IF file[SourceId(r)] # 0
            THEN [req EXCEPT ![r].pc = "lookup", ![r].retried = TRUE]
            ELSE [req EXCEPT ![r].pc = "idle", ![r].answer = "error"]
  /\ catalog' = [catalog EXCEPT ![SourceId(r)] = file[SourceId(r)]]
  /\ UNCHANGED <<disk, cache, leader, driver>>

TryReload(r) ==
  /\ req[r].pc = "reload"
  /\ req' = IF file[SourceId(r)] # 0
            THEN [req EXCEPT ![r].pc = "invalidate", ![r].src = file[SourceId(r)],
                             ![r].retried = TRUE]
            ELSE [req EXCEPT ![r].pc = "idle", ![r].answer = "error"]
  /\ UNCHANGED <<disk, catalog, cache, leader, driver>>

Without(s) == [k \in Keys |-> IF SourceOf[k] = s THEN 0 ELSE cache[k]]

InvalidateReloaded(r) ==
  /\ req[r].pc = "invalidate"
  /\ cache' = Without(SourceId(r))
  /\ req' = [req EXCEPT ![r].pc = "swap"]
  /\ UNCHANGED <<disk, catalog, leader, driver>>

InsertReloaded(r) ==
  /\ req[r].pc = "swap"
  /\ catalog' = [catalog EXCEPT ![SourceId(r)] = req[r].src]
  /\ req' = [req EXCEPT ![r].pc = "lookup"]
  /\ UNCHANGED <<disk, cache, leader, driver>>

-----------------------------------------------------------------------------
(* The reload driver: what its discovery finds changed, then the steps of  *)
(* apply_changes.                                                          *)

Discover(s) ==
  /\ step = "idle"
  /\ file[s] # baseline[s]
  /\ target' = s
  /\ fresh' = file[s]
  /\ step' = IF file[s] = 0 THEN "remove"
             ELSE IF baseline[s] = 0 THEN "insert" ELSE "invalidate"
  /\ UNCHANGED <<disk, catalog, cache, leader, req, baseline>>

\* Mutants: an update that forgets the cache, and one that removes the source
\* before it inserts it again.
InvalidateNothing ==
  /\ step = "invalidate"
  /\ step' = "insert"
  /\ UNCHANGED <<disk, catalog, cache, leader, req, target, fresh, baseline>>

RemoveThenInsert ==
  /\ step = "invalidate"
  /\ cache' = Without(target)
  /\ catalog' = [catalog EXCEPT ![target] = 0]
  /\ step' = "insert"
  /\ UNCHANGED <<disk, leader, req, target, fresh, baseline>>

InvalidateUpdated ==
  /\ step = "invalidate"
  /\ cache' = Without(target)
  /\ step' = "insert"
  /\ UNCHANGED <<disk, catalog, leader, req, target, fresh, baseline>>

Insert ==
  /\ step = "insert"
  /\ catalog' = [catalog EXCEPT ![target] = fresh]
  /\ baseline' = [baseline EXCEPT ![target] = fresh]
  /\ step' = "idle"
  /\ UNCHANGED <<disk, cache, leader, req, target, fresh>>

RemoveSource ==
  /\ step = "remove"
  /\ catalog' = [catalog EXCEPT ![target] = 0]
  /\ step' = "sweep"
  /\ UNCHANGED <<disk, cache, leader, req, target, fresh, baseline>>

InvalidateRemoved ==
  /\ step = "sweep"
  /\ cache' = Without(target)
  /\ baseline' = [baseline EXCEPT ![target] = 0]
  /\ step' = "idle"
  /\ UNCHANGED <<disk, catalog, leader, req, target, fresh>>

\* Expiry or eviction, at any time.
Evict(k) ==
  /\ cache[k] # 0
  /\ cache' = [cache EXCEPT ![k] = 0]
  /\ UNCHANGED <<disk, catalog, leader, req, driver>>

-----------------------------------------------------------------------------
Serve(r) == Hit(r) \/ Miss(r) \/ Bypass(r) \/ Read(r) \/ Fill(r) \/ Fail(r)
            \/ TryReload(r) \/ InvalidateReloaded(r) \/ InsertReloaded(r)

Reconcile == \/ \E s \in Sources : Discover(s)
             \/ InvalidateUpdated \/ Insert \/ RemoveSource \/ InvalidateRemoved

Next ==
  \/ \E s \in Sources : Replace(s) \/ Delete(s)
  \/ \E r \in Requests : Serve(r) \/ Cancel(r) \/ \E k \in Keys : Resolve(r, k)
  \/ \E k \in Keys : Evict(k)
  \/ Reconcile

Spec == Init /\ [][Next]_vars

\* The runtime polls every task that can make progress.
Fairness == \A r \in Requests : WF_vars(Serve(r))
-----------------------------------------------------------------------------
(* Properties.                                                             *)

\* An update never takes its source out of the catalog, not for a moment: a
\* source the driver keeps is only missing while it is being removed.
ServedWhileTracked ==
  \A s \in Sources :
    catalog[s] = 0 => baseline[s] = 0 \/ (target = s /\ step = "sweep")

\* Only the reload driver of a source decides that it exists: what is served
\* is in the driver's baseline ("each reloader manages a mutually exclusive
\* set of sources", tile_source_manager.rs), when no request reloads it.
TrackedWhileServed ==
  \A s \in Sources : ~detects[s] /\ catalog[s] # 0 => baseline[s] # 0

\* The catalog and the baselines of the drivers name the same sources.
ServedIffTracked == ServedWhileTracked /\ TrackedWhileServed

Stale(k) == cache[k] # 0 /\ cache[k] < catalog[SourceOf[k]]

\* Once every request is answered and every change of the files is applied,
\* no tile of a replaced version is left in the cache ("the source is reloaded
\* and its tile cache is invalidated", sources-files.md).
CacheCoherentAtRest ==
  /\ step = "idle" /\ baseline = file
  /\ \A r \in Requests : req[r].pc = "idle"
  => \A k \in Keys : ~Stale(k)

\* If clients stop hanging up, every request is answered: no waiter is left
\* behind by the computation it joined, whether that succeeds, fails, asks for
\* a reload or is dropped, and there is one retry only (under Fairness).
EveryRequestAnswered ==
  <>[][\A r \in Requests : ~Cancel(r)]_vars
    => \A r \in Requests : req[r].pc # "idle" ~> req[r].pc = "idle"
=============================================================================
