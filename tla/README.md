# Martin: a TLA+ development

Martin serves map tiles from PostgreSQL, MBTiles, PMTiles, COG and other
sources. Around the server are tools that write the files it serves
(`mbtiles`, `martin-cp`, `martin-tiler`), a studio that runs them as jobs, and a
desktop application with a PostGIS of its own. This directory models the parts
whose correctness depends on order, failure and concurrency, and the pure rules
that decide what is served. TLC checks each module on a small instance; TLAPS
proves the results listed below for every value of the constants.

`PROJECT.json` has the machine-readable side: the components, the runs, the lines
that each definition translates (`map`), the hazards with the properties that
cover them, a mutant for every property (a plausible bug that the property
catches), and the findings.

Contents: [the system](#the-system) · [modules](#modules) ·
[runs](#runs-what-they-check-and-what-they-show) · [proofs](#proofs) ·
[findings](#findings) · [exceptions](#where-the-code-does-less-than-one-might-expect) ·
[not modelled](#what-is-not-modelled) · [what is left](#what-is-left)

## The system

| Component (source) | State | Operations | What is hard | What makes it correct |
|---|---|---|---|---|
| Reload driver (`martin/src/config/file/tiles/{discovery,driver,reload}`, `reload.rs`, `tile_source_manager.rs`) | baseline (id → version), event channel, catalog | wait for a trigger, discover, diff, build, apply, commit | files change between all of these; listings and builds fail; the channel overflows | baseline and catalog agree; no change is lost; nothing is dropped by an outage; it converges |
| Tile serving (`srv/tiles/content.rs`, `martin-core/src/cache.rs`, `tile_source_manager.rs`, `source.rs`) | catalog (DashMap), tile cache with single-flight fills, requests | resolve, look up, compute, fill, reload and retry; invalidate and swap | no lock spans invalidate and insert; a fill may finish after them; a waiter joins a computation that is dropped | an update has no gap; stale tiles only by overlap; every request is answered |
| Tile responses (`srv/tiles/content.rs`, `srv/tiles/process`, `martin-tile-utils`) | the cached tiles of one client's requests | negotiate, fetch, convert, merge, encode, ETag | conversion happens in the cache-miss path only; concatenated compressed streams; empty tiles | what is sent is what it is labelled as, and what was asked for |
| Id resolver (`config/primitives/id_resolver.rs`) | id → unique name, under a mutex | resolve | literal `a.1` against the renaming of `a`; overflow while the mutex is held | ids are unique, stable, and never reserved |
| Start-up and configuration (`config/file`, `config/args`) | the configuration, what was resolved, the saved file | take a command line or a file, resolve every kind concurrently, save, start again | unreadable and vanishing files; ids given in any order; settings in three places | what was asked for is served; the saved file says the same |
| PostgreSQL sources (`config/file/tiles/postgres`, `tiles/discovery/postgres.rs`) | per connection: what is published, its fingerprints | discover, publish, match configured tables, reload | tables and functions come, go and change between two discoveries | published as declared, once, under ids that stay |
| MBTiles source (`martin-core/src/tiles/mbtiles`, `mbtiles/src/{pool,metadata,queries,validation}.rs`) | the file, what was detected from it | create the schema, detect, read | a writer killed between two statements; metadata that is wrong | tiles are served as they were written |
| PMTiles directory cache (`martin-core/src/tiles/pmtiles`) | one cache for all sources, keyed by reader and offset | look up, fill, fork on reload, invalidate | readers of several versions share the cache | a directory belongs to the archive that asked for it |
| COG source (`martin-core/src/tiles/cog`) | the images of a file | open, zoom and origin of each image, tile | images off the grid, cut short, sparse | every pixel where it belongs, labelled as its codec |
| Passthrough source (`martin-core/src/tiles/passthrough`) | templates, format | read a TileJSON document, pick a server, pass on | headers, bytes and declared format disagree | an answer is passed on as what it is |
| Fonts, sprites, styles (`martin-core/src/resources`, `config/file/resources`, `srv/{fonts,sprites,styles}`) | catalogs, sprite cache | discover, glyph ranges, sheets, images | single flight over several forms of one sheet; limits | the first path wins; a sheet has all and only what was asked for |
| Render pool (`martin-core/src/resources/styles/render_pool.rs`) | workers, queue, answers | render, give up, lose a worker, shut down | requests behind a panic or a style that fails | the right style and size; every request ends |
| Routes, redirects, TileJSON (`srv/{server,tiles}`, `srv/tiles/metadata.rs`) | — | match in order of registration, redirect, build URLs | prefixes and proxies in every combination | every address given out arrives |
| `mbtiles` copy, diff, patch (`mbtiles/src/{copier,patcher,validation,queries}.rs`) | tables and metadata of the files | copy, diff, `copy --apply-patch`, `apply-patch`, `validate --agg-hash update` | a command is a list of statements in no common transaction, over three schemas | hashes tell the truth; a patch leads from the one file to the other; it can be resumed |
| Binary diff, transcoder (`mbtiles/src/{bindiff,transcoder}.rs`) | bounded channels, a flag, transactions | read, process in parallel, write | a task fails while others wait on its channel | no row or error is lost; it ends |
| `martin-cp` (`martin/src/bin/martin-cp.rs`), pack and unpack (`mbtiles/src/pack.rs`) | in-flight fetches, batch, destination | fetch, batch, insert, finish | a failure with tiles in flight; what an earlier run left | success means a complete, consistent file |
| `martin-tiler` (`martin-tiler/src`) | work directory, outputs, a GDAL process | stages of tools; two pipes of output | two runs of one name; a tool that blocks on a pipe | success means the map of its inputs; a run returns |
| Studio (`martin/src/srv/studio.rs`) | jobs, logs, uploads | upload, start, poll | two uploads pick one destination | an upload is never two; a job's status is true |
| Desktop application (`map-tile-studio`) | connections and registry; bundled cluster; background service; maps folder | edit, refresh, start, stop, install, import, delete | two processes and a timer do these at once, either may be killed | what is shown is what is; nothing of another owner is touched |
| DuckDB, web UIs, logging | — | — | — | not modelled, see [below](#what-is-not-modelled) |

How they interact. Start-up resolves the sources through the id
resolver and fills the catalog; one reload driver per kind of source then keeps
it up to date, asking the same resolver for ids on every scan. Requests
are routed, clone their sources out of the catalog, read through the tile cache,
and, when a source reports that its file was modified, reload it: a second writer
of catalog and cache beside the driver. Responses are made from what requests
fetch. The `mbtiles` tool, `martin-cp`, `martin-tiler` and the applications write
the files that drivers watch and sources read.

## Modules

| Module | Models | Correspondence |
|---|---|---|
| `ReloadDriver` | one driver's task, its environment and the watcher callback | `pc` is where `ReloadDriver::spawn`'s loop is: `boot`/`idle` (trigger), `scan` (one action per location, `discover`), `build` (one per initializer), `apply` (one per source, in the sink's order updates, additions, removals), then the commit of the baseline. The environment writes, removes and reads files between any two. `kind` is the configuration of one of the drivers the code starts |
| `CatalogSync` | abstract: a source only changes to a state its file has been in since the source last changed | — |
| `ReloadDriverSync` | `ReloadDriver` with the history variable `held`, and the refinement mapping to `CatalogSync` | — |
| `TileServing` | requests, the catalog, the cache with its leaders and waiters, the steps of the sink, and the reload a request performs | one action per await point of `get_tile_content_from_one_source`, `get_or_insert`, `reload_source_and_retry_get_tile` and `apply_changes`; `Cancel` drops a request's future; `leader` is moka's single flight (external) |
| `TileServingHistory` | `TileServing` with two history variables | `overlap`, `reloaded` |
| `TileResponse` | headers to response | `Receive` (`get_tile`, `DynTileSource::new`), `Fetch` per source, `Merge`, `Recompress`, `Respond`. A tile is its layers and the codec they are really wrapped in, beside the encoding it claims |
| `IdResolver` | `resolve` under its mutex | an id is a sequence, so `<<"a", 1>>` is both a literal `a.1` and a renaming |
| `Startup` | from the command line or a configuration to the served sources, the saved file and the next start | one action per step of a kind's resolution, which interleave with those of other kinds and with files that appear or go |
| `PgSources` | two connections under discovery | a start resolves all of them; each reload is one action here, its last part being `ReloadDriver`'s |
| `TileKinds` | what a tile's bytes are taken for | operators, shared by the sources |
| `MbtilesSource` | a file from `init_mbtiles_schema`, a statement per action and killed between any two, to the tiles that are served | `Open` detects type, format, encoding and zooms as `metadata.rs` and `validation.rs` do |
| `PmtilesCache` | readers, the shared cache and archives that are replaced | an entry's key is `<<reader id, offset>>`; `fetching` is the single flight |
| `Cog` | what is refused, and where the chunks of each image lie | operators over one file and one request |
| `Upstream` | an upstream's document and answers | one action per choice the code makes from them |
| `Assets` | discovery and requests of fonts, sprites and styles | discovery in the order of the configuration, one input per action; sheets through their cache |
| `Routes` | the routing table, redirects and TileJSON | the client follows a redirect as the proxy lets it |
| `MbtilesFile` | a file: rows, images, title, the three hash values, binary patches; views, inserts, hashes | hashes are injective functions of what they hash; `dedup-id` files carry integers instead |
| `MbtilesTool` | the commands, one SQL statement per action | `job.todo` lists the statements left; `Crash` or a failing statement may end the job after any of them. `standing` is a history of how each file was left |
| `BinDiff` | query task, processors, caller | one action per channel operation, flag access or transaction statement; a channel is a set because neither the query nor the processors have an order |
| `Transcode` | reader, compute stage, writer; normalized and flat sources | one action per batch that is read, computed or flushed |
| `BulkCopy` | `martin-cp` over a file that earlier runs may have left | boxes to rectangles that do not overlap, and to tiles; fetches in flight, the channel, the batch, the zoom update and the hash; a failure of any |
| `TileTree` | `pack` and `unpack` | tiles in any order, batches, the first wrong one ends the command |
| `Tiler` | two runs of `generate` | one action per tool; the work directory and outputs are paths both runs may share |
| `ToolRun` | `run_streaming` | a tool, two pipes, two reader tasks, the caller |
| `RenderPool` | queue, workers, clients | one action per receive, load, render, answer; panics and shutdown |
| `StudioJobs` | uploads and jobs | one action where a handler awaits or spawns |
| `PgRegistry` | `connections.json`, registry, commands, refreshes | a refresh reads the config, then takes one connection and one table a step, then publishes pools, sources and states in three actions |
| `PgEmbed` | the bundled cluster started by the application and the service | one action per check or command on the data directory, lock and port |
| `TileService` | the background service, on Linux and Windows | install, enable, start, stop, the port shown and the port bound |
| `DesktopMaps` | the maps folder | imports in steps, deletions, workers with their COG caches |
| `MC*` | the instances | constants, symmetry, scenes |
| `*Proofs` | theorems | extend the module they are about, or the instance of the run (`AppsProofs`, `ServerProofs`, `PipelinesProofs`) |

`TileServing` reduces the driver to the steps of its sink, which is the part that
meets the requests; `ReloadDriver` has the whole driver and no requests. What the
driver guarantees (`CatalogSync`) is what `TileServing` assumes of it: a source is
replaced by a version its file has. `MbtilesTool`, `BulkCopy` and `Transcode` work
on one definition of a file (`MbtilesFile`), and `MbtilesSource` and `Upstream`
sniff tiles alike (`TileKinds`).

## Runs: what they check and what they show

| Run | Instance | Properties |
|---|---|---|
| `Drivers` | `MCReloadDriver`: 2 sources in 2 locations, all kinds of driver, 3 versions, a channel of 1, 1 error | `TypeOK`, `BaselineKept`, `ServedIsTracked`, `ChangePending`, `NoFlap`, `FilesFollowed` |
| `Watched` | `MCReloadDriverSync`: the kinds that a failed location fails as a whole, same bounds | `CatalogFollowsFiles`: the driver implements `CatalogSync` |
| `Serving` | `MCTileServingHistory`: 2 requests, 1 source, a cached and an uncached key, 3 versions | `TypeOK`, `ServedIffTracked`, `StaleOnlyByOverlap`, `EveryRequestAnswered`, `RetryUsesReloadedSource` |
| `Server` | `MCServer`, ten scenes: ids, responses, cog, pmtiles, mbtiles, upstream, start, databases, assets, routes | `TypeOK` and one `…Right` for each question, see below |
| `Patching` | `MCMbtilesTool`: 2 files of any content over 2 coordinates and 2 tiles, 2 new files, 3 commands | `TypeOK`, `HashesTrue`, `PatchedSafely`, `TitlesFollow`, `CopyFollowsMode` |
| `Pipelines` | `MCPipelines`, six scenes: bindiff, transcode, copy, tree, tiler, render | `TypeOK`, `NothingLost`, `EachRowOnce`, `FilesFaithful`, `RendersItsStyle`, `GeneratedWhole`, `PipelinesEnd` |
| `Apps` | `MCApps`, six scenes: studio, tool, registry, embed, service, maps | `JobsRight`, `RegistryRight`, `ServicesRight`, `DescribedAsServed`, `MapsStayTheirOwn`, `AppsSettle` |
| `SeedRace`, `PrefixOutage`, `StaleTile`, `CopiedPatch`, `AbortedCopy` | small | one refuted statement each, see [findings](#findings) |

A *scene* is one component on its own: `scene` is chosen at first and never changes,
`Init` and `Next` are those of the component's module, and the variables the scene
does not use keep one value. The union of scenes is checked in one run, and a
property of the run is the conjunction of those of the modules; each is stated and
explained in its module. In `MCServer` the scenes take turns with the same twelve
variables, through `INSTANCE ... WITH`.

**Drivers.** `BaselineKept`: between reconciles the baseline records no readable
file as current that the catalog does not serve, wherever a failed apply stopped.
`ServedIsTracked`: whatever is served can still be removed. `ChangePending`: an
event dropped because the channel is full never loses a change, because the event
that fills it is still to be handled. `NoFlap`: no source goes because its
location could not be listed. `FilesFollowed` (`EveryReadableFileServed`,
`EveryRemovedFileUnserved`): a polled prefix converges once files stop changing.

**Serving.** `ServedIffTracked`: an update leaves no moment without a source, and
the catalog holds nothing its driver does not know of.
`StaleOnlyByOverlap`: a cached tile older than its source means that a request was
in flight when the source was updated, and nothing else does.
`RetryUsesReloadedSource`: a request that reloaded does not fail on the file it
reloaded. `EveryRequestAnswered`: waiters are answered when their leader succeeds,
fails, reloads or is dropped.

**Server.**
- `IdsRight`: ids have one owner, the same question gets the same answer, and
  reserved words are never handed out.
- `SentRight`: layers, format and encoding of what is sent agree with each other and
  with what was asked (`SentAsLabelled`, `FormatIsAccepted`), although conversion
  happens only on a cache miss. `ClientsRight`: 304 means that the client's copy has
  those layers in that format (`NotModifiedIsHeld`); a composite of compatible
  sources is not refused (`CompatibleAreMerged`).
- `FilesRight`: the chunk of a COG that is sent lies where the tile does, up to what
  the file is off the grid (`TilesInPlace`), its pixels are in their places and the
  rest is blank (`PixelsInPlace`), and its label is what it is (`LabelledAlike`); what
  `martin-cp` wrote into an MBTiles file, killed and run again included, comes out of
  it under its own label, or the file is refused (`FilesServedAsWritten`).
- `RemotesRight`: a directory in use is of the version and archive it is used for
  (`DirectoryOfItsData`), fetched by one at a time (`OneFetch`); an upstream's tile
  arrives with its own format and encoding (`UpstreamPassedOn`).
- `StartsRight`: a file is served once for every name it is given and else once,
  whatever becomes of other files (`ServedAsAsked`); a source's conversion settings
  follow it to the id it gets (`SettingsFollow`); saved ids come back, and a restart
  from what was saved serves the same (`SavedIdsReturn`, `RestartServesAlike`); caches
  are as large as they are set to (`CachesAsSet`).
- `DatabasesRight`: after a reload that nothing overlapped, each configured table is
  served as configured, once for every name, each of the others once if they are
  published by themselves, and nothing else (`PublishedAsDeclared`).
- `AssetsRight`: a font comes from the first path that has it (`FontsOfFirstPath`); a
  sheet is the form, kind and size that was asked for, with all the pictures its
  sources listed, though requests share its computation and the cache
  (`SheetAsAsked`); a static image covers its box (`BoxInImage`).
- `RoutesRight`: a request for a tile ends with that tile and its query, after one
  redirect at most and behind every proxy (`TilesReached`); the TileJSON of several
  sources covers each (`DocumentCovers`).

**Patching.** `HashesTrue`: the aggregate hash in a file whose last command
succeeded is the hash of its tiles (`AggHashTrue`; `apply_patch` never computes it,
so this says that a patch leads from its `before` to its `after`, across schemas and
retries), and per-tile validation would succeed (`TilesHashed`).
`PatchedSafely`: wherever `apply_patch` dies it can be run again (`Resumable`), and
a reader meanwhile sees old or new tiles, never others (`ReadsOldOrNew`).
`TitlesFollow`: metadata is diffed and patched to what it was, NULL standing for
deletion. `CopyFollowsMode`: override and ignore, between schemas.

**Pipelines.** `NothingLost`: `Ok` means every row is stored, unless the query
failed. `EachRowOnce`: no row is ever in two places. `FilesFaithful`: transcoding
puts every tile whose transformation succeeded into the destination, under the
hash of its new contents, between any two schemas (`TranscodedFaithfully`);
`martin-cp` puts every tile of its boxes there as `--on-duplicate` says, whatever
earlier copies left, and zooms that enclose them (`CopiedFaithfully`,
`ZoomsEnclose`); a packed tree unpacks to what it was (`RoundTrips`).
`RendersItsStyle`: an image has the style and size that was asked for.
`GeneratedWhole`: when a run of the tiler reports success and no other run of its
name overlapped it, or replaced one of its rasters, its outputs have the tiles of its
own rasters, all and no others, and its COG is made of them. `PipelinesEnd`: whatever fails, nobody waits for ever.

**Apps.** `JobsRight`: a file answered as created holds its upload and nothing else,
and a job reads it whole (`UploadsWhole`); what a client polls is true of the job
(`JobToldRight`); the lines of a pipe are reported in their order, and all of them
(`LinesReported`). `RegistryRight`: a refresh that nothing overlapped shows what
there is, and what a command saved stays saved (`RefreshShowsAll`, `EditsKept`).
`ServicesRight`: only the application's own server is ever changed, and it runs with
its configuration (`ForeignUntouched`, `ClusterWhole`); the port shown is the port
the service has (`ShownPortServes`). `DescribedAsServed`: a description and the tiles
of a map come from one file. `MapsStayTheirOwn`: an import overwrites nothing, and a
deleted map is not served from a worker's cache (`OverwritesNothing`,
`ServesWhatIsThere`). `AppsSettle`: tools return, however refreshes overlapped the
registry catches up, callers that keep trying bring the cluster up, the service
comes to serve. Each property names the races it excepts (see
[below](#where-the-code-does-less-than-one-might-expect)): they are races the code
has.

### Bounds and why they suffice

- *Drivers*: two sources in two locations tell "this source" from "the others" and
  a failed location from a listed one. Three versions let a file change before,
  during and after a scan; one transient error can fall on any listing or build; a
  channel of one is full as soon as anything is queued. (Code: 256.)
- *Serving*: two requests are a leader and a waiter, or a reloader and a victim;
  three versions let a file change between a read and its reload, and once more.
  Requests are symmetric; versions are bounded by `MaxVersion`, a bound on
  writes. A request starts over when it was answered, so there are arbitrarily
  many of them. `TileServingProofs` has no bound.
- *Server*: `MaxIndex = 3` stands for `i32::MAX`, so that the overflow of ids
  happens. Two requests of one client find each other's conversion in the cache and
  revalidate. The COGs lie on the grid, half a tile and one and a half off it, with
  masks, sparse chunks, cut images, gaps and each codec. Two archives with
  two versions and three readers make entries of an old reader meet those of its
  successor and of the other archive. MBTiles files come from two runs of
  `martin-cp` of which each may be killed, or from other programs with wrong
  metadata. Of the start, one configuration has two kinds that want the same ids,
  a directory, a prefix and a URL, on files of which one is bad, comes or goes;
  start, save, start. Of the databases, two settings and three contents have tables
  of one name in two schemas, configured in another case, by formats, or not at
  all. Eight deployments are each way to combine `route_prefix`, `base_path`
  and the headers that fits a proxy.
- *Patching*: two coordinates and two tiles give tiles that are added, changed,
  deleted and shared. Three commands are a diff, a patch that dies and a patch, or
  a copy, a diff and a patch. `MaxCopies = 1` keeps copies of patches out of this
  run, since those break `AggHashTrue` (`CopiedPatch`). Coordinates, tiles and the
  names of new files are symmetric.
- *Pipelines*: a channel of one blocks everyone who can be blocked; of two
  processors one fails while the other delivers or waits; four rows with
  transactions of two fill two transactions, and leave one row to send and one in
  the channel when both processors have stopped. (Code: CPU count, three times
  that, 100.) Three tiles in batches of two leave a partial batch. Two runs of
  `martin-cp` are a failed one and its repetition, over overlapping boxes and two zooms.
  Two runs of the tiler share a name, or do not, and one may read the COG that the
  other, or it itself, makes. Three requests over two workers
  with a queue of two are every mixture of rendering, waiting and being turned away.
- *Apps*: two uploads collide, two callers or commands race each other and the
  timer. Two kinds of faults are in the registry's instance as changes (a database
  that comes up, tables that go); a database that goes away again is left out
  there (`MaxFaults = 0`). One of three connections is not enabled; two have a table of
  one name, which a map file has too. Pipes hold one line of scripts of four or five.

Other bound constants (`MaxErrors`, `MaxRequests`, `MaxCommands`, `MaxRuns`,
`MaxStarts`, `MaxChanges`, `MaxEdits`, `MaxPanics`, `MaxKills`, `MaxStops`, `MaxEvents`,
`MaxAsked`, `MaxRows`, `MaxJobs`, `MaxLines`, `MaxReaders`) are each a guard of the actions that
count them, and only of those.

### Fairness

No specification obliges anything to fail, change, be asked for or be cancelled;
failures are choices inside steps or actions without fairness. Weak fairness is
assumed of what a scheduler keeps running:

- `ReloadDriver`: `Progress`, the driver's own steps: tokio polls its task, and an
  interval always elapses. Liveness is only claimed for drivers that poll: nothing
  obliges a watched directory to send another event after a failure.
- `TileServing`: each request's `Serve`, a future that its connection polls. Clients
  may hang up for ever, so the property assumes that they stop.
- `BinDiff`: the query, the caller and each processor, which are separate tasks.
- `Transcode`, `BulkCopy`, `RenderPool`: `Progress`, the disjunction of their tasks'
  or threads' steps: some of them that can go on does. This is weaker than
  fairness of each, and enough because every step uses up a bounded supply.
- `ToolRun`: `Next`: the tool is a process and the readers are tasks.
- `PgRegistry`: each refresher's `Refresh` (the timer's thread never ends) and each
  command's `Run` once it has been given.
- `PgEmbed`: each caller's `Step`: the application and the service retry in loops.
- `TileService`: `Progress`: the service manager starts what is enabled, and the
  service retries to bind.

### Deadlock

`CHECK_DEADLOCK FALSE` is set where the program really may stop: a driver that
waits for events (`Drivers`, `Watched`), a client, tool or operator that has
done all it was going to do (`Server`, `Patching`, `CopiedPatch`, `Apps`), a pipeline
that has ended (`Pipelines`, `AbortedCopy`). `Serving`, `SeedRace`, `PrefixOutage` and
`StaleTile` check it. In the pipelines, where a deadlock is a hazard, `PipelinesEnd`
rules it out.

## Proofs

Checked by TLAPS with no assumption but the `ASSUME`s of the modules (a set is not
empty, a marker is none of the values, a capacity is a natural number), and the
hypotheses a theorem names.

| Theorem | States |
|---|---|
| `ReloadDriverProofs!TypeCorrect` | `Spec => []TypeOK`, with the bound of the channel |
| `ReloadDriverProofs!Tracked` | `Spec => []ServedIsTracked` |
| `ReloadDriverProofs!BaselineServed` | `Spec => []BaselineKept` |
| `ReloadDriverProofs!NoChangeLost` | `Spec => []ChangePending`, if every notify-triggered kind seeds its baseline with a scan of its own (`StartupResolved`) |
| `ReloadDriverProofs!NoFlapping` | `Spec => NoFlap` |
| `ReloadDriverProofs!DriverImplementsSync` | when no kind skips a failed location, the driver implements `CatalogSync` |
| `TileServingProofs!TypeCorrect` | `Spec => []TypeOK` |
| `TileServingProofs!CatalogIsTracked` | `Spec => []ServedIffTracked` |
| `TileServingProofs!OnlyOverlapIsStale` | `HistorySpec => []StaleOnlyByOverlap` |
| `TileServingProofs!RetriesReadTheReloaded` | `HistorySpec => RetryUsesReloadedSource` |
| `ServerProofs!UniqueIds`, `StableIds`, `NoReservedIds`, `IdsAreRight` | `Spec => []` each, of `IdResolver`; `TypeCorrect` |
| `MbtilesToolProofs!PatchUndoesDiff` | `copy --apply-patch` of a file with the patch made for it has the tiles the patch was made from |
| `MbtilesToolProofs!ApplyUndoesDiff` | so has `apply-patch` |
| `MbtilesToolProofs!TitlesAreFollowed` | `Spec => []TitlesFollow` |
| `MbtilesToolProofs!TypeCorrect` | `Spec => []TypeOK`, if the files there at first are of their types |
| `MbtilesToolProofs!HashesAreTrue` | `Spec /\ [][Careful]_vars => []HashesTrue`, if the files there at first are sound |
| `MbtilesToolProofs!PatchesAreSafe` | so does `[]PatchedSafely` |
| `MbtilesToolProofs!CopiesFollowTheMode` | so does `CopyFollowsMode` |
| `TranscodeProofs!TranscodesFaithfully` | `Init /\ [][Next]_vars => []TranscodedFaithfully`, for any transformation, batches and cache |
| `BulkCopyProofs!CopiesAreFaithful` | `Init /\ [][Next]_vars => [](CopiedFaithfully /\ ZoomsEnclose)`, for any boxes and zoom levels |
| `PipelinesProofs!NothingIsLost` | `AllSpec => []NothingLost`, for any number of rows and processors |
| `PipelinesProofs!RowsAreHandledOnce` | `AllSpec => []EachRowOnce`; `TypeCorrect` |
| `PipelinesProofs!RendersRight` | `AllSpec => []RendersItsStyle` |
| `PipelinesProofs!MapsAreWhole` | `AllSpec => GeneratedWhole` |
| `PipelinesProofs!FilesAreFaithful` | `AllSpec => []FilesFaithful` |
| `ServerProofs!OwnDirectoryServed` | `Spec => []DirectoryOfItsData` of `PmtilesCache`, for any finite set of archives |
| `ServerProofs!RemotesArePassedOn` | `AllSpec => []RemotesRight` |
| `ServerProofs!ResponsesAreAsLabelled` | `AllSpec => []SentRight` |
| `ServerProofs!ClientsKeepWhatIsCurrent` | `AllSpec => []ClientsRight` |
| `ServerProofs!FilesAreServedAsWritten` | `AllSpec => []FilesRight` |
| `AppsProofs!JobsDoRight` | `AllSpec => []JobsRight` |
| `AppsProofs!RegistryDoesRight` | `AllSpec => []RegistryRight` |
| `AppsProofs!ServicesDoRight` | `AllSpec => []ServicesRight` |
| `AppsProofs!SourcesAreDescribed` | `AllSpec => []DescribedAsServed` |
| `AppsProofs!MapsAreKept` | `AllSpec => MapsStayTheirOwn` |

The arguments:

- *Tracked.* `ServedIsTracked` is about rest; in the middle of an apply the
  catalog is between two baselines. `TrackedInv` says for each source which of
  them speaks for it: the old one while it is still to do, the listing afterwards.
- *BaselineServed.* The file may change between listing, build and apply, so
  nothing can be said of a source whose file has moved on. `ServedInv` therefore
  speaks of files that are still at the version that was listed: their build has
  that version or failed (`BuiltAsListed`), and once applied the catalog serves it
  (`ListingServed`). `ListedInOrder` and `Past` make that version the only one with
  its number, so that the old baseline cannot become true of a new file.
- *NoChangeLost.* What the driver knows of a file is its baseline while it waits, its
  listing while it builds and applies, and the part scanned so far in between.
  `PendingInv`: that is what is there, or the channel holds an event; and no
  event in the channel is anything but a change. The hypothesis holds of the drivers
  the code starts: those that watch scan once before they wait. (What was served
  before that scan is another matter: `SeedRace`.)
- *NoFlapping* needs that every location is listed once the diff is made
  (`ListedInv`).
- *DriverImplementsSync.* `held` collects the versions of a file since its source
  last changed. `HeldInv` says that whatever the driver has listed or built is in
  it, so each install is an abstract step and every other action a stutter.
- *CatalogIsTracked.* `TrackingInv` adds `Carried`: what a request or the sink is about
  to insert is a version and never nothing, and only sources that detect a modified
  file are ever reloaded by requests; so no reload brings back a source of another kind.
- *OnlyOverlapIsStale.* `CoherenceInv`: what is or is about to be served is no newer
  than the file (`Ages`); and for each source, either it was once updated while a
  request held it, or the catalog, the cache and everybody about to fill it agree
  (`Coherent`): the cache is empty wherever a version is being replaced. `TypeCorrect`
  is needed for the single flight: a leader computes the key it leads
  (`Leading`), and waiters lead nothing.
- *RetriesReadTheReloaded.* `RetryInv`: a request that has reloaded still holds the
  version it reloaded, never asks to reload again, and waits for others only in the
  cache. Only a failed reading gives an error to a request that does not wait
  (`OnlyFailAnswersError`), and it fails because the file is not what the request
  holds, hence not what it reloaded.
- *Ids.* `Remembered`: every answer is still the first candidate that fits its
  call, and owned by it. Ids are never given back, so `Fits` never changes its mind
  about the candidates before (`FirstStays`); the theorems follow from
  two answers having the same first candidate. `NoReservedIds` uses the assumption
  of the code's comment that no reserved word ends in a dot and a number.
- *PatchUndoesDiff, ApplyUndoesDiff.* By coordinates. A patch holds, of a coordinate,
  the new tile, a NULL for a deletion, or nothing, and nothing only where the files
  agree (`DiffRows`); each way of applying it chooses by that. The hypotheses
  are those the code needs: the new file has no NULL tile, which would read as a
  deletion, and the patch is flat (for `apply-patch` the patched file too). That the
  hashes agree follows from equal tiles, and TLC checks it over the other schemas.
- *TitlesAreFollowed.* `TitleInv`: titles are missing or one value, and only
  `apply-patch` lists the statements that replace or forget metadata. `TitlePatched` is
  the algebra: what is left after patching is what was there to diff.
- *TypeCorrect of MbtilesTool.* Tables and images stay functions from coordinates and
  ids to contents; the list of statements left is a tail of the list a command starts
  with (`Lists`), which is why a command runs exactly while it has some left.
- *HashesAreTrue, PatchesAreSafe, CopiesFollowTheMode.* One invariant, `HashInv`. Of
  every file `FilesInv` says what it is by how it was left: sound (its aggregate hash
  is that of its tiles, no row lacks its image, and it is either whole or a patch
  that `MeansPatch`, i.e. turns the tiles of its `before` hash into those of its `after`
  hash); half patched (each coordinate has the old or the new tile, and the new hash
  is written only when all have the new one); or unknown. Of the running command
  `JobInv` says how far it got: what the statements already executed have put into
  the file, for each tail of its list, so that a crash at any point leaves what
  `FilesInv` promises. It has one lemma for each statement of each command and covers
  `flat`, `flat-with-hash` and `normalized`. The view does not determine the rows (an
  image may be missing for a while, a NULL may be there with or without a hash), so
  everything is said of rows, and one lemma (`ViewIs`) gives the view. For the
  hypotheses, see [exceptions](#hypotheses-of-the-mbtiles-theorems).
- *TranscodesFaithfully.* `TranscodeInv` (checked by TLC on the transcode scene first):
  every row of the destination is an old one or the wanted one, with its image where
  the schema has images (`DstOk`); every item whose transformation succeeds is still
  to be read, in a batch, in a channel, unflushed, or has landed (`Placed`); and the
  cache holds under each key what the item of that key becomes (`CacheOk`): two tiles
  with one key have one content, because the stored hash that serves as the key is
  true. At the end the pipeline is empty, so every item has landed. The hypotheses:
  `TransformFits` (a content becomes a content or fails) and `JobsFit` (the source is
  a file of the tools; the destination is new, or of the same type with its images
  under their hashes). `TranscodedFaithfully` itself supposes that the source's
  hashes are true; a source whose hashes are not can be given another tile's result.
- *CopiesAreFaithful.* Two parts. What is requested: `append_rect` replaces a rectangle
  by its parts outside each of the list. The parts lie apart and cover what is left of
  the rectangle (`NonOverlapping`, by arithmetic), so the rectangles of a list stay
  apart and cover what they and the new one did; hence each tile of the boxes is
  requested, and once (`RequestedOnce`). This is induction over the lists, which is
  written as a least counterexample (`Induction`, from `WFMin`), because the library's
  theorem cannot be instantiated; that the recursive functions of `BulkCopy` obey their
  equations is proved in the same way (`Recursion`). What is copied: by `CopyInv` every
  requested tile is at one place, to be fetched, in flight, in the channel, in the
  batch, or through (`InFlight`), and the file has the tiles of before with those that
  are through (`With`, of which the mode decides where both have one). At the end
  nothing is in flight, so all are through. For the zoom levels: a copy into a new file
  writes the requested ones first, and growing them by those of all tiles of the file
  encloses them, also the ones that a failed copy left.
- *NothingIsLost.* `FlowInv`: either something went wrong and will be seen
  (`Troubled`: the flag is up, a task is about to raise it, or the query failed),
  or every row is somewhere in the pipeline and no stage has ended before the one
  feeding it. At `ok` the pipeline is empty and the flag was down, so all rows are
  stored. `TypeInv` adds to `TypeOK` that a task's hands hold a row exactly where
  its state says so.
- *RowsAreHandledOnce.* `EachRowOnce` is inductive with `TypeInv`: every action
  moves one row from one place to another.
- *OwnDirectoryServed.* `OneMeaning`: an id stands for one version of one archive
  wherever it is used, by the reader that is served, by requests that still hold
  an older one, and in the cache's keys; so an entry found under one's own id is
  one's own.
- *RemotesArePassedOn.* Adds to it `FetchesAgree`: a key is being fetched exactly if
  one request, and only one, fetches it; and for the upstream `UpstreamInv`: every
  answer came from a template that a still standing source gives that place, and is
  labelled from what was sent (`AsSent`); a source that is not built yet has answered
  nothing (`BuiltStands`).
- *ResponsesAreAsLabelled*, *ClientsKeepWhatIsCurrent.* `ResponseInv`. What the cache
  holds under the key of a source and a format is what the source and its conversion
  give, whoever put it there (`CacheTrue`), so the tiles a request collects are those
  of its sources, in its format, whether it fetched or found them (`PartsTrue`). Merging
  them, or sending the only one that is not empty, gives a tile that `Carries` the
  layers of all sources in the order they were asked for: this is about
  concatenations of sequences of sequences, for paths of any length (`Flattening`,
  by the same least counterexample as below). Unpacking and packing it changes
  neither (`Recoded`). An ETag lists the sources and the format of what was merged
  and so determines the layers of every `Sound` tile, one that was sent earlier
  included; hence a copy whose ETag matches has the layers that would be sent. A merge is
  refused only to sources that `get_sources` found compatible and of which one is
  empty or does not convert, as those that convert have all become one format with
  one encoding.
- *FilesAreServedAsWritten.* Two sources. For COGs, `TiffInv`: the
  image kept for a zoom is one that was read and recognised as of that zoom, and what
  was sent was cut from such an image. Rounding
  an origin to a tile moves it by the smaller of its two distances (`RoundedIs`); how
  much a chunk then drifts from its tile, and that pixels keep their places when a
  chunk is cut, is arithmetic with products and quotients, done by the lemmas `Divided`
  to `AxisInPlace`. For MBTiles, `MbtilesInv`. `RowsInv`: what the tool has written is in
  the main table of the type it works on, one row at each place. `FillInv`: the objects of a
  file are a first part of the statements for one type, in any state a killed run
  may have left; so the type that is detected next time is that type or none
  (`DetectedFits`), and what the view `tiles` shows is what was written. For opening,
  `OpenServes`: whichever tiles were sampled, if one has bytes, the label is theirs.
- *JobsDoRight.* `UploadInv`: two uploads that picked one path know of each other,
  so one that knows of none finds there what it wrote. `JobInv`: a job's log is the
  last of its lines, it reads what its uploads wrote, and its inputs are still there.
  `ToolInv`, for each pipe: the lines
  sent are the first of the script in their order, those in the pipe are the ones
  that follow, and the tail kept for an error message is the last of those reported.
- *RegistryDoesRight.* `RegistryInv` has two halves that do not need each other. For
  `RefreshShowsAll`, `RightFor`: of a refresh that nothing has overlapped there is a
  `k` such that what it has made are pools, sources and states of the first `k`
  connections (`Finds`), and what it has yet to visit follows them; when it has
  begun to publish, what is published so far is its own. A change, or another's publishing, marks every refresh
  that runs, so a marked one is promised nothing and any other finds the config and
  the databases as it read them. That a name that is made unique is the id of nothing else is
  the same counting as under *MapsAreKept* (`SlugIsFree`). For `EditsKept`, `EditInv`:
  while edits are alone, one command at most is between reading
  `connections.json` and writing it; when none is, the file is whole, has what was
  saved, and the bundled cluster has the password that is in it (`ConfigRight`); and
  what the one is about to write will have these (`EditRight`), though in between the
  role may already have the new password, or the file be empty.
- *ServicesDoRight.* `EmbedInv` with `OneSetsUp`: until two have raced, one process
  at most is setting the cluster up, so its steps follow each other: a directory is
  made before it is configured, and configured before it is started. `ServiceInv`: what
  runs has been installed, and what is installed has the port that is shown, unless an
  install is under way, was declined, or met a service that ran.
- *SourcesAreDescribed* needs no invariant: the description and the tiles choose the
  first candidate of one list, in every state.
- *MapsAreKept.* `MapsInv`: an import that was not raced has a destination where nothing
  is. That the suffix that was found is free is a matter of counting: there are more
  suffixes than files (`OneIsFree`, a pigeonhole), hence a least free one
  (`LeastNumber`, by well-founded minimum), and that is where the search ends.
- *RendersRight.* `WorkerInv`: the style a worker remembers is the one that is loaded
  or none, though a failed load has dropped the one before; its request keeps its
  size while the style is loaded; and when it renders, what is loaded is its request's
  style. It assumes that no style is the marker for none.
- *MapsAreWhole.* `TilerInv`: no two runs of one name run at a time unless both know
  that they overlapped; and of a run that knows of none `StageOk` says how far it got:
  which tiles of the grid it works on are in its work directory, in its map, and that
  the maps of the grids before are whole. It is relative to what is at the paths of
  its rasters *now*, and holds because a run that replaces one marks those that
  read it. One raster a run may replace is its own: a run whose input is
  the COG it makes removes its input first. Then it has no tile left to make a COG of
  and cannot succeed (`CogOk`), which is why the theorem needs no exception for it.
- *FilesAreFaithful.* The invariants of `TranscodeProofs` and `BulkCopyProofs` in their
  scenes, and `TreeInv` in that of `pack` and `unpack`: the tiles of the batch and of
  the archive are those of the files walked, one for each, at different coordinates,
  since the archive refuses two at one (`OneEach`). That `unpack` has written all
  when it has written as many files as there are tiles is a matter of counting
  (`WritesFile`); that pairs of turned coordinates come back is `TurnedTwice`.

TLC checks the invariants on the instances of the runs. The strengthenings were
checked by TLC too before they were proved; they are no part of the runs.

`AppsProofs`, `ServerProofs` and `PipelinesProofs` are about the specifications of the
runs `Apps`, `Server` and `Pipelines` themselves, with all their scenes. What the scenes
they prove about are instantiated with are CONSTANTS of `MCApps`, `MCServer` and
`MCPipelines`, given values in the `.cfg`; what is assumed of them is named there: `ToolAssumption` (a script is a
sequence of lines, the tail has room for one), `RegistryAssumption` (the config there
is at first has one connection of an id, one of them the bundled cluster with the
password it has; tables and map files are finitely many), `EmbedAssumption` (finitely many
callers), `ServiceAssumption` (a port is not 0), `ArchivesAssumption` (finitely many
archives, and one at least), `GivenAssumption` (an answer has one body at most, and
however that is packed, it has a name), `StylesAssumption` (above), `TilerAssumption`
(each name has a COG of its own), `TreesAssumption` (a tree is finite, and a path in it
is of one file) `ResponsesAssumption` (a source has one of the
formats and encodings, the server prefers gzip or brotli, a header is a list
of items with a quality, and the marker for no tile is none), `CogsAssumption` (an image
has pixels, the images that stand for a zoom lie on the earth, and their resolution
there is a metre or more: that powers of 2 are positive is induction),
`ForeignAssumption` (a file of another program is one SQLite can hold: one object of a
name, one body of a row, and its `tiles` shows the table it is detected by) and `FilesAssumption`: the hypotheses of `TranscodesFaithfully`, and those
of `CopiesAreFaithful` (`CopyFits`): zoom levels are bytes, the boxes are rectangles at
every level, as `TileRect::new` asserts, and a command names a zoom level. (With
`--min-zoom` above `--max-zoom` it names none; then nothing is copied.)

Only model-checked: all liveness (fairness and `ENABLED` are out of the prover's
reach), and of the safety properties `StartsRight`, `DatabasesRight`, `AssetsRight`
and `RoutesRight`. Of these
`AssetsRight` and `RoutesRight` are rules over sequences of glyphs or path segments, where the library's induction theorems would be needed: they take an
operator as a parameter, which the provers cannot instantiate. (Where a least
counterexample does, as in `MapsAreKept`, `CopiesAreFaithful` and
`ResponsesAreAsLabelled`, induction can be had.) `StartsRight` and `DatabasesRight`
count sources by the names they are given, and that is not so of every configuration:
where `a` is taken, a file or table that is configured both as `a` and as `a.1` becomes
one source `a.1`; and a URL that is named and also among the paths loses the settings
of its name, if the name is that of the file. A theorem would first have to say which
configurations are free of this; the runs' are.

## Findings

Each is a run that TLC is expected to refute; the lines are in `PROJECT.json`.

- `SeedRace`. The baseline is seeded from a discovery of its own, after the
  configuration was resolved. A file that is replaced in between is recorded at its
  new version and served at its old one, and no later diff will say so.
- `PrefixOutage`. A prefix that fails to list is skipped, "so a transient outage
  doesn't flap the catalog"; the discovery then succeeds without its sources, and
  the diff removes them until the next poll.
- `StaleTile`. The cache is invalidated before the new source is inserted, and a
  computation in flight fills it afterwards with a tile of the old one, which stays
  until it expires.
- `CopiedPatch`. `mbtiles copy` of a binary patch copies its hashes and not its
  `bsdiffraw` table. The copy passes for a whole patch, and applying it gives a file
  the hash of tiles it does not have. A flat patch that is copied into a normalized
  file loses its deletions in the same way ("deletions as `NULL` values",
  `mbtiles-diff.md:16`): a NULL tile has a NULL hash, `INSERT OR IGNORE INTO images`
  passes over it (`copier.rs:543`) and the `tiles` view joins its row away
  (`queries.rs:352`), so the patched file keeps the tile under the new hash.
- `AbortedCopy`. `martin-cp --on-duplicate abort` is to fail when a tile with the same
  coordinates exists. Into a normalized file it inserts images under the same
  clause (`mbtiles.rs:612`), so it also fails when two tiles are equal.

## Where the code does less than one might expect

Properties above are restricted where the code does not do more. The restrictions,
and what happens outside them:

- Under `on_invalid: warn` a source that fails to build for a transient reason is
  skipped and the baseline committed all the same: it is not retried until its file
  changes (`BaselineKept`, `tile_source_manager.rs:100`; `architecture.md:465`).
- Under `abort` a failed apply has done part of its work, and the baseline is kept:
  what it did is done again. Sources it added and whose files vanish before that
  stay, hence `ServedIsTracked` is about `warn` (`reconcile.rs:16`).
- Reading a watched file is an event like any other until the driver receives it,
  so readers can fill the channel and push changes out (`ChangePending`,
  `trigger.rs:30-32`).
- A request's reload inserts its source whether or not the driver has removed it
  meanwhile: the source is back with nobody to remove it (`ServedIffTracked`,
  `content.rs:442`, against `tile_source_manager.rs:15`).
- A waiter shares its leader's failure: a request that has reloaded may fail with
  the error of one that has not (`RetryUsesReloadedSource`, `content.rs:445`).
- Empty tiles keep their stored format while others are converted, so a composite
  with an empty tile may be refused (`CompatibleAreMerged`, `content.rs:517`).
- A vector format is negotiated also for sources configured not to convert, and
  sent as stored (`FormatIsAccepted`, `content.rs:142`, `984`).
- With `br`, `zstd` and `gzip;q=0` the tie between the two that are both known is
  broken towards gzip, which was refused; tiles stored compressed are sent whatever
  the quality of their encoding (`content.rs:586`, `628`).
- The format of an MBTiles file is read off one tile of any zoom and one of
  each zoom its metadata gives. Where these are NULL, or all zooms negative, nothing is
  found out and the metadata decides, whatever the other tiles are; `ServedAsStored` is about the files
  where it tells something (`Telling`, `validation.rs:254-295`).
- `--on-duplicate abort` leaves out, silently, the tiles whose coordinates exist
  with other data (`copier.rs:644-668`), and works only into flat files or between files of one schema.
  `CopyFollowsMode` is about the other two modes.
- A copy of a `dedup-id` file carries its integer ids as hashes; it fails per-tile
  validation. `dedup-id` is in the model but not among the files of `Patching`.
- A copy that dies after its tiles leaves the hash from before it (`standing` is
  then `unknown`, and the model does not compare or patch such a file).
- A failing query drops its sender before it raises the flag, so the caller may
  see everything closed and the flag down (`bindiff.rs:82-98`, `NothingLost`).

### Hypotheses of the mbtiles theorems

`InitiallySound` and `InitiallyTyped` say that the files that are there at first are
as the tools leave them; `Patching` starts from such files, with any tiles.
`Careful` restricts the commands that are given, not what becomes of them. Without it
`HashesTrue` fails, by behaviour of the code that the proof attempts found:

- a copy of the metadata alone takes over the aggregate hash of tiles it leaves out
  (`copier.rs:505`), and a copy of the tiles of a patch alone is no patch and no map;
- a copied binary patch has lost its binary differences, and a flat patch copied into
  a normalized file its deletions (both under `CopiedPatch`);
- a copy onto what a failed diff or `apply-patch` left keeps rows that belong to
  neither file under the source's hash;
- a file in which one patch died keeps its old hash, so another patch with the same
  `before` hash is accepted; if its `after` differs, the result is a mixture of both
  under the second one's hash. Running the same patch again is safe, which is what
  `Resumable` says.

The other components have exceptions of the same kind, met while modelling them.
Where a property would be touched, it names the exception.

*mbtiles, martin-cp, martin-tiler*
- The transcoder copies the source's aggregate hash and never computes the new one
  (`transcoder.rs:197`). `TranscodedFaithfully` is about per-tile hashes.
- A failed `martin-cp` cannot be repeated without `--on-duplicate`.
- Killed while the schema is made, `martin-cp` may on the next run recognise a schema
  whose `tiles` view or metadata are missing (`queries.rs:398`); `insert_tiles` into a
  `dedup-id` file writes the tables of another schema and fails (`mbtiles.rs:696`).
- AVIF and tiles compressed by Brotli or zstd are taken for MVT
  (`martin-tile-utils/src/lib.rs:242-297`), though `is_detectable` counts AVIF in; with no
  maximum zoom in the metadata, zooms above 18 are not sampled; a NULL first tile hides
  its zoom.
- Two runs of the tiler under one name share a work directory (`generate.rs:69`); an
  input that is the COG of that name is deleted before it is read (`generate.rs:202`); a
  failed run leaves part of its MBTiles file where it is served.
- A tool's output is read up to its first line that is not UTF-8 (`gdal.rs:313`).

*Server*
- COG: an explicit `NewSubfileType` of 0 is skipped; origins off the grid are
  accepted; only the first image's compression is verified; a gap in the zooms is
  an error for its tiles.
- PMTiles: an archive that changes while a directory is fetched is reported as a
  cache error, which does not lead to a reload (`cache.rs:133`, `source.rs:170`);
  `invalidate_all` of one source empties the cache of all (`cache.rs:93`).
- Passthrough: the templates of a TileJSON document are not validated; a tag survives a
  reload; a declared format is only used for empty bodies (`source.rs:357`). Nothing in
  `martin/src` makes such a source yet.
- Render pool: requests queued behind the last worker wait for ever when it dies
  (`render_pool.rs:226`); `RendersEnd` is about a pool with a worker left.
- Start-up: ids that several kinds want depend on which kind resolves first
  (`lifecycle.rs:421`); a named source that is missing drops out of the saved
  configuration; a listed file that vanishes takes the rest of its listing with it
  (`file_config.rs:624`); the sizes of single caches mean nothing without `cache.size`;
  the saved file is truncated and then written, has no options of remote files and
  does not escape `$` (`lifecycle.rs:549`).
- PostgreSQL: settings of one source are lost at its first reload (`reload.rs:15`,
  `reload/postgres.rs:35-47`); databases of one name share ids; a configured table
  in another case is published again by itself; which overload of a function is taken
  is up to the database.
- Fonts and sprites: which of two equal fonts in a directory is kept depends on the
  order of the walk; a font file that cannot be read, or a directory of duplicates only,
  ends the start; index and image of a sheet are cached apart, so an edit can come
  between them; ids with `@2x` are not invalidated.
- Routes: redirects of fonts, sprites and styles drop `route_prefix`
  (`srv/sprites.rs:94-98`, `srv.rs:28`) and the query; those of tiles ignore `base_path`;
  `X-Forwarded-Prefix` is a whole path for TileJSON and a prefix for styles.

*Studio and desktop*
- Two uploads of one name pick one destination before either has written it
  (`studio.rs:379`, "collisions get a numeric suffix"), and a job may read an upload
  that is not complete.
- Registry: overlapping refreshes mix their pools, sources and states until the next
  one; a reader can meet a half-written `connections.json`; a password is changed in the
  database before it is saved; an interval of 0 does not disable the refresh
  (`config.rs`).
- Bundled cluster: of two that start it at once, one fails (`embed.rs:4-7` says
  it does not matter), and the configuration may lose its defaults.
- Service: the status is `active` on Linux and the window waits for `running`
  (`ServingView.tsx:30`); the default port is the preview's; on Windows a port that is
  taken goes unnoticed.
- Maps: a COG that cannot be opened answers 204, while its description falls through to
  a table of its name (`lib.rs:247-252`); extensions in capitals are listed and not
  served; an open COG stays in its worker's cache after it was replaced.

## What is not modelled

- In `ReloadDriver`: a clock that repeats a modification time; the watcher
  backend's own debouncing; the ids' renaming, which is `IdResolver`'s.
- In `TileServing`: the warm-up of caches, and cache weights (`Evict` may drop any
  entry at any time).
- In `TileResponse`: query strings and the URL (`Routes` has them). Quality values are 0,
  low and high.
- In `MbtilesTool`: `--force`, filters by zoom and area, `STRICT` tables,
  `--skip-agg-tiles-hash`, the validations a command makes before and after its work
  (they can only make it fail), `BinDiffGz`, whose after-check is skipped, and metadata
  other than one title and the hashes. `summary` only reads; `update_zoom` is in
  `BulkCopy`.
- In `BinDiff`: what a row's difference is (`MbtilesTool` has it).
- In `Transcode`: adding to a `dedup-id` destination that has tiles.
- In `Startup`: the syntax of configurations (serde, environment variables) and
  settings that are passed through to a library. In `PgSources`: the SQL of tiles and
  bounds, pools, TLS. In `Routes`: CORS, workers, listeners, metrics.
- Externals, modelled by what the code relies on: moka's single flight and eviction,
  SQLite's statements and transactions, object stores, the PMTiles reader, GDAL,
  MapLibre's renderer, PostgreSQL's server programs, systemd and the Windows service
  manager.
- DuckDB sources (behind an unstable feature, with no configuration that leads to
  them), the web user interfaces, logging and metrics: no state of their own that
  anything above depends on.
- Floating-point projections and pixels' codecs: coordinates are integers of a small
  world, codecs are labels.

## What is left

The plan of this development was ordered by what goes wrong most silently: the
drivers, serving and responses, ids, the `mbtiles` tool, the pipelines, the sources,
start-up, the applications around. All of it is modelled. What would add most
from here:

1. One composition of `PmtilesCache` with `TileServing`: a directory that is stale for
   a request that holds the previous reader, through the tile cache.
2. Refinements: `TileServing` as a service that answers each request with one atomic
   read; a patch as the atomic replacement of one file's tiles by another's.
3. Proofs of `StartsRight` and `DatabasesRight`, for the configurations they hold of.
4. Larger instances of the registry, with databases that go away.
