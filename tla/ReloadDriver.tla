---------------------------- MODULE ReloadDriver ----------------------------
(***************************************************************************)
(* One reload driver of the Martin tile server: the loop that keeps the    *)
(* live catalog of tile sources in step with a directory, an object-store  *)
(* prefix or a PostgreSQL schema without a restart.                        *)
(*                                                                         *)
(*   Trigger (file events or a timer)  ->  Discovery (what exists now)     *)
(*      ->  diff against the baseline  ->  build what changed              *)
(*      ->  Sink::apply_changes on the catalog  ->  commit the baseline    *)
(*                                                                         *)
(* The environment writes, removes and reads files at any time, in         *)
(* particular between two steps of the driver.  A source id stands for the *)
(* one file or table that IdResolver maps to it.  The tile cache and the   *)
(* requests that read the catalog meanwhile are in module TileServing.     *)
(*                                                                         *)
(* Every write gets a version of its own: modification times are taken to  *)
(* move forward (the hazards in PROJECT.json list the clock that does not).*)
(***************************************************************************)
EXTENDS Naturals, Sequences, FiniteSets

CONSTANTS
  Ids,            \* source ids, naturals so that BTreeMap order is <
  Locations,      \* watched directories, polled prefixes, or one database
  LocOf,          \* [Ids -> Locations]: where the id's file lives
  Kinds,          \* the kinds of driver a run starts one of
  ChannelCap,     \* capacity of the event channel (256 in the code)
  MaxVersion,     \* bound: versions a run may write
  MaxErrors       \* bound: transient listing and build errors in a run

ASSUME IdsAssumption       == Ids \subseteq Nat
ASSUME LocOfAssumption     == LocOf \in [Ids -> Locations]
ASSUME KindsAssumption     ==
  Kinds \subseteq [onInvalid : {"Abort", "Warn"},
                   baseline : {"StartupResolved", "Empty"},
                   trigger : {"notify", "poll"},
                   skipFailed : BOOLEAN, readEvents : BOOLEAN]
ASSUME BoundsAssumption    == /\ ChannelCap \in Nat \ {0}
                              /\ MaxVersion \in Nat \ {0}
                              /\ MaxErrors \in Nat

VARIABLES
  kind,      \* the driver's kind, which never changes
  store,     \* what is really there: [Ids -> Content]
  clock,     \* the last version given to a write
  events,    \* the channel between the watcher callback and the driver
  pc,        \* where the driver's task is
  seeded,    \* FALSE while `baseline` is None
  baseline,  \* [Ids -> version], 0 where the id is not in the map
  listing,   \* the discovery in progress: [Ids -> version]
  scanned,   \* locations it has listed
  skipped,   \* locations whose listing failed and was skipped
  built,     \* version each initializer opened, 0 when it failed
  todo,      \* ids still to be built (pc = "build") or applied ("apply")
  catalog,   \* the live DashMap: version being served, 0 when absent
  errors     \* transient errors so far

world  == <<kind, store, clock, events>>
driver == <<pc, seeded, baseline, listing, scanned, skipped, built, todo>>
vars   == <<kind, store, clock, events, pc, seeded, baseline, listing, scanned,
            skipped, built, todo, catalog, errors>>

OnInvalid          == kind.onInvalid   \* what a failed build does; default "Abort"
InitialBaseline    == kind.baseline
TriggerKind        == kind.trigger     \* file events, or an interval
SkipFailedLocation == kind.skipFailed  \* a failed listing skips its location (object
                                       \* store) or fails the whole discovery
ReadEvents         == kind.readEvents  \* reading a watched file is an event too

Versions == 0..MaxVersion      \* 0: no file, no entry, no source
Content  == [version : Versions, readable : BOOLEAN]
Missing  == [version |-> 0, readable |-> FALSE]
Nothing  == [id \in Ids |-> 0]

\* Types, and the channel's capacity.
TypeOK ==
  /\ kind \in Kinds
  /\ store \in [Ids -> Content]
  /\ clock \in Versions
  /\ events \in Seq({"change", "read"})
  /\ Len(events) <= ChannelCap
  /\ pc \in {"boot", "idle", "scan", "build", "apply"}
  /\ seeded \in BOOLEAN
  /\ baseline \in [Ids -> Versions]
  /\ listing \in [Ids -> Versions]
  /\ scanned \subseteq Locations
  /\ skipped \subseteq Locations
  /\ built \in [Ids -> Versions]
  /\ todo \subseteq Ids
  /\ catalog \in [Ids -> Versions]
  /\ errors \in 0..MaxErrors

-----------------------------------------------------------------------------
(* Startup.  config.resolve() has loaded what it could read (nothing for a *)
(* remote prefix); under "Abort" it would have refused an unreadable file. *)

Init ==
  /\ kind \in Kinds
  /\ clock = 1
  /\ store \in [Ids -> {Missing, [version |-> 1, readable |-> TRUE],
                        [version |-> 1, readable |-> FALSE]}]
  /\ InitialBaseline = "StartupResolved" /\ OnInvalid = "Abort" =>
        \A id \in Ids : store[id].readable \/ store[id] = Missing
  /\ catalog = [id \in Ids |->
        IF InitialBaseline = "StartupResolved" /\ store[id].readable
        THEN store[id].version ELSE 0]
  /\ events = << >>
  /\ pc = "boot"
  /\ seeded = FALSE
  /\ baseline = Nothing
  /\ listing = Nothing
  /\ scanned = {}
  /\ skipped = {}
  /\ built = Nothing
  /\ todo = {}
  /\ errors = 0

-----------------------------------------------------------------------------
(* The environment and the watcher callback, which drops an event when the *)
(* channel is full.  Nothing is watched before the driver is spawned.      *)

\* A mutant: an unbounded channel.
EmitAlways(event) ==
  events' = IF TriggerKind = "notify" /\ pc # "boot"
            THEN Append(events, event) ELSE events

Emit(event) ==
  events' = IF TriggerKind = "notify" /\ pc # "boot" /\ Len(events) < ChannelCap
            THEN Append(events, event) ELSE events

Write(id) ==
  /\ clock < MaxVersion
  /\ clock' = clock + 1
  /\ \E readable \in BOOLEAN :
        store' = [store EXCEPT ![id] = [version |-> clock + 1, readable |-> readable]]
  /\ Emit("change")
  /\ UNCHANGED <<kind, driver, catalog, errors>>

Remove(id) ==
  /\ store[id] # Missing
  /\ store' = [store EXCEPT ![id] = Missing]
  /\ Emit("change")
  /\ UNCHANGED <<kind, clock, driver, catalog, errors>>

Read(id) ==
  /\ ReadEvents
  /\ store[id] # Missing
  /\ Emit("read")
  /\ UNCHANGED <<kind, store, clock, driver, catalog, errors>>

-----------------------------------------------------------------------------
(* The driver: trigger and discovery.                                      *)

StartScan ==
  /\ pc' = "scan"
  /\ listing' = Nothing
  /\ scanned' = {}
  /\ skipped' = {}

Spawn ==
  /\ pc = "boot"
  /\ \/ /\ InitialBaseline = "StartupResolved"
        /\ StartScan
        /\ UNCHANGED <<seeded, baseline>>
     \/ /\ InitialBaseline = "Empty"
        /\ pc' = "idle"
        /\ seeded' = TRUE
        /\ baseline' = Nothing
        /\ UNCHANGED <<listing, scanned, skipped>>
  /\ UNCHANGED <<world, built, todo, catalog, errors>>

\* NotifyTrigger::next: read accesses are discarded, anything else fires.
Receive ==
  /\ TriggerKind = "notify"
  /\ pc = "idle"
  /\ events # << >>
  /\ events' = Tail(events)
  /\ \/ Head(events) = "change" /\ StartScan
     \/ Head(events) = "read" /\ UNCHANGED <<pc, listing, scanned, skipped>>
  /\ UNCHANGED <<kind, store, clock, seeded, baseline, built, todo, catalog, errors>>

\* PollTrigger::next: the interval always elapses again.
Tick ==
  /\ TriggerKind = "poll"
  /\ pc = "idle"
  /\ StartScan
  /\ UNCHANGED <<world, seeded, baseline, built, todo, catalog, errors>>

Pending == Locations \ (scanned \cup skipped)

ScanLocation(l) ==
  /\ pc = "scan"
  /\ l \in Pending
  /\ listing' = [id \in Ids |->
        IF LocOf[id] = l THEN store[id].version ELSE listing[id]]
  /\ scanned' = scanned \cup {l}
  /\ UNCHANGED <<world, pc, seeded, baseline, skipped, built, todo, catalog, errors>>

\* A mutant: the failed location is skipped whatever the kind of discovery.
ScanFailsAlwaysSkipped(l) ==
  /\ pc = "scan"
  /\ l \in Pending
  /\ errors < MaxErrors
  /\ errors' = errors + 1
  /\ skipped' = skipped \cup {l}
  /\ UNCHANGED <<world, pc, seeded, baseline, listing, scanned, built, todo, catalog>>

ScanFails(l) ==
  /\ pc = "scan"
  /\ l \in Pending
  /\ errors < MaxErrors
  /\ errors' = errors + 1
  /\ \/ /\ SkipFailedLocation
        /\ skipped' = skipped \cup {l}
        /\ UNCHANGED pc
     \/ /\ ~SkipFailedLocation
        /\ pc' = "idle"
        /\ UNCHANGED skipped
  /\ UNCHANGED <<world, seeded, baseline, listing, scanned, built, todo, catalog>>

\* Mutants: removals forgotten; no update concept, as in from_sets.
NoRemovals == {}
NoUpdates  == {}

Removals  == {id \in Ids : baseline[id] # 0 /\ listing[id] = 0}
Updates   == {id \in Ids : baseline[id] # 0 /\ listing[id] # 0
                           /\ baseline[id] # listing[id]}
Additions == {id \in Ids : baseline[id] = 0 /\ listing[id] # 0}

\* Without a baseline (first scan, or after a failed seed) the discovery is
\* recorded and not applied; otherwise it is diffed and built.
Discovered ==
  /\ pc = "scan"
  /\ Pending = {}
  /\ \/ /\ ~seeded
        /\ seeded' = TRUE
        /\ baseline' = listing
        /\ pc' = "idle"
        /\ UNCHANGED <<built, todo>>
     \/ /\ seeded
        /\ built' = Nothing
        /\ todo' = Updates \cup Additions
        /\ pc' = "build"
        /\ UNCHANGED <<seeded, baseline>>
  /\ UNCHANGED <<world, listing, scanned, skipped, catalog, errors>>

-----------------------------------------------------------------------------
(* The driver: build and apply.                                            *)

FirstOf(id, S) == id \in S /\ \A j \in S : id <= j

\* ReloadAdvisory::from_maps awaits one initializer after another, in id order.
Build(id) ==
  /\ pc = "build"
  /\ FirstOf(id, todo)
  /\ todo' = todo \ {id}
  /\ \/ /\ store[id].readable
        /\ built' = [built EXCEPT ![id] = store[id].version]
        /\ UNCHANGED errors
     \/ /\ ~store[id].readable
        /\ built' = [built EXCEPT ![id] = 0]
        /\ UNCHANGED errors
     \/ /\ errors < MaxErrors
        /\ built' = [built EXCEPT ![id] = 0]
        /\ errors' = errors + 1
  /\ UNCHANGED <<world, pc, seeded, baseline, listing, scanned, skipped, catalog>>

StartApply ==
  /\ pc = "build"
  /\ todo = {}
  /\ pc' = "apply"
  /\ todo' = Updates \cup Additions \cup Removals
  /\ UNCHANGED <<world, seeded, baseline, listing, scanned, skipped, built,
                 catalog, errors>>

\* TileSourceManager::apply_changes: updates, then additions, then removals.
Phase(id) == IF id \in Updates THEN 1 ELSE IF id \in Additions THEN 2 ELSE 3

Due(id) ==
  /\ pc = "apply"
  /\ FirstOf(id, {i \in todo : \A j \in todo : Phase(i) <= Phase(j)})

Install(id) ==
  /\ Due(id)
  /\ id \notin Removals
  /\ built[id] # 0
  /\ catalog' = [catalog EXCEPT ![id] = built[id]]
  /\ todo' = todo \ {id}
  /\ UNCHANGED <<world, pc, seeded, baseline, listing, scanned, skipped, built, errors>>

\* A mutant: a source that cannot be rebuilt is taken down.
SkipDropping(id) ==
  /\ Due(id)
  /\ id \notin Removals
  /\ built[id] = 0
  /\ OnInvalid = "Warn"
  /\ catalog' = [catalog EXCEPT ![id] = 0]
  /\ todo' = todo \ {id}
  /\ UNCHANGED <<world, pc, seeded, baseline, listing, scanned, skipped, built, errors>>

SkipInvalid(id) ==
  /\ Due(id)
  /\ id \notin Removals
  /\ built[id] = 0
  /\ OnInvalid = "Warn"
  /\ todo' = todo \ {id}
  /\ UNCHANGED <<world, pc, seeded, baseline, listing, scanned, skipped, built,
                 catalog, errors>>

\* A mutant: the baseline advances although the apply failed.
AbortCommitting(id) ==
  /\ Due(id)
  /\ id \notin Removals
  /\ built[id] = 0
  /\ OnInvalid = "Abort"
  /\ baseline' = listing
  /\ pc' = "idle"
  /\ todo' = {}
  /\ UNCHANGED <<world, seeded, listing, scanned, skipped, built, catalog, errors>>

\* The error ends apply_changes; the driver keeps its old baseline.
AbortInvalid(id) ==
  /\ Due(id)
  /\ id \notin Removals
  /\ built[id] = 0
  /\ OnInvalid = "Abort"
  /\ pc' = "idle"
  /\ todo' = {}
  /\ UNCHANGED <<world, seeded, baseline, listing, scanned, skipped, built,
                 catalog, errors>>

Uninstall(id) ==
  /\ Due(id)
  /\ id \in Removals
  /\ catalog' = [catalog EXCEPT ![id] = 0]
  /\ todo' = todo \ {id}
  /\ UNCHANGED <<world, pc, seeded, baseline, listing, scanned, skipped, built, errors>>

\* A mutant: events that arrived during the reconcile are drained after it.
CommitDraining ==
  /\ pc = "apply"
  /\ todo = {}
  /\ baseline' = listing
  /\ pc' = "idle"
  /\ events' = << >>
  /\ UNCHANGED <<kind, store, clock, seeded, listing, scanned, skipped, built,
                 todo, catalog, errors>>

Commit ==
  /\ pc = "apply"
  /\ todo = {}
  /\ baseline' = listing
  /\ pc' = "idle"
  /\ UNCHANGED <<world, seeded, listing, scanned, skipped, built, todo, catalog, errors>>

-----------------------------------------------------------------------------
Environment == \E id \in Ids : Write(id) \/ Remove(id) \/ Read(id)

Progress ==
  \/ Spawn \/ Receive \/ Tick \/ Discovered \/ StartApply \/ Commit
  \/ \E l \in Locations : ScanLocation(l)
  \/ \E id \in Ids : \/ Build(id) \/ Install(id) \/ SkipInvalid(id)
                     \/ AbortInvalid(id) \/ Uninstall(id)

Failure == \E l \in Locations : ScanFails(l)

Next == Environment \/ Progress \/ Failure

Spec == Init /\ [][Next]_vars

\* tokio keeps polling the driver's task; nothing obliges the environment.
FairSpec == Spec /\ WF_vars(Progress)

-----------------------------------------------------------------------------
(* Properties.  The kinds a property is restricted to are those it is true *)
(* of: what goes wrong for the others is in README.md.                     *)

Settled == pc = "idle" /\ seeded

\* The driver fills the catalog itself, so it starts from what is served.
OwnsCatalog == InitialBaseline = "Empty"

\* A reconcile applies the diff between the baseline and the next discovery,
\* so what the baseline says is current has to be what is served: between two
\* reconciles, no readable file is recorded at its current version while the
\* catalog serves another version of it or none ("The baseline must match the
\* catalog", driver/reconcile.rs).
BaselineIsServed ==
  Settled => \A id \in Ids :
    baseline[id] # 0 /\ baseline[id] = store[id].version /\ store[id].readable
      => catalog[id] = baseline[id]

\* BaselineIsServed holds of a driver that owns the catalog when a failed build
\* aborts the apply, or no build fails for a reason other than its file:
\* however writes fall between listing, build and apply, and however far an
\* apply came before it failed.
BaselineKept ==
  OwnsCatalog /\ (OnInvalid = "Abort" \/ MaxErrors = 0) => BaselineIsServed

\* Removals are computed from the baseline, so a source the catalog serves and
\* the baseline does not hold can never be removed again: there is none
\* between two reconciles, when failed sources are skipped one by one.
ServedIsTracked ==
  OwnsCatalog /\ OnInvalid = "Warn" /\ Settled =>
    \A id \in Ids : catalog[id] # 0 => baseline[id] # 0

\* A source is dropped only by a reconcile that did list the source's location
\* ("so a transient outage doesn't flap the catalog", object_store.rs).
NoOutageDrop ==
  [][\A id \in Ids : catalog[id] # 0 /\ catalog'[id] = 0
                        => LocOf[id] \in scanned]_vars

\* The same where a failed listing fails the discovery: a failed listing never
\* takes a source out of the catalog.
NoFlap ==
  [][\A id \in Ids : ~SkipFailedLocation /\ catalog[id] # 0 /\ catalog'[id] = 0
                        => LocOf[id] \in scanned]_vars

\* Dropping events on a full channel loses no change: whenever the idle driver
\* has not seen a file's state, an event that will make it rescan is queued
\* (as long as nothing failed and reads do not fill the channel).
ChangePending ==
  Settled /\ TriggerKind = "notify" /\ ~ReadEvents
          /\ OnInvalid = "Warn" /\ errors = 0 =>
    \A id \in Ids : store[id].version # baseline[id] =>
      \E i \in DOMAIN events : events[i] = "change"

\* Once the files stop changing and none is broken, every file is eventually
\* served at its current version and stays so (FairSpec): a failed listing or
\* build is retried, since the baseline only advances on success.
EveryReadableFileServed ==
  /\ OwnsCatalog /\ TriggerKind = "poll" /\ OnInvalid = "Abort"
  /\ <>[](\A id \in Ids : store[id] = Missing \/ store[id].readable)
  => \A id \in Ids : <>[](store[id].readable => catalog[id] = store[id].version)

\* Once the files stop changing, a file that is gone is eventually not served,
\* whatever other files are broken, when those are skipped one by one.
EveryRemovedFileUnserved ==
  OwnsCatalog /\ TriggerKind = "poll" /\ OnInvalid = "Warn"
  => \A id \in Ids : <>[](store[id] = Missing => catalog[id] = 0)

\* What is served becomes what is there.
FilesFollowed == EveryReadableFileServed /\ EveryRemovedFileUnserved

-----------------------------------------------------------------------------
(* What the proofs strengthen BaselineKept and ServedIsTracked to.         *)

Served(id) ==
  baseline[id] # 0 /\ baseline[id] = store[id].version /\ store[id].readable
    => catalog[id] = baseline[id]

ListingServed(id) ==
  listing[id] # 0 /\ listing[id] = store[id].version /\ store[id].readable
    => catalog[id] = listing[id]

\* The source built for a file that has not changed since it was listed is of
\* the listed version, or failed under the policy that then aborts the apply.
BuiltAsListed(id) ==
  listing[id] # 0 /\ listing[id] = store[id].version /\ store[id].readable
    => built[id] = listing[id] \/ (built[id] = 0 /\ OnInvalid = "Abort")

\* No version lies in the future, so a new one differs from all of them.
Past == \A id \in Ids : {store[id].version, listing[id], baseline[id]} \subseteq 0..clock

\* A file still at its baseline version was listed at it, or not at all.
ListedInOrder ==
  pc \in {"scan", "build", "apply"} => \A id \in Ids :
    baseline[id] # 0 /\ baseline[id] = store[id].version
      => listing[id] \in {0, baseline[id]}

ServedInv ==
  /\ pc # "boot" => seeded
  /\ pc = "boot" => baseline = Nothing
  /\ Past
  /\ ListedInOrder
  /\ pc = "apply" => todo \subseteq Updates \cup Additions \cup Removals
  /\ pc = "build" => \A id \in (Updates \cup Additions) \ todo : BuiltAsListed(id)
  /\ pc = "apply" => \A id \in todo \ Removals : BuiltAsListed(id)
  /\ pc = "apply" => \A id \in Ids \ todo : ListingServed(id)
  /\ pc # "apply" \/ ~ (todo \subseteq Removals) => \A id \in Ids : Served(id)

TrackedInv ==
  /\ pc # "boot" => seeded
  /\ pc = "boot" => catalog = Nothing
  /\ pc = "apply" => todo \subseteq Updates \cup Additions \cup Removals
  /\ pc # "apply" => \A id \in Ids : catalog[id] # 0 => baseline[id] # 0
  /\ pc = "apply" => \A id \in Ids :
        catalog[id] # 0 => (IF id \in todo THEN baseline[id] ELSE listing[id]) # 0
=============================================================================
