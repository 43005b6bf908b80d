-------------------------- MODULE ReloadDriverSync --------------------------
(* The reload driver with the history variable CatalogSync speaks about.   *)
EXTENDS ReloadDriver

VARIABLE held   \* versions each file has had since its source last changed

SyncInit == Init /\ held = [id \in Ids |-> {store[id].version}]

SyncNext ==
  /\ Next
  /\ held' = [id \in Ids |->
        IF catalog'[id] # catalog[id] THEN {store[id].version}
                                      ELSE held[id] \cup {store'[id].version}]

SyncSpec == SyncInit /\ [][SyncNext]_<<vars, held>>

CS == INSTANCE CatalogSync WITH current <- [id \in Ids |-> store[id].version]

\* Every change of the live catalog brings a source to a state its file was in
\* since the source last changed: however writes fall between the listing, the
\* build and the apply of a reconcile, and whichever of them fails, no stale
\* version is brought back and no source of an existing file is dropped.
CatalogFollowsFiles == CS!Sync

\* What the refinement rests on: everything a reconcile is about to publish,
\* as it was listed or built, has been the state of its file since the file's
\* source last changed.
HeldInv ==
  /\ held \in [Ids -> SUBSET Versions]
  /\ \A id \in Ids : store[id].version \in held[id]
  /\ skipped = {}
  /\ pc \in {"build", "apply"} => Locations \subseteq scanned
  /\ pc = "apply" => todo \subseteq Updates \cup Additions \cup Removals
  /\ pc \in {"scan", "build"} => \A id \in Ids :
        LocOf[id] \in scanned => listing[id] \in held[id]
  /\ pc = "build" => \A id \in (Updates \cup Additions) \ todo :
        built[id] # 0 => built[id] \in held[id]
  /\ pc = "apply" => \A id \in todo :
        /\ listing[id] \in held[id]
        /\ id \notin Removals /\ built[id] # 0 => built[id] \in held[id]
=============================================================================
