------------------------- MODULE ReloadDriverProofs -------------------------
(***************************************************************************)
(* Theorems about ReloadDriver, for every set of sources and locations,    *)
(* every kind of driver, channel capacity and bound; and that it           *)
(* implements CatalogSync, as long as a failed listing fails the discovery.*)
(***************************************************************************)
EXTENDS ReloadDriverSync, TLAPS

USE DEF world, driver, vars

\* A driver never changes its kind.
LEMMA KindStep ==
  ASSUME [Next]_vars
  PROVE  /\ kind' = kind
         /\ OnInvalid' = OnInvalid /\ SkipFailedLocation' = SkipFailedLocation
         /\ OwnsCatalog' = OwnsCatalog
<1>1. kind' = kind
  BY DEF Next, Environment, Progress, Failure, Write, Remove, Read, Spawn, Receive,
         Tick, Discovered, StartApply, Commit, ScanLocation, ScanFails, Build,
         Install, SkipInvalid, AbortInvalid, Uninstall
<1> QED BY <1>1 DEF OnInvalid, SkipFailedLocation, OwnsCatalog, InitialBaseline

-----------------------------------------------------------------------------
(* Type correctness.                                                       *)

LEMMA NothingTypes == 0 \in Versions /\ 1 \in Versions /\ Nothing \in [Ids -> Versions]
  BY BoundsAssumption DEF Nothing, Versions

LEMMA EmitTypes ==
  ASSUME TypeOK, NEW event \in {"change", "read"}, Emit(event)
  PROVE  events' \in Seq({"change", "read"}) /\ Len(events') <= ChannelCap
  BY BoundsAssumption DEF TypeOK, Emit

LEMMA TypeStep == TypeOK /\ [Next]_vars => TypeOK'
<1> SUFFICES ASSUME TypeOK, [Next]_vars PROVE TypeOK'
  OBVIOUS
<1>1. ASSUME NEW id \in Ids, Write(id) PROVE TypeOK'
  <2>1. events' \in Seq({"change", "read"}) /\ Len(events') <= ChannelCap
    BY <1>1, EmitTypes DEF Write
  <2>2. clock + 1 \in Versions
    BY <1>1, BoundsAssumption DEF TypeOK, Write, Versions
  <2> QED BY <1>1, <2>1, <2>2 DEF TypeOK, Write, Content
<1>2. ASSUME NEW id \in Ids, Remove(id) PROVE TypeOK'
  <2>1. events' \in Seq({"change", "read"}) /\ Len(events') <= ChannelCap
    BY <1>2, EmitTypes DEF Remove
  <2> QED BY <1>2, <2>1, BoundsAssumption
          DEF TypeOK, Remove, Content, Missing, Versions
<1>3. ASSUME NEW id \in Ids, Read(id) PROVE TypeOK'
  <2>1. events' \in Seq({"change", "read"}) /\ Len(events') <= ChannelCap
    BY <1>3, EmitTypes DEF Read
  <2> QED BY <1>3, <2>1 DEF TypeOK, Read
<1>4. CASE Spawn
  <2>1. /\ baseline' \in [Ids -> Versions] /\ listing' \in [Ids -> Versions]
        /\ scanned' \subseteq Locations /\ skipped' \subseteq Locations
    BY <1>4, NothingTypes DEF TypeOK, Spawn, StartScan
  <2> QED BY <1>4, <2>1 DEF TypeOK, Spawn, StartScan
<1>5. CASE Receive
  <2>1. events' \in Seq({"change", "read"}) /\ Len(events') <= ChannelCap
    BY <1>5, BoundsAssumption DEF TypeOK, Receive
  <2> QED BY <1>5, <2>1, NothingTypes DEF TypeOK, Receive, StartScan
<1>6. CASE Tick
  BY <1>6, NothingTypes DEF TypeOK, Tick, StartScan
<1>7. CASE Discovered
  BY <1>7, NothingTypes DEF TypeOK, Discovered, Updates, Additions
<1>8. CASE StartApply
  BY <1>8 DEF TypeOK, StartApply, Updates, Additions, Removals
<1>9. CASE Commit
  BY <1>9 DEF TypeOK, Commit
<1>10. ASSUME NEW l \in Locations, ScanLocation(l) PROVE TypeOK'
  BY <1>10 DEF TypeOK, ScanLocation, Content
<1>11. ASSUME NEW l \in Locations, ScanFails(l) PROVE TypeOK'
  BY <1>11, BoundsAssumption DEF TypeOK, ScanFails
<1>12. ASSUME NEW id \in Ids, Build(id) PROVE TypeOK'
  <2>1. store[id].version \in Versions
    BY DEF TypeOK, Content
  <2>2. built' \in [Ids -> Versions] /\ errors' \in 0..MaxErrors /\ todo' \subseteq Ids
    BY <1>12, <2>1, NothingTypes, BoundsAssumption DEF TypeOK, Build
  <2> QED BY <1>12, <2>2 DEF TypeOK, Build
<1>13. ASSUME NEW id \in Ids, Install(id) PROVE TypeOK'
  BY <1>13 DEF TypeOK, Install
<1>14. ASSUME NEW id \in Ids, SkipInvalid(id) PROVE TypeOK'
  BY <1>14 DEF TypeOK, SkipInvalid
<1>15. ASSUME NEW id \in Ids, AbortInvalid(id) PROVE TypeOK'
  BY <1>15 DEF TypeOK, AbortInvalid
<1>16. ASSUME NEW id \in Ids, Uninstall(id) PROVE TypeOK'
  BY <1>16, NothingTypes DEF TypeOK, Uninstall
<1>17. CASE UNCHANGED vars
  BY <1>17 DEF TypeOK
<1> QED
  BY <1>1, <1>2, <1>3, <1>4, <1>5, <1>6, <1>7, <1>8, <1>9, <1>10, <1>11,
     <1>12, <1>13, <1>14, <1>15, <1>16, <1>17
  DEF Next, Environment, Progress, Failure

LEMMA TypeInit == Init => TypeOK
<1> SUFFICES ASSUME Init PROVE TypeOK
  OBVIOUS
<1>1. store \in [Ids -> Content]
  <2>1. {Missing, [version |-> 1, readable |-> TRUE],
         [version |-> 1, readable |-> FALSE]} \subseteq Content
    BY NothingTypes DEF Content, Missing
  <2> QED BY <2>1 DEF Init
<1>2. catalog \in [Ids -> Versions]
  BY <1>1, NothingTypes DEF Init, Content
<1>3. events \in Seq({"change", "read"}) /\ Len(events) <= ChannelCap
  BY BoundsAssumption DEF Init
<1>4. clock \in Versions /\ errors \in 0..MaxErrors
  BY NothingTypes, BoundsAssumption DEF Init
<1> QED BY <1>1, <1>2, <1>3, <1>4, NothingTypes DEF Init, TypeOK

\* Every state of the driver is well typed and its channel never holds more
\* events than its capacity.
THEOREM TypeCorrect == Spec => []TypeOK
  BY TypeInit, TypeStep, PTL DEF Spec

-----------------------------------------------------------------------------
(* Under on_invalid = "warn", a driver that starts from an empty baseline  *)
(* tracks everything it serves.                                            *)

TrackingPolicy == OwnsCatalog /\ OnInvalid = "Warn"

LEMMA TrackedStep ==
  ASSUME TrackingPolicy, TypeOK, TrackedInv, [Next]_vars
  PROVE  TrackedInv'
<1> USE DEF TrackedInv
<1>1. ASSUME NEW id \in Ids, Write(id) \/ Remove(id) \/ Read(id) PROVE TrackedInv'
  BY <1>1 DEF Write, Remove, Read, Updates, Additions, Removals
<1>2. CASE Spawn
  BY <1>2 DEF TrackingPolicy, OwnsCatalog, Spawn, Nothing
<1>3. CASE Receive \/ Tick
  BY <1>3 DEF Receive, Tick, StartScan
<1>4. ASSUME NEW l \in Locations, ScanLocation(l) \/ ScanFails(l) PROVE TrackedInv'
  BY <1>4 DEF ScanLocation, ScanFails
<1>5. CASE Discovered
  BY <1>5 DEF Discovered
<1>6. ASSUME NEW id \in Ids, Build(id) PROVE TrackedInv'
  BY <1>6 DEF Build
<1>7. CASE StartApply
  BY <1>7 DEF StartApply, Updates, Additions, Removals
<1>8. ASSUME NEW id \in Ids, Install(id) PROVE TrackedInv'
  <2>1. /\ pc = "apply" /\ pc' = "apply" /\ todo' = todo \ {id} /\ listing[id] # 0
        /\ \A i \in Ids : i # id => catalog'[i] = catalog[i]
    BY <1>8 DEF Install, Due, FirstOf, TypeOK, Updates, Additions, Removals
  <2> QED BY <1>8, <2>1 DEF Install, Updates, Additions, Removals
<1>9. ASSUME NEW id \in Ids, SkipInvalid(id) PROVE TrackedInv'
  <2>1. pc = "apply" /\ listing[id] # 0
    BY <1>9 DEF SkipInvalid, Due, FirstOf, Updates, Additions, Removals
  <2> QED BY <1>9, <2>1 DEF SkipInvalid, Updates, Additions, Removals
<1>10. ASSUME NEW id \in Ids, AbortInvalid(id) PROVE TrackedInv'
  BY <1>10 DEF AbortInvalid, TrackingPolicy
<1>11. ASSUME NEW id \in Ids, Uninstall(id) PROVE TrackedInv'
  <2>1. /\ pc = "apply" /\ pc' = "apply" /\ catalog'[id] = 0
        /\ \A i \in Ids : i # id => catalog'[i] = catalog[i]
    BY <1>11 DEF Uninstall, Due, TypeOK
  <2> QED BY <1>11, <2>1 DEF Uninstall, Updates, Additions, Removals
<1>12. CASE Commit
  BY <1>12 DEF Commit
<1>13. CASE UNCHANGED vars
  BY <1>13 DEF Updates, Additions, Removals
<1> QED
  BY <1>1, <1>2, <1>3, <1>4, <1>5, <1>6, <1>7, <1>8, <1>9, <1>10, <1>11,
     <1>12, <1>13 DEF Next, Environment, Progress, Failure

\* Between two reconciles the baseline holds every source the catalog serves,
\* so every one of them can still be diffed as a removal: whatever fails, when
\* failed sources are skipped and the driver populates the catalog itself.
THEOREM Tracked == Spec => []ServedIsTracked
<1> DEFINE Inv == TrackingPolicy => TrackedInv
<1>1. Init => Inv
  BY DEF Init, TrackingPolicy, OwnsCatalog, TrackedInv, Nothing
<1>2. TypeOK /\ Inv /\ [Next]_vars => Inv'
  BY TrackedStep, KindStep DEF TrackingPolicy
<1>3. Inv => ServedIsTracked
  BY DEF TrackedInv, TrackingPolicy, ServedIsTracked, Settled
<1> QED BY <1>1, <1>2, <1>3, TypeCorrect, PTL DEF Spec

-----------------------------------------------------------------------------
(* Starting from an empty baseline, what the baseline records as current   *)
(* is served: under "abort" whatever fails, under "warn" when no listing   *)
(* or build fails for a reason other than the file.                        *)

ServingPolicy == OwnsCatalog /\ (OnInvalid = "Abort" \/ MaxErrors = 0)

\* The part of ServedInv that later versions can disturb.
LEMMA PastStep == TypeOK /\ Past /\ [Next]_vars => Past'
<1> SUFFICES ASSUME TypeOK, Past, [Next]_vars PROVE Past'
  OBVIOUS
<1> USE DEF Past
<1>0. clock \in Nat /\ 0 \in 0..clock
  BY DEF TypeOK, Versions
<1>1. ASSUME NEW id \in Ids, Write(id) PROVE Past'
  <2>1. /\ clock' = clock + 1 /\ listing' = listing /\ baseline' = baseline
        /\ \A i \in Ids : store'[i].version \in {store[i].version, clock + 1}
    BY <1>1 DEF Write, TypeOK
  <2> QED BY <2>1, <1>0
<1>2. ASSUME NEW id \in Ids, Remove(id) PROVE Past'
  <2>1. \A i \in Ids : store'[i].version \in {store[i].version, 0}
    BY <1>2 DEF Remove, TypeOK, Missing
  <2> QED BY <1>2, <2>1, <1>0 DEF Remove
<1>3. ASSUME NEW id \in Ids, Read(id) PROVE Past'
  BY <1>3 DEF Read
<1>4. CASE Spawn \/ Receive \/ Tick
  BY <1>4, <1>0 DEF Spawn, Receive, Tick, StartScan, Nothing
<1>5. ASSUME NEW l \in Locations, ScanLocation(l) \/ ScanFails(l) PROVE Past'
  BY <1>5 DEF ScanLocation, ScanFails
<1>6. CASE Discovered \/ StartApply \/ Commit
  BY <1>6 DEF Discovered, StartApply, Commit
<1>7. ASSUME NEW id \in Ids,
             Build(id) \/ Install(id) \/ SkipInvalid(id) \/ AbortInvalid(id) \/ Uninstall(id)
      PROVE Past'
  BY <1>7 DEF Build, Install, SkipInvalid, AbortInvalid, Uninstall
<1>8. CASE UNCHANGED vars
  BY <1>8
<1> QED BY <1>1, <1>2, <1>3, <1>4, <1>5, <1>6, <1>7, <1>8
        DEF Next, Environment, Progress, Failure

\* What a write or a removal in the store leaves true of every file: it keeps
\* its version and readability, or has none that was seen before.
LEMMA StoreStep ==
  ASSUME TypeOK, Past, NEW id \in Ids, Write(id) \/ Remove(id) \/ Read(id), NEW i \in Ids
  PROVE  \/ store'[i] = store[i]
         \/ store'[i].version \notin {listing[i], baseline[i]} \ {0}
<1>0. clock \in Nat /\ listing[i] \in 0..clock /\ baseline[i] \in 0..clock
  BY DEF TypeOK, Past, Versions
<1>1. CASE Write(id)
  <2>1. store'[i] = store[i] \/ store'[i].version = clock + 1
    BY <1>1 DEF Write, TypeOK
  <2>2. clock + 1 \notin 0..clock
    BY <1>0
  <2> QED BY <2>1, <2>2, <1>0
<1>2. CASE Remove(id)
  BY <1>2 DEF Remove, TypeOK, Missing
<1>3. CASE Read(id)
  BY <1>3 DEF Read
<1> QED BY <1>1, <1>2, <1>3

LEMMA ServedStep ==
  ASSUME ServingPolicy, TypeOK, ServedInv, [Next]_vars
  PROVE  ServedInv'
<1>0. Past'
  BY PastStep DEF ServedInv
<1>k. OnInvalid' = OnInvalid
  BY KindStep
<1> USE <1>k
<1>1. ASSUME NEW id \in Ids, Write(id) \/ Remove(id) \/ Read(id) PROVE ServedInv'
  <2>1. UNCHANGED <<driver, catalog>>
    BY <1>1 DEF Write, Remove, Read
  <2>2. ASSUME NEW i \in Ids
        PROVE /\ Served(i) => Served(i)'
              /\ ListingServed(i) => ListingServed(i)'
              /\ BuiltAsListed(i) => BuiltAsListed(i)'
              /\ baseline'[i] # 0 /\ baseline'[i] = store'[i].version
                   => baseline[i] # 0 /\ baseline[i] = store[i].version
    <3>1. \/ store'[i] = store[i]
          \/ store'[i].version \notin {listing[i], baseline[i]} \ {0}
      BY <1>1, StoreStep DEF ServedInv
    <3> QED BY <2>1, <3>1 DEF Served, ListingServed, BuiltAsListed
  <2>3. ListedInOrder'
    BY <2>1, <2>2 DEF ServedInv, ListedInOrder
  <2>4. Updates' = Updates /\ Additions' = Additions /\ Removals' = Removals
    BY <2>1 DEF Updates, Additions, Removals
  <2>5. /\ pc = "build" => \A i \in (Updates \cup Additions) \ todo : BuiltAsListed(i)'
        /\ pc = "apply" => \A i \in todo \ Removals : BuiltAsListed(i)'
        /\ pc = "apply" => \A i \in Ids \ todo : ListingServed(i)'
    BY <2>2 DEF ServedInv, Updates, Additions, TypeOK
  <2>6. pc # "apply" \/ ~ (todo \subseteq Removals) => \A i \in Ids : Served(i)'
    BY <2>2 DEF ServedInv
  <2> QED BY <1>0, <2>1, <2>3, <2>4, <2>5, <2>6 DEF ServedInv, Nothing
<1>2. CASE Spawn
  <2>1. pc' = "idle" /\ seeded' /\ baseline' = Nothing
    BY <1>2 DEF Spawn, ServingPolicy, OwnsCatalog
  <2> QED BY <1>0, <2>1 DEF ServedInv, ListedInOrder, Served, Nothing
<1>3. CASE Receive \/ Tick
  <2>1. /\ pc = "idle" /\ pc' \in {"idle", "scan"}
        /\ UNCHANGED <<store, seeded, baseline, catalog>>
        /\ pc' = "scan" => listing' = Nothing
    BY <1>3 DEF Receive, Tick, StartScan
  <2> QED BY <1>0, <2>1 DEF ServedInv, ListedInOrder, Served, Nothing
<1>4. ASSUME NEW l \in Locations, ScanLocation(l) PROVE ServedInv'
  <2>1. /\ pc = "scan" /\ pc' = "scan"
        /\ UNCHANGED <<store, seeded, baseline, catalog>>
        /\ \A i \in Ids : listing'[i] \in {listing[i], store[i].version}
    BY <1>4 DEF ScanLocation, TypeOK
  <2> QED BY <1>0, <2>1 DEF ServedInv, ListedInOrder, Served
<1>5. ASSUME NEW l \in Locations, ScanFails(l) PROVE ServedInv'
  <2>1. /\ pc = "scan" /\ pc' \in {"scan", "idle"}
        /\ UNCHANGED <<store, seeded, baseline, catalog, listing>>
    BY <1>5 DEF ScanFails
  <2> QED BY <1>0, <2>1 DEF ServedInv, ListedInOrder, Served
<1>6. CASE Discovered
  <2>1. /\ pc = "scan" /\ pc' = "build" /\ todo' = Updates \cup Additions
        /\ UNCHANGED <<store, seeded, baseline, catalog, listing>>
    BY <1>6 DEF Discovered, ServedInv
  <2>2. Updates' = Updates /\ Additions' = Additions
    BY <2>1 DEF Updates, Additions
  <2> QED BY <1>0, <2>1, <2>2 DEF ServedInv, ListedInOrder, Served
<1>7. ASSUME NEW id \in Ids, Build(id) PROVE ServedInv'
  <2>1. /\ pc = "build" /\ pc' = "build" /\ todo' = todo \ {id}
        /\ UNCHANGED <<store, seeded, baseline, catalog, listing>>
        /\ \A i \in Ids : i # id => built'[i] = built[i]
    BY <1>7 DEF Build, TypeOK
  <2>2. Updates' = Updates /\ Additions' = Additions
    BY <2>1 DEF Updates, Additions
  <2>3. \/ store[id].readable /\ built'[id] = store[id].version
        \/ ~store[id].readable
        \/ built'[id] = 0 /\ OnInvalid = "Abort"
    BY <1>7, BoundsAssumption DEF Build, TypeOK, ServingPolicy
  <2>4. BuiltAsListed(id)'
    BY <2>1, <2>3 DEF BuiltAsListed
  <2>5. \A i \in Ids : i # id /\ BuiltAsListed(i) => BuiltAsListed(i)'
    BY <2>1 DEF BuiltAsListed
  <2> QED BY <1>0, <2>1, <2>2, <2>4, <2>5 DEF ServedInv, ListedInOrder, Served, Updates, Additions
<1>8. CASE StartApply
  <2>1. /\ pc = "build" /\ pc' = "apply" /\ todo = {}
        /\ todo' = Updates \cup Additions \cup Removals
        /\ UNCHANGED <<store, seeded, baseline, catalog, listing, built>>
    BY <1>8 DEF StartApply
  <2>2. Updates' = Updates /\ Additions' = Additions /\ Removals' = Removals
    BY <2>1 DEF Updates, Additions, Removals
  <2>3. \A i \in Ids : /\ Served(i)' <=> Served(i)
                       /\ ListingServed(i)' <=> ListingServed(i)
                       /\ BuiltAsListed(i)' <=> BuiltAsListed(i)
    BY <2>1 DEF Served, ListingServed, BuiltAsListed
  <2>4. \A i \in Ids \ todo' : ListingServed(i)
    BY <2>1 DEF ServedInv, Served, ListingServed, Updates, Additions, Removals, TypeOK
  <2>5. ListedInOrder'
    BY <2>1 DEF ServedInv, ListedInOrder
  <2>6. \A i \in todo' \ Removals : BuiltAsListed(i)'
    BY <2>1, <2>3 DEF ServedInv, Updates, Additions, Removals
  <2>7. \A i \in Ids : Served(i)'
    BY <2>1, <2>3 DEF ServedInv
  <2> QED BY <1>0, <2>1, <2>2, <2>3, <2>4, <2>5, <2>6, <2>7 DEF ServedInv
<1>9. ASSUME NEW id \in Ids, Install(id) PROVE ServedInv'
  <2>1. /\ pc = "apply" /\ pc' = "apply" /\ todo' = todo \ {id} /\ id \in todo
        /\ id \notin Removals /\ built[id] # 0 /\ catalog'[id] = built[id]
        /\ UNCHANGED <<store, seeded, baseline, listing, built>>
        /\ \A i \in Ids : i # id => catalog'[i] = catalog[i]
    BY <1>9 DEF Install, Due, FirstOf, TypeOK
  <2>2. Updates' = Updates /\ Additions' = Additions /\ Removals' = Removals
    BY <2>1 DEF Updates, Additions, Removals
  <2>3. ListingServed(id)'
    BY <2>1 DEF ServedInv, BuiltAsListed, ListingServed
  <2>4. Served(id)'
    BY <2>1 DEF ServedInv, ListedInOrder, Served, Updates, Additions, Removals
  <2>5. \A i \in Ids : i # id => /\ Served(i)' <=> Served(i)
                                 /\ ListingServed(i)' <=> ListingServed(i)
    BY <2>1 DEF Served, ListingServed
  <2>6. \A i \in Ids : BuiltAsListed(i)' <=> BuiltAsListed(i)
    BY <2>1 DEF BuiltAsListed
  <2>7. ListedInOrder'
    BY <2>1 DEF ServedInv, ListedInOrder
  <2>8. \A i \in todo' \ Removals : BuiltAsListed(i)'
    BY <2>1, <2>6 DEF ServedInv, TypeOK
  <2>9. \A i \in Ids \ todo' : ListingServed(i)'
    BY <2>1, <2>3, <2>5 DEF ServedInv
  <2>10. \A i \in Ids : Served(i)'
    BY <2>1, <2>4, <2>5 DEF ServedInv
  <2> QED BY <1>0, <2>1, <2>2, <2>7, <2>8, <2>9, <2>10 DEF ServedInv
<1>10. ASSUME NEW id \in Ids, SkipInvalid(id) PROVE ServedInv'
  <2>1. /\ pc = "apply" /\ pc' = "apply" /\ todo' = todo \ {id} /\ id \in todo
        /\ id \notin Removals /\ built[id] = 0 /\ OnInvalid = "Warn"
        /\ UNCHANGED <<store, seeded, baseline, listing, built, catalog>>
    BY <1>10 DEF SkipInvalid, Due, FirstOf
  <2>2. Updates' = Updates /\ Additions' = Additions /\ Removals' = Removals
    BY <2>1 DEF Updates, Additions, Removals
  <2>3. ListingServed(id)
    BY <2>1 DEF ServedInv, BuiltAsListed, ListingServed
  <2>4. \A i \in Ids : /\ Served(i)' <=> Served(i)
                       /\ ListingServed(i)' <=> ListingServed(i)
                       /\ BuiltAsListed(i)' <=> BuiltAsListed(i)
    BY <2>1 DEF Served, ListingServed, BuiltAsListed
  <2>5. ListedInOrder'
    BY <2>1 DEF ServedInv, ListedInOrder
  <2>6. \A i \in todo' \ Removals : BuiltAsListed(i)'
    BY <2>1, <2>4 DEF ServedInv, TypeOK
  <2>7. \A i \in Ids \ todo' : ListingServed(i)'
    BY <2>1, <2>3, <2>4 DEF ServedInv
  <2>8. \A i \in Ids : Served(i)'
    BY <2>1, <2>4 DEF ServedInv
  <2> QED BY <1>0, <2>1, <2>2, <2>5, <2>6, <2>7, <2>8 DEF ServedInv
<1>11. ASSUME NEW id \in Ids, AbortInvalid(id) PROVE ServedInv'
  <2>1. /\ pc = "apply" /\ pc' = "idle" /\ id \in todo \ Removals
        /\ UNCHANGED <<store, seeded, baseline, catalog>>
    BY <1>11 DEF AbortInvalid, Due, FirstOf
  <2> QED BY <1>0, <2>1 DEF ServedInv, ListedInOrder, Served
<1>12. ASSUME NEW id \in Ids, Uninstall(id) PROVE ServedInv'
  <2>1. /\ pc = "apply" /\ pc' = "apply" /\ todo' = todo \ {id} /\ id \in todo
        /\ id \in Removals
        /\ UNCHANGED <<store, seeded, baseline, listing, built>>
        /\ \A i \in Ids : i # id => catalog'[i] = catalog[i]
    BY <1>12 DEF Uninstall, Due, FirstOf, TypeOK
  <2>2. Updates' = Updates /\ Additions' = Additions /\ Removals' = Removals
    BY <2>1 DEF Updates, Additions, Removals
  <2>3. \A j \in todo : j \in Removals
    <3>1. \A j \in todo : Phase(id) <= Phase(j)
      BY <1>12 DEF Uninstall, Due, FirstOf
    <3>2. Phase(id) = 3
      BY <2>1 DEF Phase, Updates, Additions, Removals
    <3> QED BY <3>1, <3>2, <2>1 DEF Phase, ServedInv
  <2>4. ListingServed(id)'
    BY <2>1 DEF ListingServed, Removals
  <2>5. \A i \in Ids : i # id => (ListingServed(i)' <=> ListingServed(i))
    BY <2>1 DEF ListingServed
  <2> QED BY <1>0, <2>1, <2>2, <2>3, <2>4, <2>5 DEF ServedInv, ListedInOrder
<1>13. CASE Commit
  <2>1. /\ pc = "apply" /\ pc' = "idle" /\ todo = {} /\ baseline' = listing
        /\ UNCHANGED <<store, seeded, catalog>>
    BY <1>13 DEF Commit
  <2> QED BY <1>0, <2>1 DEF ServedInv, ListedInOrder, ListingServed, Served
<1>14. CASE UNCHANGED vars
  BY <1>14 DEF ServedInv, Past, ListedInOrder, ListingServed, Served, BuiltAsListed,
               Updates, Additions, Removals
<1> QED
  BY <1>1, <1>2, <1>3, <1>4, <1>5, <1>6, <1>7, <1>8, <1>9, <1>10, <1>11,
     <1>12, <1>13, <1>14 DEF Next, Environment, Progress, Failure

\* Between two reconciles no readable file is in the baseline at its current
\* version while the catalog serves anything else: however writes interleave
\* with listing, build and apply, an apply that fails half-way included.
THEOREM BaselineServed == Spec => []BaselineKept
<1> DEFINE Inv == ServingPolicy => ServedInv
<1>1. Init => Inv
  <2> SUFFICES ASSUME Init, ServingPolicy PROVE ServedInv
    OBVIOUS
  <2>1. Past
    BY DEF Init, Past, Missing, Nothing
  <2> QED BY <2>1 DEF Init, ServedInv, ListedInOrder, Served, Nothing
<1>2. TypeOK /\ Inv /\ [Next]_vars => Inv'
  BY ServedStep, KindStep DEF ServingPolicy
<1>3. Inv => BaselineKept
  BY DEF ServedInv, ServingPolicy, BaselineKept, BaselineIsServed, Settled, Served
<1> QED BY <1>1, <1>2, <1>3, TypeCorrect, PTL DEF Spec

-----------------------------------------------------------------------------
(* A discovery that no failed listing shortens.                            *)

ListedInv == ~SkipFailedLocation =>
  skipped = {} /\ (pc \in {"build", "apply"} => Locations \subseteq scanned)

LEMMA ListedStep ==
  ASSUME TypeOK, ListedInv, [Next]_vars
  PROVE  ListedInv'
<1> USE DEF ListedInv
<1>0. SkipFailedLocation' = SkipFailedLocation
  BY KindStep
<1>1. ASSUME NEW id \in Ids,
             \/ Write(id) \/ Remove(id) \/ Read(id) \/ Build(id)
             \/ Install(id) \/ SkipInvalid(id) \/ AbortInvalid(id) \/ Uninstall(id)
      PROVE ListedInv'
  BY <1>0, <1>1 DEF Write, Remove, Read, Build, Install, SkipInvalid, AbortInvalid,
                    Uninstall, Due
<1>2. CASE Spawn \/ Receive \/ Tick
  BY <1>0, <1>2 DEF Spawn, Receive, Tick, StartScan
<1>3. ASSUME NEW l \in Locations, ScanLocation(l) \/ ScanFails(l) PROVE ListedInv'
  BY <1>0, <1>3 DEF ScanLocation, ScanFails
<1>4. CASE Discovered
  BY <1>0, <1>4 DEF Discovered, Pending
<1>5. CASE StartApply \/ Commit
  BY <1>0, <1>5 DEF StartApply, Commit
<1>6. CASE UNCHANGED vars
  BY <1>0, <1>6
<1> QED BY <1>1, <1>2, <1>3, <1>4, <1>5, <1>6 DEF Next, Environment, Progress, Failure

\* Where a failed listing fails the discovery, no source is ever taken out of
\* the catalog by a reconcile that did not list its location.
THEOREM NoFlapping == Spec => NoFlap
<1>1. Init => ListedInv
  BY DEF Init, ListedInv
<1>2. TypeOK /\ ListedInv /\ [Next]_vars => ListedInv'
  BY ListedStep
<1>3. ASSUME TypeOK, ListedInv, Next, NEW id \in Ids, ~SkipFailedLocation,
             catalog[id] # 0, catalog'[id] = 0
      PROVE  LocOf[id] \in scanned
  <2>1. ASSUME catalog' = catalog PROVE FALSE
    BY <1>3, <2>1
  <2>2. ASSUME NEW i \in Ids, Install(i) PROVE FALSE
    BY <1>3, <2>2 DEF Install, TypeOK
  <2>3. ASSUME NEW i \in Ids, Uninstall(i) PROVE LocOf[id] \in scanned
    BY <1>3, <2>3, LocOfAssumption DEF Uninstall, Due, ListedInv
  <2> QED BY <1>3, <2>1, <2>2, <2>3
          DEF Next, Environment, Progress, Failure, Write, Remove, Read, Spawn, Receive,
              Tick, Discovered, StartApply, Commit, ScanLocation, ScanFails, Build,
              SkipInvalid, AbortInvalid
<1>4. TypeOK /\ ListedInv /\ [Next]_vars =>
        [\A id \in Ids : ~SkipFailedLocation /\ catalog[id] # 0 /\ catalog'[id] = 0
                            => LocOf[id] \in scanned]_vars
  BY <1>3
<1> QED BY <1>1, <1>2, <1>4, TypeCorrect, PTL DEF Spec, NoFlap

-----------------------------------------------------------------------------
(* A file event is lost only when another one will do.                     *)

\* Where a notify trigger drives, nothing has failed and reads are no events.
NotifyPolicy ==
  TriggerKind = "notify" /\ ~ReadEvents /\ OnInvalid = "Warn" /\ errors = 0

\* What the driver knows of a file is what is there, or it will look again.
Seen(version) == \A id \in Ids : version[id] = store[id].version \/ events # << >>

PendingInv ==
  /\ \A i \in DOMAIN events : events[i] = "change"
  /\ skipped = {}
  /\ InitialBaseline = "StartupResolved"
  /\ pc = "idle" => seeded /\ Seen(baseline)
  /\ pc = "scan" => \A id \in Ids : LocOf[id] \in scanned =>
                     listing[id] = store[id].version \/ events # << >>
  /\ pc \in {"build", "apply"} => seeded /\ Seen(listing)

LEMMA PendingStep ==
  ASSUME TypeOK, [Next]_vars, NotifyPolicy, PendingInv, errors' = 0
  PROVE  PendingInv'
<1> USE DEF PendingInv, Seen
<1>k. /\ TriggerKind = "notify" /\ ~ReadEvents /\ OnInvalid = "Warn"
      /\ InitialBaseline' = InitialBaseline
  BY KindStep DEF NotifyPolicy, InitialBaseline
<1>t. events \in Seq({"change", "read"}) /\ errors = 0 /\ errors \in Nat
  BY DEF TypeOK, NotifyPolicy
<1>1. ASSUME NEW id \in Ids, Write(id) \/ Remove(id) PROVE PendingInv'
  <2>1. Emit("change") /\ UNCHANGED driver
    BY <1>1 DEF Write, Remove
  <2>2. CASE pc = "boot"
    BY <2>1, <2>2, <1>k DEF Emit
  <2>3. CASE pc # "boot" /\ Len(events) < ChannelCap
    <3>1. events' = Append(events, "change")
      BY <2>1, <2>3, <1>k DEF Emit
    <3> QED BY <1>k, <1>t, <2>1, <3>1
  <2>4. CASE pc # "boot" /\ ~(Len(events) < ChannelCap)
    <3>1. events' = events /\ events # << >>
      BY <2>1, <2>4, <1>t, BoundsAssumption DEF Emit
    <3> QED BY <1>k, <2>1, <3>1
  <2> QED BY <2>2, <2>3, <2>4
<1>2. ASSUME NEW id \in Ids, Read(id) PROVE PendingInv'
  BY <1>2, <1>k DEF Read
<1>3. CASE Spawn
  BY <1>3, <1>k DEF Spawn, StartScan
<1>4. CASE Receive
  <2>1. events' = Tail(events) /\ events # << >>
    BY <1>4 DEF Receive
  <2>2. StartScan
    BY <1>4, <1>t DEF Receive
  <2>3. \A i \in DOMAIN events' : events'[i] = "change"
    BY <2>1, <1>t
  <2> QED BY <1>k, <2>2, <2>3 DEF StartScan
<1>5. CASE Tick
  BY <1>5, <1>k DEF Tick
<1>6. ASSUME NEW l \in Locations, ScanLocation(l) PROVE PendingInv'
  BY <1>6, <1>k DEF ScanLocation, TypeOK
<1>7. ASSUME NEW l \in Locations, ScanFails(l) PROVE PendingInv'
  BY <1>7, <1>t DEF ScanFails
<1>8. CASE Discovered
  <2>1. \A id \in Ids : LocOf[id] \in scanned
    BY <1>8, LocOfAssumption DEF Discovered, Pending
  <2> QED BY <1>8, <1>k, <2>1 DEF Discovered
<1>9. CASE StartApply \/ Commit
  BY <1>9, <1>k DEF StartApply, Commit
<1>10. ASSUME NEW id \in Ids,
              Build(id) \/ Install(id) \/ SkipInvalid(id) \/ AbortInvalid(id) \/ Uninstall(id)
       PROVE  PendingInv'
  BY <1>10, <1>k DEF Build, Install, SkipInvalid, AbortInvalid, Uninstall, Due
<1>11. CASE UNCHANGED vars
  BY <1>11, <1>k
<1> QED
  BY <1>1, <1>2, <1>3, <1>4, <1>5, <1>6, <1>7, <1>8, <1>9, <1>10, <1>11
  DEF Next, Environment, Progress, Failure

\* The bounded channel may drop events, but whenever the idle driver has not
\* seen what is in a file, an event that will make it look is still queued: for
\* every capacity, as every driver with a notify trigger starts from what the
\* startup resolved.
THEOREM NoChangeLost ==
  ASSUME \A k \in Kinds : k.trigger = "notify" => k.baseline = "StartupResolved"
  PROVE  Spec => []ChangePending
<1> DEFINE Inv == NotifyPolicy => PendingInv
<1>1. Init => Inv
  BY DEF Init, NotifyPolicy, PendingInv, InitialBaseline, TriggerKind
<1>2. ASSUME TypeOK, Inv, [Next]_vars PROVE Inv'
  <2> SUFFICES ASSUME NotifyPolicy' PROVE PendingInv'
    OBVIOUS
  <2>1. errors = 0
    BY <1>2, BoundsAssumption
    DEF TypeOK, NotifyPolicy, Next, Environment, Progress, Failure, Write, Remove, Read,
        Spawn, Receive, Tick, Discovered, StartApply, Commit, ScanLocation, ScanFails,
        Build, Install, SkipInvalid, AbortInvalid, Uninstall
  <2>2. NotifyPolicy /\ errors' = 0
    BY <1>2, <2>1, KindStep DEF NotifyPolicy, TriggerKind, ReadEvents, OnInvalid
  <2> QED BY <1>2, <2>2, PendingStep
<1>3. TypeOK /\ Inv => ChangePending
  BY DEF NotifyPolicy, PendingInv, Seen, ChangePending, Settled, TypeOK
<1> QED BY <1>1, <1>2, <1>3, TypeCorrect, PTL DEF Spec

-----------------------------------------------------------------------------
(* The refinement of CatalogSync.                                          *)

\* A step that changes neither the files nor the catalog leaves `held` alone.
LEMMA QuietStep ==
  ASSUME TypeOK, HeldInv, SyncNext, UNCHANGED <<store, catalog>>
  PROVE  held' = held
  BY DEF HeldInv, SyncNext, TypeOK

\* A step that changes only files adds their new versions to `held`.
LEMMA FileStep ==
  ASSUME TypeOK, TypeOK', HeldInv, SyncNext, UNCHANGED catalog
  PROVE  /\ held' \in [Ids -> SUBSET Versions]
         /\ \A id \in Ids : held'[id] = held[id] \cup {store'[id].version}
<1>1. \A id \in Ids : store'[id].version \in Versions
  BY DEF TypeOK, Content
<1>2. held' = [id \in Ids |-> held[id] \cup {store'[id].version}]
  BY DEF SyncNext
<1> QED BY <1>1, <1>2 DEF HeldInv

\* What publishing one source leaves of `held`.
LEMMA PublishStep ==
  ASSUME TypeOK, HeldInv, SyncNext, UNCHANGED store, NEW id \in Ids,
         \A i \in Ids : i # id => catalog'[i] = catalog[i]
  PROVE  /\ held' \in [Ids -> SUBSET Versions]
         /\ \A i \in Ids : i # id => held'[i] = held[i]
         /\ held'[id] = IF catalog'[id] # catalog[id] THEN {store[id].version}
                                                      ELSE held[id]
<1>1. \A i \in Ids : store[i].version \in held[i] /\ store[i].version \in Versions
  BY DEF HeldInv, TypeOK, Content
<1>2. held' = [i \in Ids |-> IF catalog'[i] # catalog[i] THEN {store[i].version}
                             ELSE held[i] \cup {store[i].version}]
  BY DEF SyncNext
<1> QED BY <1>1, <1>2 DEF HeldInv

LEMMA HeldStep ==
  ASSUME ~SkipFailedLocation, TypeOK, TypeOK', HeldInv, [SyncNext]_<<vars, held>>
  PROVE  HeldInv'
<1>0. CASE UNCHANGED <<vars, held>>
  BY <1>0 DEF HeldInv, Updates, Additions, Removals
<1> SUFFICES ASSUME SyncNext PROVE HeldInv'
  BY <1>0
<1>1. ASSUME NEW id \in Ids, Write(id) \/ Remove(id) \/ Read(id) PROVE HeldInv'
  <2>1. UNCHANGED <<driver, catalog>>
    BY <1>1 DEF Write, Remove, Read
  <2>2. /\ held' \in [Ids -> SUBSET Versions]
        /\ \A i \in Ids : held[i] \subseteq held'[i] /\ store'[i].version \in held'[i]
    BY <2>1, FileStep
  <2>3. Updates' = Updates /\ Additions' = Additions /\ Removals' = Removals
    BY <2>1 DEF Updates, Additions, Removals
  <2> QED BY <2>1, <2>2, <2>3 DEF HeldInv, TypeOK, Updates, Additions
<1>2. CASE Spawn \/ Receive \/ Tick
  <2>1. /\ UNCHANGED <<store, catalog>> /\ pc' \in {"idle", "scan"}
        /\ skipped' \in {skipped, {}} /\ (pc' = "scan" => scanned' = {})
    BY <1>2 DEF Spawn, Receive, Tick, StartScan
  <2> QED BY <2>1, QuietStep DEF HeldInv
<1>3. ASSUME NEW l \in Locations, ScanLocation(l) PROVE HeldInv'
  <2>1. /\ UNCHANGED <<store, catalog, skipped>> /\ pc = "scan" /\ pc' = "scan"
        /\ scanned' = scanned \cup {l}
        /\ \A i \in Ids : listing'[i] = IF LocOf[i] = l THEN store[i].version
                                                        ELSE listing[i]
    BY <1>3 DEF ScanLocation, TypeOK
  <2> QED BY <2>1, QuietStep DEF HeldInv
<1>4. ASSUME NEW l \in Locations, ScanFails(l) PROVE HeldInv'
  <2>1. UNCHANGED <<store, catalog, skipped>> /\ pc' = "idle"
    BY <1>4 DEF ScanFails
  <2> QED BY <2>1, QuietStep DEF HeldInv
<1>5. CASE Discovered
  <2>1. /\ UNCHANGED <<store, catalog, skipped, scanned, listing>> /\ pc = "scan"
        /\ pc' \in {"idle", "build"} /\ Pending = {}
        /\ pc' = "build" => todo' = Updates \cup Additions /\ UNCHANGED baseline
    BY <1>5 DEF Discovered
  <2>2. pc' = "build" => Updates' = Updates /\ Additions' = Additions
    BY <2>1 DEF Updates, Additions
  <2> QED BY <2>1, <2>2, QuietStep DEF HeldInv, Pending
<1>6. ASSUME NEW id \in Ids, Build(id) PROVE HeldInv'
  <2>1. /\ UNCHANGED <<store, catalog, skipped, scanned, listing, baseline>>
        /\ pc = "build" /\ pc' = "build" /\ todo' = todo \ {id}
        /\ built'[id] \in {0, store[id].version}
        /\ \A i \in Ids : i # id => built'[i] = built[i]
    BY <1>6 DEF Build, TypeOK
  <2>2. Updates' = Updates /\ Additions' = Additions
    BY <2>1 DEF Updates, Additions
  <2> QED BY <2>1, <2>2, QuietStep DEF HeldInv, Updates, Additions
<1>7. CASE StartApply
  <2>1. /\ UNCHANGED <<store, catalog, skipped, scanned, listing, baseline, built>>
        /\ pc = "build" /\ pc' = "apply" /\ todo = {}
        /\ todo' = Updates \cup Additions \cup Removals
    BY <1>7 DEF StartApply
  <2>2. Updates' = Updates /\ Additions' = Additions /\ Removals' = Removals
    BY <2>1 DEF Updates, Additions, Removals
  <2>3. \A i \in todo' : i \in Ids /\ listing[i] \in held[i]
    BY <2>1, LocOfAssumption DEF HeldInv, Updates, Additions, Removals
  <2>4. \A i \in todo' \ Removals : built[i] # 0 => built[i] \in held[i]
    BY <2>1 DEF HeldInv
  <2> QED BY <2>1, <2>2, <2>3, <2>4, QuietStep DEF HeldInv
<1>8. ASSUME NEW id \in Ids, Install(id) \/ Uninstall(id) PROVE HeldInv'
  <2>1. /\ UNCHANGED <<store, skipped, scanned, listing, baseline, built>>
        /\ pc = "apply" /\ pc' = "apply" /\ todo' = todo \ {id}
        /\ \A i \in Ids : i # id => catalog'[i] = catalog[i]
    BY <1>8 DEF Install, Uninstall, Due, TypeOK
  <2>2. Updates' = Updates /\ Additions' = Additions /\ Removals' = Removals
    BY <2>1 DEF Updates, Additions, Removals
  <2>3. /\ held' \in [Ids -> SUBSET Versions]
        /\ \A i \in Ids : i # id => held'[i] = held[i]
        /\ \A i \in Ids : store'[i].version \in held'[i]
    BY <2>1, PublishStep DEF HeldInv
  <2> QED BY <2>1, <2>2, <2>3 DEF HeldInv, TypeOK
<1>9. ASSUME NEW id \in Ids, SkipInvalid(id) PROVE HeldInv'
  <2>1. /\ UNCHANGED <<store, catalog, skipped, scanned, listing, baseline, built>>
        /\ pc = "apply" /\ pc' = "apply" /\ todo' = todo \ {id}
    BY <1>9 DEF SkipInvalid, Due
  <2>2. Updates' = Updates /\ Additions' = Additions /\ Removals' = Removals
    BY <2>1 DEF Updates, Additions, Removals
  <2> QED BY <2>1, <2>2, QuietStep DEF HeldInv
<1>10. ASSUME NEW id \in Ids, AbortInvalid(id) PROVE HeldInv'
  BY <1>10, QuietStep DEF AbortInvalid, HeldInv
<1>11. CASE Commit
  BY <1>11, QuietStep DEF Commit, HeldInv
<1> QED BY <1>1, <1>2, <1>3, <1>4, <1>5, <1>6, <1>7, <1>8, <1>9, <1>10, <1>11
        DEF SyncNext, Next, Environment, Progress, Failure

LEMMA SyncStep ==
  ASSUME TypeOK, TypeOK', HeldInv, [SyncNext]_<<vars, held>>
  PROVE  [CS!Step]_<<[id \in Ids |-> store[id].version], catalog, held>>
<1> DEFINE current == [id \in Ids |-> store[id].version]
<1>0. CASE UNCHANGED <<vars, held>>
  BY <1>0
<1> SUFFICES ASSUME SyncNext
             PROVE  CS!Step \/ UNCHANGED <<current, catalog, held>>
  BY <1>0
<1>1. ASSUME NEW id \in Ids, Write(id) \/ Remove(id) \/ Read(id)
      PROVE  CS!FileChanges(id)
  <2>1. UNCHANGED catalog /\ \A i \in Ids : i # id => store'[i] = store[i]
    BY <1>1 DEF Write, Remove, Read, TypeOK
  <2>2. store'[id].version \in Versions
    BY DEF TypeOK, Content
  <2>3. current' = [current EXCEPT ![id] = store'[id].version]
    BY <2>1
  <2>4. held' = [held EXCEPT ![id] = @ \cup {store'[id].version}]
    <3>1. ASSUME NEW i \in Ids, i # id PROVE held'[i] = held[i]
      <4>1. held'[i] = held[i] \cup {store[i].version}
        BY <2>1, <3>1, FileStep
      <4>2. store[i].version \in held[i]
        BY DEF HeldInv
      <4> QED BY <4>1, <4>2
    <3>2. held'[id] = held[id] \cup {store'[id].version}
      BY <2>1, FileStep
    <3>3. held \in [Ids -> SUBSET Versions] /\ held' \in [Ids -> SUBSET Versions]
      BY <2>1, FileStep DEF HeldInv
    <3> QED BY <3>1, <3>2, <3>3
  <2> QED BY <2>1, <2>2, <2>3, <2>4 DEF CS!FileChanges
<1>2. ASSUME NEW id \in Ids, Install(id) \/ Uninstall(id)
      PROVE  CS!SourceChanges(id) \/ UNCHANGED <<current, catalog, held>>
  <2>1. /\ UNCHANGED store /\ pc = "apply" /\ id \in todo
        /\ \A i \in Ids : i # id => catalog'[i] = catalog[i]
    BY <1>2 DEF Install, Uninstall, Due, FirstOf, TypeOK
  <2>2. catalog'[id] \in held[id]
    BY <1>2, <2>1 DEF Install, Uninstall, HeldInv, Removals, TypeOK
  <2>3. CASE catalog'[id] = catalog[id]
    <3>1. UNCHANGED catalog
      BY <2>1, <2>3 DEF TypeOK
    <3> QED BY <2>1, <3>1, QuietStep
  <2>4. CASE catalog'[id] # catalog[id]
    <3>1. catalog' = [catalog EXCEPT ![id] = catalog'[id]]
      BY <2>1 DEF TypeOK
    <3>2. held' = [held EXCEPT ![id] = {current[id]}]
      BY <2>1, <2>4, PublishStep DEF HeldInv
    <3> QED BY <2>1, <2>2, <3>1, <3>2 DEF CS!SourceChanges
  <2> QED BY <2>3, <2>4
<1>3. ASSUME UNCHANGED <<store, catalog>> PROVE UNCHANGED <<current, catalog, held>>
  BY <1>3, QuietStep
<1>4. \/ UNCHANGED <<store, catalog>>
      \/ \E id \in Ids : \/ Write(id) \/ Remove(id) \/ Read(id)
                         \/ Install(id) \/ Uninstall(id)
  BY DEF SyncNext, Next, Environment, Progress, Failure, Spawn, Receive, Tick,
         Discovered, StartApply, Commit, ScanLocation, ScanFails, Build,
         SkipInvalid, AbortInvalid
<1> QED BY <1>1, <1>2, <1>3, <1>4 DEF CS!Step

\* No kind of driver in use skips a location that it fails to list.
NoneSkips == \A k \in Kinds : ~k.skipFailed

\* A reload driver whose failed listings fail the discovery (a directory, a
\* database) only ever changes a source to a state its file has been in since
\* that source last changed: the detailed driver implements CatalogSync.
THEOREM DriverImplementsSync == NoneSkips => (SyncSpec => CatalogFollowsFiles)
<1>1. SyncInit => CS!Start /\ HeldInv /\ Init
  <2> SUFFICES ASSUME SyncInit PROVE CS!Start /\ HeldInv
    BY DEF SyncInit
  <2>1. TypeOK
    BY TypeInit DEF SyncInit
  <2>2. /\ \A id \in Ids : store[id].version \in Versions
        /\ \A id \in Ids : catalog[id] \in {0, store[id].version}
    BY <2>1 DEF SyncInit, Init, TypeOK, Content
  <2>3. held = [id \in Ids |-> {store[id].version}]
    BY DEF SyncInit
  <2>4. CS!Start
    BY <2>1, <2>2, <2>3 DEF CS!Start, TypeOK
  <2>5. HeldInv
    BY <2>2, <2>3 DEF SyncInit, Init, HeldInv
  <2> QED BY <2>4, <2>5
<1>2. TypeOK /\ [SyncNext]_<<vars, held>> => TypeOK'
  BY TypeStep DEF SyncNext
<1>3. NoneSkips /\ TypeOK /\ TypeOK' /\ HeldInv /\ [SyncNext]_<<vars, held>>
        => HeldInv'
  BY HeldStep DEF NoneSkips, TypeOK, SkipFailedLocation
<1>4. TypeOK /\ TypeOK' /\ HeldInv /\ [SyncNext]_<<vars, held>>
        => [CS!Step]_<<[id \in Ids |-> store[id].version], catalog, held>>
  BY SyncStep
<1>5. CASE ~NoneSkips
  BY <1>5
<1>6. CASE NoneSkips
  <2>1. TypeOK /\ TypeOK' /\ HeldInv /\ [SyncNext]_<<vars, held>> => HeldInv'
    BY <1>3, <1>6
  <2>2. Init => TypeOK
    BY TypeInit
  <2> QED BY <1>1, <1>2, <1>4, <2>1, <2>2, PTL DEF SyncSpec, CatalogFollowsFiles, CS!Sync
<1> QED BY <1>5, <1>6
=============================================================================
