-------------------------- MODULE TileServingProofs --------------------------
(***************************************************************************)
(* Theorems about TileServing and its history, for any number of requests, *)
(* sources, keys and versions, whichever keys are cached and whichever     *)
(* sources detect that their file was modified.                            *)
(***************************************************************************)
EXTENDS TileServingHistory, TLAPS

USE DEF disk, driver, vars, Versions

LEMMA SourceIdTypes ==
  ASSUME TypeOK, NEW r \in Requests
  PROVE  SourceId(r) \in Sources /\ req[r].key \in Keys
  BY SourceOfAssumption DEF TypeOK, Request, SourceId

-----------------------------------------------------------------------------
(* Type correctness.                                                       *)

LEMMA TypeInit == Init => TypeOK
<1> SUFFICES ASSUME Init PROVE TypeOK
  OBVIOUS
<1>1. 0 \in Versions /\ 1 \in Versions
  BY VersionAssumption
<1>2. (CHOOSE k \in Keys : TRUE) \in Keys
  BY KeysAssumption
<1>3. (CHOOSE s \in Sources : TRUE) \in Sources
  BY KeysAssumption, SourceOfAssumption
<1>4. req \in [Requests -> Request]
  <2>1. [pc : {"idle"}, key : {CHOOSE k \in Keys : TRUE}, src : {0}, tile : {0},
         retried : {FALSE}, answer : {"none"}] \subseteq Request
    BY <1>1, <1>2 DEF Request
  <2> QED BY <2>1 DEF Init
<1>5. file \in [Sources -> Versions]
  BY <1>1 DEF Init
<1> QED BY <1>1, <1>3, <1>4, <1>5 DEF Init, TypeOK

\* What a request's record may become, field by field.
LEMMA RequestTypes ==
  ASSUME TypeOK, NEW r \in Requests
  PROVE  /\ req[r] \in Request
         /\ \A pc \in {"idle", "lookup", "compute", "fill", "wait", "reload",
                       "invalidate", "swap"} : [req[r] EXCEPT !.pc = pc] \in Request
         /\ \A pc \in {"idle", "fill"}, v \in Versions :
               [req[r] EXCEPT !.pc = pc, !.tile = v] \in Request
         /\ \A v \in Versions :
               [req[r] EXCEPT !.pc = "idle", !.tile = v, !.answer = "tile"] \in Request
         /\ \A v \in Versions :
               [req[r] EXCEPT !.pc = "invalidate", !.src = v, !.retried = TRUE] \in Request
         /\ [req[r] EXCEPT !.pc = "idle", !.answer = "error"] \in Request
<1>1. req[r] \in Request
  BY DEF TypeOK
<1> QED BY <1>1 DEF Request

\* The others that learn what r's computation came to wait for it.
LEMMA PartyWaits ==
  ASSUME NEW r \in Requests, NEW q \in Party(r), q # r
  PROVE  req[q].pc = "wait" /\ req[q].key = req[r].key /\ leader[req[r].key] = r
  BY DEF Party

\* A request that leads a computation is computing its own key's tile, so it
\* waits for none.
Leading == \A k \in Keys : leader[k] # Nobody =>
             req[leader[k]].key = k /\ req[leader[k]].pc \in {"compute", "fill"}

LEMMA TypeStep == TypeOK /\ [Next]_vars => TypeOK'
<1> SUFFICES ASSUME TypeOK, [Next]_vars PROVE TypeOK'
  OBVIOUS
<1>a. Leading /\ leader \in [Keys -> Requests \cup {Nobody}] /\ req \in [Requests -> Request]
  BY DEF TypeOK, Leading
<1>b. 0 \in Versions
  BY VersionAssumption
<1>c. ASSUME NEW r \in Requests
      PROVE  Dismissed(r) \in [Keys -> Requests \cup {Nobody}]
  BY <1>a DEF Dismissed
<1>1. ASSUME NEW s \in Sources, Replace(s) PROVE TypeOK'
  <2>1. clock + 1 \in Versions
    BY <1>1, VersionAssumption DEF TypeOK, Replace
  <2> QED BY <1>1, <2>1 DEF TypeOK, Replace
<1>2. ASSUME NEW s \in Sources, Delete(s) PROVE TypeOK'
  BY <1>2, <1>b DEF TypeOK, Delete
<1>3. ASSUME NEW r \in Requests, NEW k \in Keys, Resolve(r, k) PROVE TypeOK'
  <2>1. catalog[SourceOf[k]] \in Versions
    BY SourceOfAssumption DEF TypeOK
  <2>2. req' \in [Requests -> Request]
    BY <1>3, <1>a, <1>b, <2>1 DEF Resolve, Request
  <2>3. Leading'
    BY <1>3, <1>a DEF Resolve, Leading
  <2> QED BY <1>3, <2>2, <2>3 DEF TypeOK, Resolve, Leading
<1>4. ASSUME NEW r \in Requests, Hit(r) PROVE TypeOK'
  <2>1. cache[req[r].key] \in Versions
    BY <1>a DEF TypeOK, Request
  <2>2. req' \in [Requests -> Request]
    BY <1>4, <1>a, <2>1, RequestTypes DEF Hit
  <2>3. Leading'
    BY <1>4, <1>a DEF Hit, Leading
  <2> QED BY <1>4, <2>2, <2>3 DEF TypeOK, Hit, Leading
<1>5. ASSUME NEW r \in Requests, Miss(r) PROVE TypeOK'
  <2>1. req' \in [Requests -> Request]
    BY <1>5, <1>a, RequestTypes, ZenonT(60) DEF Miss
  <2>2. leader' \in [Keys -> Requests \cup {Nobody}]
    BY <1>5, <1>a DEF Miss
  <2>3. Leading'
    BY <1>5, <1>a, NobodyAssumption DEF Miss, Leading, Request
  <2> QED BY <1>5, <2>1, <2>2, <2>3 DEF TypeOK, Miss, Leading
<1>6. ASSUME NEW r \in Requests, Bypass(r) PROVE TypeOK'
  <2>1. req' \in [Requests -> Request]
    BY <1>6, <1>a, RequestTypes DEF Bypass
  <2>2. Leading'
    BY <1>6, <1>a DEF Bypass, Leading
  <2> QED BY <1>6, <2>1, <2>2 DEF TypeOK, Bypass, Leading
<1>7. ASSUME NEW r \in Requests, Read(r) PROVE TypeOK'
  <2>1. PICK version \in {req[r].src, file[SourceId(r)]} \ {0} :
          req' = [req EXCEPT ![r].pc = "fill", ![r].tile = version]
    BY <1>7 DEF Read
  <2>2. version \in Versions
    BY <1>a, <2>1, SourceIdTypes DEF TypeOK, Request
  <2>3. req' \in [Requests -> Request]
    BY <1>a, <2>1, <2>2, RequestTypes
  <2>4. Leading'
    BY <1>7, <1>a, <2>1 DEF Read, Leading
  <2> QED BY <1>7, <2>3, <2>4 DEF TypeOK, Read, Leading
<1>8. ASSUME NEW r \in Requests, Fill(r) PROVE TypeOK'
  <2>1. req[r].tile \in Versions /\ req[r].key \in Keys
    BY <1>a DEF Request
  <2>2. req' \in [Requests -> Request]
    BY <1>8, <1>a, <2>1, RequestTypes DEF Fill
  <2>3. cache' \in [Keys -> Versions]
    BY <1>8, <2>1 DEF TypeOK, Fill
  <2>4. Leading'
    <3>1. \A q \in Requests : q \notin Party(r) => req'[q] = req[q]
      BY <1>8 DEF Fill
    <3>2. \A k \in Keys : leader'[k] # Nobody => leader[k] = leader'[k] /\ leader[k] # r
      BY <1>8, <1>a, NobodyAssumption DEF Fill, Dismissed
    <3>3. \A k \in Keys : leader'[k] # Nobody => leader[k] \notin Party(r)
      BY <1>a, <3>2, PartyWaits DEF Leading
    <3> QED BY <1>a, <3>1, <3>2, <3>3 DEF Leading
  <2> QED BY <1>8, <1>c, <2>2, <2>3, <2>4 DEF TypeOK, Fill, Leading
<1>9. ASSUME NEW r \in Requests, Fail(r) PROVE TypeOK'
  <2>1. req' \in [Requests -> Request]
    BY <1>9, <1>a, RequestTypes DEF Fail
  <2>2. Leading'
    <3>1. \A q \in Requests : q \notin Party(r) => req'[q] = req[q]
      BY <1>9 DEF Fail
    <3>2. \A k \in Keys : leader'[k] # Nobody => leader[k] = leader'[k] /\ leader[k] # r
      BY <1>9, <1>a, NobodyAssumption DEF Fail, Dismissed
    <3>3. \A k \in Keys : leader'[k] # Nobody => leader[k] \notin Party(r)
      BY <1>a, <3>2, PartyWaits DEF Leading
    <3> QED BY <1>a, <3>1, <3>2, <3>3 DEF Leading
  <2> QED BY <1>9, <1>c, <2>1, <2>2 DEF TypeOK, Fail, Leading
<1>10. ASSUME NEW r \in Requests, Cancel(r) PROVE TypeOK'
  <2>1. req' \in [Requests -> Request]
    BY <1>10, <1>a, RequestTypes DEF Cancel
  <2>2. Leading'
    BY <1>10, <1>a DEF Cancel, Party, Dismissed, Leading
  <2> QED BY <1>10, <1>c, <2>1, <2>2 DEF TypeOK, Cancel, Leading
<1>11. ASSUME NEW r \in Requests, TryReload(r) PROVE TypeOK'
  <2>1. file[SourceId(r)] \in Versions
    BY SourceIdTypes DEF TypeOK
  <2>2. req' \in [Requests -> Request]
    BY <1>11, <1>a, <2>1, RequestTypes DEF TryReload
  <2>3. Leading'
    BY <1>11, <1>a DEF TryReload, Leading
  <2> QED BY <1>11, <2>2, <2>3 DEF TypeOK, TryReload, Leading
<1>d. ASSUME NEW s PROVE Without(s) \in [Keys -> Versions]
  BY <1>b DEF TypeOK, Without
<1>12. ASSUME NEW r \in Requests, InvalidateReloaded(r) PROVE TypeOK'
  <2>1. req' \in [Requests -> Request]
    BY <1>12, <1>a, RequestTypes DEF InvalidateReloaded
  <2>2. Leading'
    BY <1>12, <1>a DEF InvalidateReloaded, Leading
  <2> QED BY <1>12, <1>d, <2>1, <2>2 DEF TypeOK, InvalidateReloaded, Leading
<1>13. ASSUME NEW r \in Requests, InsertReloaded(r) PROVE TypeOK'
  <2>0. req[r].src \in Versions
    BY <1>a DEF Request
  <2>1. req' \in [Requests -> Request]
    BY <1>13, <1>a, RequestTypes DEF InsertReloaded
  <2>2. Leading'
    BY <1>13, <1>a DEF InsertReloaded, Leading
  <2>3. catalog' \in [Sources -> Versions]
    BY <1>13, <2>0 DEF TypeOK, InsertReloaded
  <2> QED BY <1>13, <2>1, <2>2, <2>3 DEF TypeOK, InsertReloaded, Leading
<1>14. ASSUME NEW s \in Sources, Discover(s) PROVE TypeOK'
  BY <1>14 DEF TypeOK, Discover
<1>15. CASE InvalidateUpdated \/ InvalidateRemoved
  BY <1>15, <1>b, <1>d DEF TypeOK, InvalidateUpdated, InvalidateRemoved
<1>16. CASE Insert \/ RemoveSource
  BY <1>16, <1>b DEF TypeOK, Insert, RemoveSource
<1>17. ASSUME NEW k \in Keys, Evict(k) PROVE TypeOK'
  BY <1>17, <1>b DEF TypeOK, Evict
<1>18. CASE UNCHANGED vars
  BY <1>18 DEF TypeOK
<1> QED
  BY <1>1, <1>2, <1>3, <1>4, <1>5, <1>6, <1>7, <1>8, <1>9, <1>10, <1>11, <1>12,
     <1>13, <1>14, <1>15, <1>16, <1>17, <1>18 DEF Next, Serve, Reconcile

\* Every state of the server is well typed, and the leader of a key's
\* single-flight computation is a request that is computing that key's tile.
THEOREM TypeCorrect == Spec => []TypeOK
  BY TypeInit, TypeStep, PTL DEF Spec

-----------------------------------------------------------------------------
(* The catalog and the drivers' baselines.                                 *)

\* What a sink step carries is a version that exists, and what a request that
\* reloads carries is one of a source that asks to be reloaded.
Carried ==
  /\ step \in {"invalidate", "insert"} => fresh # 0
  /\ step = "sweep" /\ ~detects[target] => catalog[target] = 0
  /\ \A r \in Requests :
       /\ req[r].pc \in {"invalidate", "swap"} => req[r].src # 0
       /\ req[r].pc \in {"reload", "invalidate", "swap"} => detects[SourceId(r)]

TrackingInv == Carried /\ ServedIffTracked

LEMMA TrackingStep ==
  ASSUME TypeOK, TrackingInv, [Next]_vars
  PROVE  TrackingInv'
<1> USE DEF TrackingInv, Carried, ServedIffTracked, ServedWhileTracked, TrackedWhileServed
<1>a. /\ req \in [Requests -> Request] /\ catalog \in [Sources -> Versions]
      /\ baseline \in [Sources -> Versions] /\ target \in Sources
  BY DEF TypeOK
<1>s. \A r \in Requests : SourceId(r) \in Sources
  BY SourceIdTypes
<1>1. ASSUME NEW s \in Sources, Replace(s) \/ Delete(s) PROVE TrackingInv'
  BY <1>1 DEF Replace, Delete, SourceId
<1>2. ASSUME NEW r \in Requests, NEW k \in Keys, Resolve(r, k) PROVE TrackingInv'
  <2>1. /\ \A q \in Requests : q # r => req'[q] = req[q]
        /\ req'[r].pc \in {"idle", "lookup"}
    BY <1>2, <1>a DEF Resolve
  <2> QED BY <1>2, <2>1 DEF Resolve, SourceId
<1>3. ASSUME NEW r \in Requests, Hit(r) \/ Miss(r) \/ Bypass(r) \/ Read(r) PROVE TrackingInv'
  <2>1. /\ \A q \in Requests : q # r => req'[q] = req[q]
        /\ req'[r].pc \in {"idle", "wait", "compute", "fill"}
    <3>1. req[r] \in Request
      BY <1>a
    <3>2. CASE Hit(r) \/ Miss(r) \/ Bypass(r)
      BY <1>a, <3>1, <3>2 DEF Hit, Miss, Bypass, Request
    <3>3. CASE Read(r)
      <4>1. PICK v : req' = [req EXCEPT ![r].pc = "fill", ![r].tile = v]
        BY <3>3 DEF Read
      <4> QED BY <1>a, <3>1, <4>1 DEF Request
    <3> QED BY <1>3, <3>2, <3>3
  <2>2. UNCHANGED <<detects, catalog, step, target, fresh, baseline>>
    BY <1>3 DEF Hit, Miss, Bypass, Read
  <2> QED BY <2>1, <2>2 DEF SourceId
<1>4. ASSUME NEW r \in Requests, Fill(r) \/ Cancel(r) PROVE TrackingInv'
  <2>1. \A q \in Requests : req'[q] = req[q] \/ req'[q].pc \in {"idle", "lookup"}
    <3>1. \A q \in Requests : req[q] \in Request
      BY <1>a
    <3>2. CASE Fill(r)
      BY <3>1, <3>2 DEF Fill, Request
    <3>3. CASE Cancel(r)
      BY <3>1, <3>3 DEF Cancel, Request
    <3> QED BY <1>4, <3>2, <3>3
  <2>2. UNCHANGED <<detects, catalog, step, target, fresh, baseline>>
    BY <1>4 DEF Fill, Cancel
  <2> QED BY <2>1, <2>2 DEF SourceId
<1>5. ASSUME NEW r \in Requests, Fail(r) PROVE TrackingInv'
  <2>1. \A q \in Requests :
          \/ req'[q] = req[q]
          \/ req'[q].pc = "idle"
          \/ req'[q].pc = "reload" /\ req'[q].key = req[q].key /\ detects[SourceId(q)]
    <3>1. \A q \in Party(r) : req[q].key = req[r].key
      BY PartyWaits
    <3>2. \A q \in Requests : req[q] \in Request
      BY <1>a
    <3> QED BY <1>5, <3>1, <3>2 DEF Fail, SourceId, Request
  <2>2. UNCHANGED <<detects, catalog, step, target, fresh, baseline>>
    BY <1>5 DEF Fail
  <2> QED BY <2>1, <2>2 DEF SourceId
<1>6. ASSUME NEW r \in Requests, TryReload(r) \/ InvalidateReloaded(r) PROVE TrackingInv'
  <2>1. /\ \A q \in Requests : q # r => req'[q] = req[q]
        /\ req'[r].key = req[r].key
        /\ req[r].pc \in {"reload", "invalidate"}
        /\ req'[r].pc = "idle" \/ req'[r].src # 0
    BY <1>6, <1>a DEF TryReload, InvalidateReloaded, Request
  <2>2. UNCHANGED <<detects, catalog, step, target, fresh, baseline>>
    BY <1>6 DEF TryReload, InvalidateReloaded
  <2> QED BY <2>1, <2>2 DEF SourceId
<1>7. ASSUME NEW r \in Requests, InsertReloaded(r) PROVE TrackingInv'
  <2>1. /\ \A q \in Requests : q # r => req'[q] = req[q]
        /\ req'[r].key = req[r].key /\ req'[r].pc = "lookup"
    BY <1>7, <1>a DEF InsertReloaded, Request
  <2>2. catalog'[SourceId(r)] # 0 /\ detects[SourceId(r)]
    BY <1>7, <1>a, <1>s DEF InsertReloaded
  <2>3. \A s \in Sources : s # SourceId(r) => catalog'[s] = catalog[s]
    BY <1>7, <1>a DEF InsertReloaded
  <2>4. UNCHANGED <<detects, step, target, fresh, baseline>>
    BY <1>7 DEF InsertReloaded
  <2> QED BY <1>a, <1>s, <2>1, <2>2, <2>3, <2>4 DEF SourceId
<1>8. ASSUME NEW s \in Sources, Discover(s) PROVE TrackingInv'
  BY <1>8 DEF Discover, SourceId
<1>9. CASE InvalidateUpdated
  BY <1>9 DEF InvalidateUpdated, SourceId
<1>10. CASE Insert
  BY <1>10, <1>a DEF Insert, SourceId
<1>11. CASE RemoveSource
  BY <1>11, <1>a DEF RemoveSource, SourceId
<1>12. CASE InvalidateRemoved
  BY <1>12, <1>a DEF InvalidateRemoved, SourceId
<1>13. ASSUME NEW k \in Keys, Evict(k) PROVE TrackingInv'
  BY <1>13 DEF Evict, SourceId
<1>14. CASE UNCHANGED vars
  BY <1>14 DEF SourceId
<1> QED
  BY <1>1, <1>2, <1>3, <1>4, <1>5, <1>6, <1>7, <1>8, <1>9, <1>10, <1>11, <1>12,
     <1>13, <1>14 DEF Next, Serve, Reconcile

LEMMA TrackingInit == Init => TrackingInv
  BY DEF Init, TrackingInv, Carried, ServedIffTracked, ServedWhileTracked, TrackedWhileServed

\* The catalog and the baselines of the drivers name the same sources, but for
\* the one being removed: an update never takes its source down, and a request
\* that reloads a source brings back only one whose kind asks to be reloaded.
THEOREM CatalogIsTracked == Spec => []ServedIffTracked
<1>1. TypeOK /\ TrackingInv /\ [Next]_vars => TrackingInv'
  BY TrackingStep
<1>2. TrackingInv => ServedIffTracked
  BY DEF TrackingInv
<1> QED BY <1>1, <1>2, TrackingInit, TypeCorrect, PTL DEF Spec

-----------------------------------------------------------------------------
(* The tiles in the cache.                                                 *)

\* Every version that is served or about to be served is at most the file's.
Ages ==
  /\ \A s \in Sources : /\ {catalog[s], file[s]} \subseteq 0..clock
                        /\ file[s] = 0 \/ catalog[s] <= file[s]
  /\ fresh \in 0..clock
  /\ step # "idle" => file[target] = 0 \/ fresh <= file[target]
  /\ \A r \in Requests : req[r].pc \in {"invalidate", "swap"} =>
       /\ req[r].src \in 0..clock
       /\ file[SourceId(r)] = 0 \/ req[r].src <= file[SourceId(r)]

LEMMA AgesStep == TypeOK /\ Ages /\ [Next]_vars => Ages'
<1> SUFFICES ASSUME TypeOK, Ages, [Next]_vars PROVE Ages'
  OBVIOUS
<1> USE DEF Ages
<1>a. /\ req \in [Requests -> Request] /\ catalog \in [Sources -> Versions]
      /\ file \in [Sources -> Versions] /\ clock \in Nat
      /\ target \in Sources /\ fresh \in Nat
  BY DEF TypeOK
<1>s. \A r \in Requests : SourceId(r) \in Sources
  BY SourceIdTypes
<1>v. \A r \in Requests : req[r] \in Request /\ req[r].src \in Nat
  BY <1>a DEF Request
<1>1. ASSUME NEW s \in Sources, Replace(s) PROVE Ages'
  <2>1. /\ clock' = clock + 1
        /\ file'[s] = clock + 1 /\ \A t \in Sources \ {s} : file'[t] = file[t]
    BY <1>1, <1>a DEF Replace
  <2>2. UNCHANGED <<catalog, req, step, target, fresh>>
    BY <1>1 DEF Replace
  <2>3. 0..clock \subseteq 0..clock' /\ \A v \in 0..clock : v <= clock'
    BY <2>1, <1>a
  <2>4. \A t \in Sources : /\ {catalog'[t], file'[t]} \subseteq 0..clock'
                           /\ file'[t] = 0 \/ catalog'[t] <= file'[t]
    BY <2>1, <2>2, <2>3, <1>a
  <2>5. \A r \in Requests : req'[r].pc \in {"invalidate", "swap"} =>
          /\ req'[r].src \in 0..clock'
          /\ file'[SourceId(r)'] = 0 \/ req'[r].src <= file'[SourceId(r)']
    BY <2>1, <2>2, <2>3, <1>s DEF SourceId
  <2> QED BY <2>1, <2>2, <2>3, <2>4, <2>5, <1>a
<1>2. ASSUME NEW s \in Sources, Delete(s) PROVE Ages'
  <2>1. \A t \in Sources : file'[t] \in {0, file[t]}
    BY <1>2, <1>a DEF Delete
  <2> QED BY <1>2, <2>1, <1>a, <1>s DEF Delete, SourceId
<1>3. ASSUME NEW r \in Requests,
             \/ \E k \in Keys : Resolve(r, k)
             \/ Hit(r) \/ Miss(r) \/ Bypass(r) \/ Read(r) \/ Fill(r) \/ Fail(r) \/ Cancel(r)
      PROVE  Ages'
  <2>1. UNCHANGED <<file, clock, catalog, step, target, fresh>>
    BY <1>3 DEF Resolve, Hit, Miss, Bypass, Read, Fill, Fail, Cancel
  <2>2. \A q \in Requests : req'[q] = req[q] \/ req'[q].pc \notin {"invalidate", "swap"}
    <3>1. CASE \E k \in Keys : Resolve(r, k)
      BY <3>1, <1>a DEF Resolve
    <3>2. CASE Hit(r) \/ Miss(r) \/ Bypass(r)
      BY <3>2, <1>a, <1>v DEF Hit, Miss, Bypass, Request
    <3>3. CASE Read(r)
      <4>1. PICK v : req' = [req EXCEPT ![r].pc = "fill", ![r].tile = v]
        BY <3>3 DEF Read
      <4> QED BY <1>a, <1>v, <4>1 DEF Request
    <3>4. CASE Fill(r)
      BY <3>4, <1>v DEF Fill, Request
    <3>5. CASE Fail(r)
      BY <3>5, <1>v DEF Fail, Request
    <3>6. CASE Cancel(r)
      BY <3>6, <1>v DEF Cancel, Request
    <3> QED BY <1>3, <3>1, <3>2, <3>3, <3>4, <3>5, <3>6
  <2> QED BY <2>1, <2>2 DEF SourceId
<1>4. ASSUME NEW r \in Requests, TryReload(r) PROVE Ages'
  <2>1. \A q \in Requests : q # r => req'[q] = req[q]
    BY <1>4, <1>a DEF TryReload
  <2>2. \/ req'[r].pc = "idle"
        \/ req'[r].key = req[r].key /\ req'[r].src = file[SourceId(r)]
    BY <1>4, <1>a, <1>v DEF TryReload, Request
  <2>3. UNCHANGED <<file, clock, catalog, step, target, fresh>>
    BY <1>4 DEF TryReload
  <2> QED BY <2>1, <2>2, <2>3, <1>a, <1>s DEF SourceId
<1>5. ASSUME NEW r \in Requests, InvalidateReloaded(r) PROVE Ages'
  <2>1. \A q \in Requests : q # r => req'[q] = req[q]
    BY <1>5, <1>a DEF InvalidateReloaded
  <2>2. /\ req[r].pc = "invalidate"
        /\ req'[r].key = req[r].key /\ req'[r].src = req[r].src
    BY <1>5, <1>a, <1>v DEF InvalidateReloaded, Request
  <2>3. UNCHANGED <<file, clock, catalog, step, target, fresh>>
    BY <1>5 DEF InvalidateReloaded
  <2> QED BY <2>1, <2>2, <2>3 DEF SourceId
<1>6. ASSUME NEW r \in Requests, InsertReloaded(r) PROVE Ages'
  <2>1. \A q \in Requests : q # r => req'[q] = req[q]
    BY <1>6, <1>a DEF InsertReloaded
  <2>2. /\ req[r].pc = "swap" /\ req'[r].pc = "lookup"
        /\ catalog'[SourceId(r)] = req[r].src
        /\ \A s \in Sources \ {SourceId(r)} : catalog'[s] = catalog[s]
    BY <1>6, <1>a, <1>v, <1>s DEF InsertReloaded, Request
  <2>3. UNCHANGED <<file, clock, step, target, fresh>>
    BY <1>6 DEF InsertReloaded
  <2> QED BY <2>1, <2>2, <2>3 DEF SourceId
<1>7. ASSUME NEW s \in Sources, Discover(s) PROVE Ages'
  BY <1>7, <1>a DEF Discover, SourceId
<1>8. CASE Insert
  BY <1>8, <1>a DEF Insert, SourceId
<1>9. CASE RemoveSource
  BY <1>9, <1>a DEF RemoveSource, SourceId
<1>10. CASE InvalidateUpdated \/ InvalidateRemoved
  BY <1>10 DEF InvalidateUpdated, InvalidateRemoved, SourceId
<1>11. ASSUME NEW k \in Keys, Evict(k) PROVE Ages'
  BY <1>11 DEF Evict, SourceId
<1>12. CASE UNCHANGED vars
  BY <1>12 DEF SourceId
<1> QED
  BY <1>1, <1>2, <1>3, <1>4, <1>5, <1>6, <1>7, <1>8, <1>9, <1>10, <1>11, <1>12
  DEF Next, Serve, Reconcile

Empty(s) == \A k \in Keys : SourceOf[k] = s => cache[k] = 0

\* What holds of a source that no update has overtaken a request for: its
\* requests hold the served version of it, and wherever a version is replaced
\* the cache has just been emptied and nobody is about to fill it.
Coherent(s) ==
  /\ \A r \in Requests : InFlight(r, s) =>
       /\ baseline[s] # 0
       /\ req[r].pc \notin {"invalidate", "swap"} => req[r].src = catalog[s]
       /\ req[r].pc = "fill" => catalog[s] <= req[r].tile
       /\ req[r].pc = "swap" => Empty(s)
  /\ catalog[s] # 0 => baseline[s] # 0
  /\ baseline[s] = 0 => Empty(s)
  /\ target = s /\ step = "insert" => Empty(s)
  /\ target = s /\ step = "sweep" => catalog[s] = 0
  /\ \A k \in Keys : SourceOf[k] = s => ~Stale(k)

LEMMA CoherentStep ==
  ASSUME TypeOK, Ages, [Next]_vars, NEW s \in Sources,
         Coherent(s), ~Overlapping(s), ~Overlapping(s)'
  PROVE  Coherent(s)'
<1> USE DEF Coherent
<1>a. /\ req \in [Requests -> Request] /\ catalog \in [Sources -> Versions]
      /\ file \in [Sources -> Versions] /\ baseline \in [Sources -> Versions]
      /\ cache \in [Keys -> Versions]
  BY DEF TypeOK
<1>s. \A r \in Requests : SourceId(r) \in Sources /\ req[r].key \in Keys
  BY SourceIdTypes
<1>v. \A r \in Requests : req[r] \in Request /\ req[r].src \in Nat /\ req[r].tile \in Nat
  BY <1>a DEF Request
<1>k. \A k \in Keys : SourceOf[k] \in Sources
  BY SourceOfAssumption
<1>e. Empty(s) => \A k \in Keys : SourceOf[k] = s => ~Stale(k)
  BY DEF Empty, Stale
<1>1. ASSUME NEW t \in Sources, Replace(t) \/ Delete(t) PROVE Coherent(s)'
  BY <1>1 DEF Replace, Delete, SourceId, InFlight, Empty, Stale
<1>2. ASSUME NEW r \in Requests, NEW k \in Keys, Resolve(r, k) PROVE Coherent(s)'
  <2>1. UNCHANGED <<catalog, cache, step, target, baseline>>
    BY <1>2 DEF Resolve
  <2>2. \A q \in Requests : q # r => req'[q] = req[q]
    BY <1>2, <1>a DEF Resolve
  <2>3. InFlight(r, s)' => /\ SourceOf[k] = s /\ catalog[s] # 0
                           /\ req'[r].pc = "lookup" /\ req'[r].src = catalog[s]
    BY <1>2, <1>a DEF Resolve, InFlight, SourceId
  <2> QED BY <2>1, <2>2, <2>3 DEF InFlight, SourceId, Empty, Stale
\* The steps of a request that change neither the catalog nor the cache.
<1>3. ASSUME NEW r \in Requests,
             Hit(r) \/ Miss(r) \/ Bypass(r) \/ Read(r) \/ Fail(r) \/ Cancel(r) \/ TryReload(r)
      PROVE  Coherent(s)'
  <2>1. UNCHANGED <<catalog, cache, step, target, baseline>>
    BY <1>3 DEF Hit, Miss, Bypass, Read, Fail, Cancel, TryReload
  <2>2. \A q \in Requests :
          \/ req'[q] = req[q]
          \/ req'[q].pc = "idle"
          \/ /\ req'[q].key = req[q].key /\ req[q].pc # "idle"
             /\ \/ req'[q].pc = "invalidate"
                \/ /\ req'[q].src = req[q].src
                   /\ req[q].pc \notin {"invalidate", "swap"}
                   /\ req'[q].pc \in {"lookup", "compute", "wait", "fill", "reload"}
             /\ req'[q].pc = "fill" /\ SourceId(q) = s => catalog[s] <= req'[q].tile
    <3>1. CASE Hit(r) \/ Miss(r) \/ Bypass(r)
      BY <3>1, <1>a, <1>v DEF Hit, Miss, Bypass, Request
    <3>2. CASE Read(r)
      <4>1. PICK v \in {req[r].src, file[SourceId(r)]} \ {0} :
              req' = [req EXCEPT ![r].pc = "fill", ![r].tile = v]
        BY <3>2 DEF Read
      <4>2. req[r].pc = "compute"
        BY <3>2 DEF Read
      <4>3. SourceId(r) = s => req[r].src = catalog[s]
        BY <4>2 DEF InFlight
      <4>4. SourceId(r) = s => catalog[s] <= v
        BY <4>1, <4>3, <1>a DEF Ages
      <4> QED BY <1>a, <1>v, <4>1, <4>2, <4>4 DEF Request
    <3>3. CASE Fail(r)
      <4>1. \A q \in Party(r) : req[q].pc \in {"compute", "wait"}
        BY <3>3, PartyWaits DEF Fail
      <4> QED BY <3>3, <4>1, <1>v DEF Fail, Request
    <3>4. CASE Cancel(r)
      <4>1. \A q \in Party(r) : q = r \/ req[q].pc = "wait"
        BY PartyWaits
      <4> QED BY <3>4, <4>1, <1>v DEF Cancel, Request
    <3>5. CASE TryReload(r)
      BY <3>5, <1>a, <1>v DEF TryReload, Request
    <3> QED BY <1>3, <3>1, <3>2, <3>3, <3>4, <3>5
  <2>3. \A q \in Requests : InFlight(q, s)' => req'[q] = req[q] \/ InFlight(q, s)
    BY <2>2 DEF InFlight, SourceId
  <2>4. \A q \in Requests : InFlight(q, s)' =>
          /\ baseline'[s] # 0
          /\ req'[q].pc \notin {"invalidate", "swap"} => req'[q].src = catalog'[s]
          /\ req'[q].pc = "fill" => catalog'[s] <= req'[q].tile
          /\ req'[q].pc = "swap" => Empty(s)'
    BY <2>1, <2>2, <2>3 DEF InFlight, SourceId, Empty
  <2> QED BY <2>1, <2>4 DEF Empty, Stale
<1>4. ASSUME NEW r \in Requests, Fill(r) PROVE Coherent(s)'
  <2>1. UNCHANGED <<catalog, step, target, baseline>> /\ req[r].pc = "fill"
    BY <1>4 DEF Fill
  <2>2. \A q \in Requests : req'[q] = req[q] \/ req'[q].pc = "idle"
    BY <1>4, <1>v DEF Fill, Request
  <2>3. \A q \in Requests : InFlight(q, s)' => req'[q] = req[q] /\ InFlight(q, s)
    BY <2>2 DEF InFlight, SourceId
  <2>4. CASE SourceId(r) # s
    <3>1. \A k \in Keys : SourceOf[k] = s => cache'[k] = cache[k]
      BY <1>4, <1>a, <2>4 DEF Fill, SourceId
    <3> QED BY <2>1, <2>3, <3>1, <1>k DEF Empty, Stale
  <2>5. CASE SourceId(r) = s
    <3>1. InFlight(r, s)
      BY <2>1, <2>5 DEF InFlight
    <3>2. ~(target = s /\ step # "idle")
      BY <3>1 DEF Overlapping
    <3>3. \A q \in Requests \ {r} : InFlight(q, s) => req[q].pc \notin {"invalidate", "swap"}
      BY <3>1 DEF Overlapping
    <3>4. \A q \in Requests : InFlight(q, s)' => req'[q].pc # "swap"
      BY <2>1, <2>3, <3>3
    <3>5. \A k \in Keys : SourceOf[k] = s => cache'[k] \in {cache[k], req[r].tile}
      BY <1>4, <1>a DEF Fill
    <3>6. \A k \in Keys : SourceOf[k] = s => ~Stale(k)'
      BY <2>1, <3>1, <3>5, <1>a, <1>v DEF Stale
    <3> QED BY <2>1, <2>3, <3>1, <3>2, <3>4, <3>6
  <2> QED BY <2>4, <2>5
<1>5. ASSUME NEW r \in Requests, InvalidateReloaded(r) PROVE Coherent(s)'
  <2>1. UNCHANGED <<catalog, step, target, baseline>>
    BY <1>5 DEF InvalidateReloaded
  <2>2. \A k \in Keys : SourceOf[k] = s =>
          cache'[k] = IF SourceId(r) = s THEN 0 ELSE cache[k]
    BY <1>5 DEF InvalidateReloaded, Without
  <2>3. /\ req[r].pc = "invalidate" /\ req'[r].pc = "swap" /\ req'[r].key = req[r].key
        /\ \A q \in Requests : q # r => req'[q] = req[q]
    BY <1>5, <1>a, <1>v DEF InvalidateReloaded, Request
  <2> QED BY <2>1, <2>2, <2>3 DEF InFlight, SourceId, Empty, Stale
<1>6. ASSUME NEW r \in Requests, InsertReloaded(r) PROVE Coherent(s)'
  <2>1. UNCHANGED <<cache, step, target, baseline>>
    BY <1>6 DEF InsertReloaded
  <2>2. /\ req[r].pc = "swap" /\ req'[r].pc = "lookup"
        /\ req'[r].key = req[r].key /\ req'[r].src = req[r].src
        /\ \A q \in Requests : q # r => req'[q] = req[q]
    BY <1>6, <1>a, <1>v DEF InsertReloaded, Request
  <2>3. CASE SourceId(r) # s
    <3>1. catalog'[s] = catalog[s]
      BY <1>6, <1>a, <2>3 DEF InsertReloaded
    <3> QED BY <2>1, <2>2, <2>3, <3>1 DEF InFlight, SourceId, Empty, Stale
  <2>4. CASE SourceId(r) = s
    <3>1. InFlight(r, s) /\ Empty(s)
      BY <2>2, <2>4 DEF InFlight
    <3>2. ~(target = s /\ step # "idle")
      BY <3>1 DEF Overlapping
    <3>3. \A q \in Requests \ {r} : ~InFlight(q, s)
      BY <2>2, <3>1 DEF Overlapping
    <3>4. catalog'[s] = req[r].src
      BY <1>6, <1>a, <2>4 DEF InsertReloaded
    <3>5. \A q \in Requests \ {r} : ~InFlight(q, s)'
      BY <2>2, <3>3 DEF InFlight, SourceId
    <3>6. Empty(s)' /\ \A k \in Keys : SourceOf[k] = s => ~Stale(k)'
      BY <2>1, <3>1 DEF Empty, Stale
    <3> QED BY <2>1, <2>2, <3>1, <3>2, <3>4, <3>5, <3>6
  <2> QED BY <2>3, <2>4
<1>7. ASSUME NEW t \in Sources, Discover(t) PROVE Coherent(s)'
  BY <1>7 DEF Discover, SourceId, InFlight, Empty, Stale
\* The steps of the driver that change what is served or cached.
<1>8. CASE InvalidateUpdated \/ Insert \/ RemoveSource \/ InvalidateRemoved
  <2>1. /\ UNCHANGED <<req, target>> /\ step # "idle"
        /\ catalog' # catalog => step \in {"insert", "remove"}
    BY <1>8 DEF InvalidateUpdated, Insert, RemoveSource, InvalidateRemoved
  <2>2. CASE target # s
    <3>1. catalog'[s] = catalog[s] /\ baseline'[s] = baseline[s]
      BY <1>8, <1>a, <2>2 DEF InvalidateUpdated, Insert, RemoveSource, InvalidateRemoved
    <3>2. \A k \in Keys : SourceOf[k] = s => cache'[k] = cache[k]
      BY <1>8, <2>2 DEF InvalidateUpdated, Insert, RemoveSource, InvalidateRemoved, Without
    <3> QED BY <2>1, <2>2, <3>1, <3>2, <1>k DEF InFlight, SourceId, Empty, Stale
  <2>3. CASE target = s
    <3>1. \A r \in Requests : ~InFlight(r, s)'
      BY <2>1, <2>3 DEF Overlapping, InFlight, SourceId
    <3>2. CASE InvalidateUpdated
      <4>1. Empty(s)'
        BY <3>2, <2>3 DEF InvalidateUpdated, Without, Empty
      <4> QED BY <3>1, <3>2, <4>1 DEF InvalidateUpdated, Empty, Stale
    <3>3. CASE Insert
      <4>1. Empty(s)' /\ step' = "idle"
        BY <3>3, <2>3 DEF Insert, Empty
      <4>2. catalog'[s] = baseline'[s]
        BY <3>3, <2>3, <1>a DEF Insert
      <4> QED BY <3>1, <4>1, <4>2 DEF Empty, Stale
    <3>4. CASE RemoveSource
      <4>1. catalog'[s] = 0 /\ UNCHANGED <<baseline, cache>> /\ step' = "sweep"
        BY <3>4, <2>3, <1>a DEF RemoveSource
      <4>2. \A k \in Keys : SourceOf[k] = s => ~Stale(k)'
        BY <4>1, <1>a DEF Stale
      <4> QED BY <3>1, <4>1, <4>2 DEF Empty
    <3>5. CASE InvalidateRemoved
      <4>1. Empty(s)' /\ step' = "idle" /\ catalog'[s] = 0
        BY <3>5, <2>3 DEF InvalidateRemoved, Without, Empty
      <4> QED BY <3>1, <4>1 DEF Empty, Stale
    <3> QED BY <1>8, <3>2, <3>3, <3>4, <3>5
  <2> QED BY <2>2, <2>3
<1>9. ASSUME NEW k \in Keys, Evict(k) PROVE Coherent(s)'
  <2>1. \A j \in Keys : cache'[j] \in {0, cache[j]}
    BY <1>9, <1>a DEF Evict
  <2> QED BY <1>9, <2>1 DEF Evict, InFlight, SourceId, Empty, Stale
<1>10. CASE UNCHANGED vars
  BY <1>10 DEF InFlight, SourceId, Empty, Stale
<1> QED
  BY <1>1, <1>2, <1>3, <1>4, <1>5, <1>6, <1>7, <1>8, <1>9, <1>10
  DEF Next, Serve, Reconcile

CoherenceInv ==
  /\ Ages
  /\ \A s \in Sources : Overlapping(s) => overlap[s]
  /\ \A s \in Sources : overlap[s] \/ Coherent(s)

LEMMA CoherenceInit == HistoryInit => CoherenceInv
<1> SUFFICES ASSUME HistoryInit PROVE CoherenceInv
  OBVIOUS
<1>1. \A r \in Requests : req[r].pc = "idle"
  BY DEF HistoryInit, Init
<1>2. /\ step = "idle" /\ catalog = file /\ baseline = file /\ clock = 1 /\ fresh = 0
      /\ file \in [Sources -> {0, 1}]
      /\ cache = [k \in Keys |-> 0]
  BY DEF HistoryInit, Init
<1>3. Ages
  BY <1>1, <1>2 DEF Ages
<1>4. \A s \in Sources : ~Overlapping(s)
  BY <1>1, <1>2 DEF Overlapping, InFlight
<1>5. \A s \in Sources : Coherent(s)
  BY <1>1, <1>2 DEF Coherent, InFlight, Empty, Stale
<1> QED BY <1>3, <1>4, <1>5 DEF CoherenceInv

LEMMA CoherenceStep ==
  ASSUME TypeOK, CoherenceInv, [HistoryNext]_<<vars, overlap, reloaded>>
  PROVE  CoherenceInv'
<1>1. CASE HistoryNext
  <2>1. [Next]_vars /\ overlap' = [s \in Sources |-> overlap[s] \/ Overlapping(s)']
    BY <1>1 DEF HistoryNext
  <2>2. Ages'
    BY <2>1, AgesStep DEF CoherenceInv
  <2>3. ASSUME NEW s \in Sources PROVE (Overlapping(s) => overlap[s])'
    BY <2>1, Zenon
  <2>4. ASSUME NEW s \in Sources PROVE (overlap[s] \/ Coherent(s))'
    <3>1. CASE overlap[s] \/ Overlapping(s)'
      BY <2>1, <3>1, Zenon
    <3>2. CASE ~overlap[s] /\ ~Overlapping(s)'
      <4>1. Coherent(s) /\ ~Overlapping(s)
        BY <3>2 DEF CoherenceInv
      <4> QED BY <2>1, <3>2, <4>1, CoherentStep DEF CoherenceInv
    <3> QED BY <3>1, <3>2
  <2> QED BY <2>2, <2>3, <2>4 DEF CoherenceInv
<1>2. CASE UNCHANGED <<vars, overlap, reloaded>>
  BY <1>2 DEF CoherenceInv, Ages, Overlapping, Coherent, InFlight, SourceId, Empty, Stale
<1> QED BY <1>1, <1>2

\* Only a request that is in flight while its source is updated can leave a
\* stale tile in the cache, whoever updates it and however the files change.
THEOREM OnlyOverlapIsStale == HistorySpec => []StaleOnlyByOverlap
<1>1. HistoryInit => Init
  BY DEF HistoryInit
<1>2. [HistoryNext]_<<vars, overlap, reloaded>> => [Next]_vars
  BY DEF HistoryNext
<1>3. CoherenceInv => StaleOnlyByOverlap
  BY SourceOfAssumption DEF CoherenceInv, Coherent, StaleOnlyByOverlap
<1>4. TypeOK /\ CoherenceInv /\ [HistoryNext]_<<vars, overlap, reloaded>> => CoherenceInv'
  BY CoherenceStep
<1> QED BY <1>1, <1>2, <1>3, <1>4, TypeInit, TypeStep, CoherenceInit, PTL DEF HistorySpec

-----------------------------------------------------------------------------
(* The retry after a reload.                                               *)

\* A request that has reloaded holds the version it reloaded, reloads no second
\* time, waits for others only in the cache, and has not failed yet.
Retrying(r) ==
  req[r].pc # "idle" =>
    /\ req[r].answer # "error"
    /\ req[r].pc = "wait" => req[r].key \in Cached
    /\ req[r].pc = "reload" => ~req[r].retried
    /\ req[r].retried => req[r].src = reloaded[r]

\* How the steps of requests change a request that goes on.
Moves(r) ==
  /\ req[r].pc # "idle"
  /\ req'[r].key = req[r].key /\ req'[r].src = req[r].src
  /\ req'[r].retried = req[r].retried /\ req'[r].answer = req[r].answer
  /\ req'[r].pc = "wait" => req[r].key \in Cached
  /\ req'[r].pc = "reload" => ~req[r].retried

Begins(r) ==
  req'[r].pc = "lookup" /\ ~req'[r].retried /\ req'[r].answer = "none"

Reloads(r) ==
  /\ req[r].pc = "reload" /\ req'[r].pc = "invalidate"
  /\ req'[r].key = req[r].key /\ req'[r].src = file[SourceId(r)]
  /\ req'[r].answer = req[r].answer /\ req'[r].retried

LEMMA RequestMoves ==
  ASSUME TypeOK, [Next]_vars, NEW q \in Requests
  PROVE  req'[q] = req[q] \/ req'[q].pc = "idle" \/ Moves(q) \/ Begins(q) \/ Reloads(q)
<1> DEFINE Goal == req'[q] = req[q] \/ req'[q].pc = "idle" \/ Moves(q) \/ Begins(q) \/ Reloads(q)
<1>a. req \in [Requests -> Request]
  BY DEF TypeOK
<1>v. \A r \in Requests : req[r] \in Request
  BY <1>a
<1>1. ASSUME NEW r \in Requests, NEW k \in Keys, Resolve(r, k) PROVE Goal
  BY <1>1, <1>a DEF Resolve, Begins
<1>2. ASSUME NEW r \in Requests, Hit(r) \/ Miss(r) \/ Bypass(r) PROVE Goal
  BY <1>2, <1>a, <1>v DEF Hit, Miss, Bypass, Moves, Request
<1>3. ASSUME NEW r \in Requests, Read(r) PROVE Goal
  <2>1. PICK v : req' = [req EXCEPT ![r].pc = "fill", ![r].tile = v]
    BY <1>3 DEF Read
  <2> QED BY <1>3, <1>a, <1>v, <2>1 DEF Read, Moves, Request
<1>4. ASSUME NEW r \in Requests, Fill(r) PROVE Goal
  BY <1>4, <1>v DEF Fill, Request
<1>5. ASSUME NEW r \in Requests, Fail(r) PROVE Goal
  <2>1. q \in Party(r) => req[q].pc \in {"compute", "wait"}
    BY <1>5, PartyWaits DEF Fail
  <2> QED BY <1>5, <1>v, <2>1 DEF Fail, Moves, Request
<1>6. ASSUME NEW r \in Requests, Cancel(r) PROVE Goal
  <2>1. q \in Party(r) => q = r \/ req[q].pc = "wait"
    BY PartyWaits
  <2> QED BY <1>6, <1>v, <2>1 DEF Cancel, Moves, Request
<1>7. ASSUME NEW r \in Requests, TryReload(r) PROVE Goal
  BY <1>7, <1>a, <1>v DEF TryReload, Reloads, Request
<1>8. ASSUME NEW r \in Requests, InvalidateReloaded(r) \/ InsertReloaded(r) PROVE Goal
  BY <1>8, <1>a, <1>v DEF InvalidateReloaded, InsertReloaded, Moves, Request
<1>9. ASSUME UNCHANGED req PROVE Goal
  BY <1>9
<1>10. CASE UNCHANGED vars
  BY <1>9, <1>10
<1>11. ASSUME NEW s \in Sources, Replace(s) \/ Delete(s) \/ Discover(s) PROVE Goal
  BY <1>9, <1>11 DEF Replace, Delete, Discover
<1>12. CASE InvalidateUpdated \/ Insert \/ RemoveSource \/ InvalidateRemoved
  BY <1>9, <1>12 DEF InvalidateUpdated, Insert, RemoveSource, InvalidateRemoved
<1>13. ASSUME NEW k \in Keys, Evict(k) PROVE Goal
  BY <1>9, <1>13 DEF Evict
<1> QED
  BY <1>1, <1>2, <1>3, <1>4, <1>5, <1>6, <1>7, <1>8, <1>10, <1>11, <1>12, <1>13
  DEF Next, Serve, Reconcile

\* Only a failed reading turns a request that reloads nothing into an error.
LEMMA OnlyFailAnswersError ==
  ASSUME TypeOK, [Next]_vars, NEW q \in Requests, req[q].answer # "error",
         req[q].pc \notin {"idle", "reload"}, req'[q].answer = "error"
  PROVE  \E r \in Requests : Fail(r) /\ q \in Party(r)
<1> DEFINE Kept == req'[q].answer # "error"
<1>a. req \in [Requests -> Request]
  BY DEF TypeOK
<1>v. \A r \in Requests : req[r] \in Request
  BY <1>a
<1>1. ASSUME NEW r \in Requests, NEW k \in Keys, Resolve(r, k) PROVE Kept
  BY <1>1, <1>a DEF Resolve
<1>2. ASSUME NEW r \in Requests, Hit(r) \/ Miss(r) \/ Bypass(r) PROVE Kept
  BY <1>2, <1>a, <1>v DEF Hit, Miss, Bypass, Request
<1>3. ASSUME NEW r \in Requests, Read(r) PROVE Kept
  <2>1. PICK v : req' = [req EXCEPT ![r].pc = "fill", ![r].tile = v]
    BY <1>3 DEF Read
  <2> QED BY <1>3, <1>a, <1>v, <2>1 DEF Read, Request
<1>4. ASSUME NEW r \in Requests, Fill(r) PROVE Kept
  BY <1>4, <1>v DEF Fill, Request
<1>5. ASSUME NEW r \in Requests, Fail(r) PROVE Kept \/ q \in Party(r)
  BY <1>5, <1>v DEF Fail, Request
<1>6. ASSUME NEW r \in Requests, Cancel(r) PROVE Kept
  BY <1>6, <1>v DEF Cancel, Request
<1>7. ASSUME NEW r \in Requests, TryReload(r) PROVE Kept
  BY <1>7, <1>a, <1>v DEF TryReload, Request
<1>8. ASSUME NEW r \in Requests, InvalidateReloaded(r) \/ InsertReloaded(r) PROVE Kept
  BY <1>8, <1>a, <1>v DEF InvalidateReloaded, InsertReloaded, Request
<1>9. ASSUME UNCHANGED req PROVE Kept
  BY <1>9
<1>10. CASE UNCHANGED vars
  BY <1>9, <1>10 DEF vars
<1>11. ASSUME NEW s \in Sources, Replace(s) \/ Delete(s) \/ Discover(s) PROVE Kept
  BY <1>9, <1>11 DEF Replace, Delete, Discover
<1>12. CASE InvalidateUpdated \/ Insert \/ RemoveSource \/ InvalidateRemoved
  BY <1>9, <1>12 DEF InvalidateUpdated, Insert, RemoveSource, InvalidateRemoved
<1>13. ASSUME NEW k \in Keys, Evict(k) PROVE Kept
  BY <1>9, <1>13 DEF Evict
<1> QED
  BY <1>1, <1>2, <1>3, <1>4, <1>5, <1>6, <1>7, <1>8, <1>10, <1>11, <1>12, <1>13
  DEF Next, Serve, Reconcile

RetryInv == \A r \in Requests : Retrying(r)

LEMMA RetryStep ==
  ASSUME TypeOK, RetryInv, [HistoryNext]_<<vars, overlap, reloaded>>
  PROVE  RetryInv'
<1>1. CASE UNCHANGED <<vars, overlap, reloaded>>
  BY <1>1 DEF RetryInv, Retrying
<1>2. CASE HistoryNext
  <2>1. [Next]_vars /\ reloaded' = [r \in Requests |-> Reloaded(r)]
    BY <1>2 DEF HistoryNext
  <2>2. ASSUME NEW q \in Requests PROVE Retrying(q)'
    <3>1. req'[q] = req[q] \/ req'[q].pc = "idle" \/ Moves(q) \/ Begins(q) \/ Reloads(q)
      BY <2>1, RequestMoves
    <3>2. /\ ~req'[q].retried => reloaded'[q] = 0
          /\ req'[q].retried /\ req[q].retried => reloaded'[q] = reloaded[q]
          /\ req'[q].retried /\ ~req[q].retried => reloaded'[q] = file[SourceId(q)]
      BY <2>1 DEF Reloaded
    <3>3. Retrying(q)
      BY DEF RetryInv
    <3> QED BY <3>1, <3>2, <3>3 DEF Retrying, Moves, Begins, Reloads
  <2> QED BY <2>2 DEF RetryInv
<1> QED BY <1>1, <1>2

\* A request that has reloaded its source does not fail while the file is the one
\* it reloaded, unless it waits in the cache for another request (the retry of
\* reload_source_and_retry_get_tile reads through the source it just built).
THEOREM RetriesReadTheReloaded == HistorySpec => RetryUsesReloadedSource
<1>1. HistoryInit => Init /\ RetryInv
  BY DEF HistoryInit, Init, RetryInv, Retrying
<1>2. [HistoryNext]_<<vars, overlap, reloaded>> => [Next]_vars
  BY DEF HistoryNext
<1>3. TypeOK /\ RetryInv /\ [HistoryNext]_<<vars, overlap, reloaded>> => RetryInv'
  BY RetryStep
<1>4. TypeOK /\ RetryInv /\ [Next]_vars =>
        [\A r \in Requests :
           req[r].key \notin Cached /\ req[r].pc # "idle" /\ req[r].retried
                                /\ req'[r].answer = "error"
             => reloaded[r] # file[SourceId(r)]]_vars
  <2> SUFFICES ASSUME TypeOK, RetryInv, [Next]_vars, NEW r \in Requests, req[r].key \notin Cached,
                      req[r].pc # "idle", req[r].retried, req'[r].answer = "error"
               PROVE  reloaded[r] # file[SourceId(r)]
    OBVIOUS
  <2>1. /\ req[r].answer # "error" /\ req[r].pc \notin {"wait", "reload"}
        /\ req[r].src = reloaded[r]
    BY DEF RetryInv, Retrying
  <2>2. ~Moves(r) /\ ~Begins(r) /\ ~Reloads(r) /\ req'[r] # req[r]
    BY <2>1 DEF Moves, Begins, Reloads
  <2>3. \E q \in Requests : Fail(q) /\ r \in Party(q)
    BY <2>1, OnlyFailAnswersError
  <2>4. PICK q \in Requests : Fail(q) /\ r \in Party(q)
    BY <2>3
  <2>5. q = r
    BY <2>1, <2>4, PartyWaits
  <2> QED BY <2>1, <2>4, <2>5 DEF Fail
<1> QED
  BY <1>1, <1>2, <1>3, <1>4, TypeInit, TypeStep, PTL DEF HistorySpec, RetryUsesReloadedSource
=============================================================================
