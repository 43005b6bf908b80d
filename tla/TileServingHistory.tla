------------------------- MODULE TileServingHistory -------------------------
(* TileServing with two history variables: the sources that were ever      *)
(* updated while a request for them was in flight, and the version of the  *)
(* file at which a request reloaded its source.                            *)
EXTENDS TileServing

VARIABLES
  overlap,   \* [Sources -> BOOLEAN]
  reloaded   \* [Requests -> Versions]: 0 until the request reloads

InFlight(r, s) == req[r].pc # "idle" /\ SourceId(r) = s

Overlapping(s) ==
  \/ step # "idle" /\ target = s /\ \E r \in Requests : InFlight(r, s)
  \/ \E r \in Requests : /\ InFlight(r, s)
                         /\ req[r].pc \in {"invalidate", "swap"}
                         /\ \E q \in Requests \ {r} : InFlight(q, s)

Reloaded(r) ==
  IF ~req'[r].retried THEN 0 ELSE IF req[r].retried THEN reloaded[r] ELSE file[SourceId(r)]

HistoryInit ==
  /\ Init
  /\ overlap = [s \in Sources |-> FALSE]
  /\ reloaded = [r \in Requests |-> 0]

HistoryNext ==
  /\ Next
  /\ overlap' = [s \in Sources |-> overlap[s] \/ Overlapping(s)']
  /\ reloaded' = [r \in Requests |-> Reloaded(r)]

HistorySpec == HistoryInit /\ [][HistoryNext]_<<vars, overlap, reloaded>>

FairHistorySpec == HistorySpec /\ Fairness

\* Only a request that is in flight while its source is updated can leave a
\* stale tile: in any other history, of updates by the driver or by a request,
\* of removals and of sources that come back, no cached tile is older than its
\* source.
StaleOnlyByOverlap ==
  \A k \in Keys : Stale(k) => overlap[SourceOf[k]]

\* A request that has reloaded its source does not fail while the file is the
\* one it reloaded: the retry reads through the reloaded source (in the cache
\* it may instead share the failure of a request that has not reloaded).
RetryUsesReloadedSource ==
  [][\A r \in Requests :
       req[r].key \notin Cached /\ req[r].pc # "idle" /\ req[r].retried
                            /\ req'[r].answer = "error"
         => reloaded[r] # file[SourceId(r)]]_vars
=============================================================================
