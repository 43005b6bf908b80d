----------------------------- MODULE CatalogSync -----------------------------
(***************************************************************************)
(* What a reload driver promises about the catalog, whatever its trigger,  *)
(* baseline and policy: a source only ever changes to a state its file was *)
(* really in since the source last changed.  So the catalog neither        *)
(* invents a version, nor goes back to one it has replaced, nor drops a    *)
(* source whose file has been there all along.                             *)
(***************************************************************************)
CONSTANTS Ids, Versions

VARIABLES
  current,  \* [Ids -> Versions]: the file's version, 0 when there is none
  catalog,  \* [Ids -> Versions]: the version served, 0 when there is none
  held      \* [Ids -> SUBSET Versions]: versions the file has had since its
            \* catalog entry last changed

Start ==
  /\ current \in [Ids -> Versions]
  /\ catalog \in [Ids -> Versions]
  /\ \A id \in Ids : catalog[id] \in {0, current[id]}
  /\ held = [id \in Ids |-> {current[id]}]

FileChanges(id) ==
  /\ \E v \in Versions : current' = [current EXCEPT ![id] = v]
  /\ held' = [held EXCEPT ![id] = @ \cup {current'[id]}]
  /\ UNCHANGED catalog

SourceChanges(id) ==
  /\ \E v \in held[id] : catalog' = [catalog EXCEPT ![id] = v]
  /\ held' = [held EXCEPT ![id] = {current[id]}]
  /\ UNCHANGED current

Step == \E id \in Ids : FileChanges(id) \/ SourceChanges(id)

Sync == Start /\ [][Step]_<<current, catalog, held>>
=============================================================================
