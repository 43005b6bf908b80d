------------------------------ MODULE BinDiff ------------------------------
(***************************************************************************)
(* The pipeline that computes and applies binary patches (bindiff.rs): a   *)
(* task that queries the tiles both files have, a task per processor that  *)
(* diffs or patches them, and the caller, which inserts the results in     *)
(* transactions of Batch rows.  Two bounded channels connect them, and one *)
(* flag tells the caller that a task failed.                               *)
(*                                                                         *)
(* Processors are interchangeable and the query has no order, so a channel *)
(* is the set of rows in it.  A channel closes to its receivers when all   *)
(* its senders are dropped, and to its senders when all receivers are.     *)
(***************************************************************************)
EXTENDS Naturals, FiniteSets

CONSTANTS
  Rows,        \* the rows of the query
  Processors,  \* the tasks that process rows, one per CPU
  Capacity,    \* of both channels: three times the number of CPUs
  Batch        \* rows per transaction: 100

ASSUME ConstantsAssumption ==
  /\ IsFiniteSet(Rows)
  /\ Processors # {}
  /\ Capacity \in Nat \ {0}
  /\ Batch \in Nat \ {0}

VARIABLES
  query,      \* [at, left: rows not read yet, row: the row being sent, {} or {r},
              \*  failed: history, whether the query failed]
  work,       \* the channel tx_wrk, rx_wrk
  processor,  \* [Processors -> [at, row]]
  results,    \* the channel tx_ins, rx_ins
  caller,     \* where run is
  pending,    \* rows of the open transaction
  stored,     \* rows of committed transactions
  hasErrors

vars == <<query, work, processor, results, caller, pending, stored, hasErrors>>

\* "failing" query: it has returned an error, which the flag does not tell yet.
QueryStates == {"reading", "sending", "failing", "ended"}
ProcessorStates == {"waiting", "sending", "failing", "checking", "stopped"}
CallerStates == {"preparing", "inserting", "judging", "ok", "error"}

TypeOK ==
  /\ query \in [at: QueryStates, left: SUBSET Rows, row: SUBSET Rows, failed: BOOLEAN]
  /\ work \in SUBSET Rows /\ Cardinality(work) <= Capacity
  /\ processor \in [Processors -> [at: ProcessorStates, row: SUBSET Rows]]
  /\ results \in SUBSET Rows /\ Cardinality(results) <= Capacity
  /\ caller \in CallerStates
  /\ pending \in SUBSET Rows /\ Cardinality(pending) < Batch
  /\ stored \in SUBSET Rows
  /\ hasErrors \in BOOLEAN

Init ==
  /\ query = [at |-> "reading", left |-> Rows, row |-> {}, failed |-> FALSE]
  /\ work = {}
  /\ processor = [p \in Processors |-> [at |-> "waiting", row |-> {}]]
  /\ results = {}
  /\ caller = "preparing"
  /\ pending = {}
  /\ stored = {}
  /\ hasErrors = FALSE

-----------------------------------------------------------------------------
\* Who has dropped its end of a channel.  The query's sender is dropped when the
\* call returns, before its result is looked at.

\* Mutant: the caller keeps a sender of its own.
NeverClosed == FALSE

WorkClosed == query.at \in {"failing", "ended"}
ResultsClosed == \A p \in Processors : processor[p].at = "stopped"

WorkRefused == \A p \in Processors : processor[p].at = "stopped"
ResultsRefused == caller \in {"judging", "ok", "error"}

-----------------------------------------------------------------------------
\* The query

Read ==
  /\ query.at = "reading"
  /\ \E r \in query.left :
       query' = [query EXCEPT !.at = "sending", !.left = @ \ {r}, !.row = {r}]
  /\ UNCHANGED <<work, processor, results, caller, pending, stored, hasErrors>>

\* Mutant: the channel has no bound.
SendUnbounded ==
  /\ query.at = "sending"
  /\ ~WorkRefused
  /\ work' = work \cup query.row
  /\ query' = [query EXCEPT !.at = "reading", !.row = {}]
  /\ UNCHANGED <<processor, results, caller, pending, stored, hasErrors>>

Send ==
  /\ query.at = "sending"
  /\ ~WorkRefused
  /\ Cardinality(work) < Capacity
  /\ work' = work \cup query.row
  /\ query' = [query EXCEPT !.at = "reading", !.row = {}]
  /\ UNCHANGED <<processor, results, caller, pending, stored, hasErrors>>

\* All rows are read, or nobody wants the next one; both end without an error.
EndQuery ==
  /\ \/ query.at = "reading" /\ query.left = {}
     \/ query.at = "sending" /\ WorkRefused
  /\ query' = [query EXCEPT !.at = "ended", !.row = {}]
  /\ UNCHANGED <<work, processor, results, caller, pending, stored, hasErrors>>

FailQuery ==
  /\ query.at = "reading"
  /\ query' = [query EXCEPT !.at = "failing", !.failed = TRUE]
  /\ UNCHANGED <<work, processor, results, caller, pending, stored, hasErrors>>

TellQueryFailed ==
  /\ query.at = "failing"
  /\ hasErrors' = TRUE
  /\ query' = [query EXCEPT !.at = "ended"]
  /\ UNCHANGED <<work, processor, results, caller, pending, stored>>

-----------------------------------------------------------------------------
\* A processor

At(p, at, row) == processor' = [processor EXCEPT ![p] = [at |-> at, row |-> row]]

\* Mutant: the row stays in the channel.
TakeShared(p) ==
  /\ processor[p].at = "waiting"
  /\ \E r \in work : At(p, "sending", {r})
  /\ UNCHANGED <<query, work, results, caller, pending, stored, hasErrors>>

\* It receives a row and processes it, well or not.
Take(p) ==
  /\ processor[p].at = "waiting"
  /\ \E r \in work :
       /\ work' = work \ {r}
       /\ At(p, "sending", {r}) \/ At(p, "failing", {})
  /\ UNCHANGED <<query, results, caller, pending, stored, hasErrors>>

Deliver(p) ==
  /\ processor[p].at = "sending"
  /\ ~ResultsRefused
  /\ Cardinality(results) < Capacity
  /\ results' = results \cup processor[p].row
  /\ At(p, "checking", {})
  /\ UNCHANGED <<query, work, caller, pending, stored, hasErrors>>

Refused(p) ==
  /\ processor[p].at = "sending"
  /\ ResultsRefused
  /\ At(p, "failing", {})
  /\ UNCHANGED <<query, work, results, caller, pending, stored, hasErrors>>

\* Mutant: the error is logged only.
TellNobody(p) ==
  /\ processor[p].at = "failing"
  /\ At(p, "checking", {})
  /\ UNCHANGED <<query, work, results, caller, pending, stored, hasErrors>>

TellFailed(p) ==
  /\ processor[p].at = "failing"
  /\ hasErrors' = TRUE
  /\ At(p, "checking", {})
  /\ UNCHANGED <<query, work, results, caller, pending, stored>>

\* It also stops when another one failed.
Check(p) ==
  /\ processor[p].at = "checking"
  /\ At(p, IF hasErrors THEN "stopped" ELSE "waiting", {})
  /\ UNCHANGED <<query, work, results, caller, pending, stored, hasErrors>>

EndProcessor(p) ==
  /\ processor[p].at = "waiting"
  /\ work = {}
  /\ WorkClosed
  /\ At(p, "stopped", {})
  /\ UNCHANGED <<query, work, results, caller, pending, stored, hasErrors>>

-----------------------------------------------------------------------------
\* The caller.  When it fails, the open transaction is rolled back.

CallerFails == caller' = "error" /\ pending' = {} /\ UNCHANGED stored

Prepare ==
  /\ caller = "preparing"
  /\ \/ caller' = "inserting" /\ UNCHANGED <<pending, stored>>
     \/ CallerFails
  /\ UNCHANGED <<query, work, processor, results, hasErrors>>

Insert ==
  /\ caller = "inserting"
  /\ \E r \in results :
       /\ results' = results \ {r}
       /\ \/ /\ Cardinality(pending \cup {r}) < Batch
             /\ pending' = pending \cup {r}
             /\ UNCHANGED <<caller, stored>>
          \/ /\ Cardinality(pending \cup {r}) >= Batch
             /\ pending' = {}
             /\ stored' = stored \cup pending \cup {r}
             /\ UNCHANGED caller
          \/ CallerFails
  /\ UNCHANGED <<query, work, processor, hasErrors>>

Commit ==
  /\ caller = "inserting"
  /\ results = {}
  /\ ResultsClosed
  /\ \/ caller' = "judging" /\ pending' = {} /\ stored' = stored \cup pending
     \/ CallerFails
  /\ UNCHANGED <<query, work, processor, results, hasErrors>>

Judge ==
  /\ caller = "judging"
  /\ caller' = IF hasErrors THEN "error" ELSE "ok"
  /\ UNCHANGED <<query, work, processor, results, pending, stored, hasErrors>>

-----------------------------------------------------------------------------

Query == Read \/ Send \/ EndQuery \/ FailQuery \/ TellQueryFailed
Process(p) ==
  \/ Take(p) \/ Deliver(p) \/ Refused(p) \/ TellFailed(p) \/ Check(p) \/ EndProcessor(p)
Run == Prepare \/ Insert \/ Commit \/ Judge

Next == Query \/ (\E p \in Processors : Process(p)) \/ Run

Spec == Init /\ [][Next]_vars

\* The runtime polls every task that can make progress.
FairSpec ==
  Spec /\ WF_vars(Query) /\ WF_vars(Run) /\ \A p \in Processors : WF_vars(Process(p))

-----------------------------------------------------------------------------
\* Properties

\* Unless the query failed, run returns Ok only when every row is stored: no
\* error of a processor, and no row on its way in a channel, is forgotten.  (A
\* query that fails drops its sender before it sets the flag, so the caller may
\* find everything closed and the flag unset, and return Ok for a part.)
NothingLost == caller = "ok" => stored = Rows \/ query.failed

\* No row is handled twice, by two processors or again after it was inserted:
\* the tables have primary keys, so it would fail the run.
EachRowOnce ==
  /\ \A p \in Processors :
       /\ \A q \in Processors \ {p} : processor[p].row \cap processor[q].row = {}
       /\ processor[p].row \cap (query.left \cup query.row \cup work \cup results
                                   \cup pending \cup stored) = {}
  /\ results \cap (query.left \cup query.row \cup work \cup pending \cup stored) = {}
  /\ pending \cap (query.left \cup query.row \cup work \cup stored) = {}
  /\ work \cap (query.left \cup query.row \cup stored) = {}
  /\ query.row \cap (query.left \cup stored) = {}
  /\ query.left \cap stored = {}

\* Whatever fails, run returns: nobody waits for a channel that has no other end
\* ("Both tx and rcv must be consumed, or it will run forever", bindiff.rs).
RunReturns == <>(caller \in {"ok", "error"})

\* And the tasks it started end, though nobody joins them.
TasksEnd ==
  <>(query.at = "ended" /\ \A p \in Processors : processor[p].at = "stopped")
=============================================================================
