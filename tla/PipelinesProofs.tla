--------------------------- MODULE PipelinesProofs ---------------------------
(***************************************************************************)
(* The invariants that the pipelines' run checks, for every value of their *)
(* constants: BinDiff, RenderPool, Tiler, TileTree, and then what the      *)
(* files of all hold, with what TranscodeProofs and BulkCopyProofs show.   *)
(***************************************************************************)
EXTENDS MCPipelines, FiniteSetTheorems, SequenceTheorems, TLAPS

-----------------------------------------------------------------------------
(* BinDiff: any rows, number of processors, capacity and batch.            *)

\* At most one row is in the hands of a task, and only while it sends.
OneRow(S) == S = {} \/ \E r \in Rows : S = {r}

Hands ==
  /\ OneRow(query.row)
  /\ query.at # "sending" => query.row = {}
  /\ \A p \in Processors : /\ OneRow(processor[p].row)
                           /\ processor[p].at # "sending" => processor[p].row = {}

TypeInv == TypeOK /\ Hands

-----------------------------------------------------------------------------

LEMMA RowsAreFinite ==
  ASSUME NEW S \in SUBSET Rows
  PROVE  IsFiniteSet(S) /\ Cardinality(S) \in Nat
BY ConstantsAssumption, FS_Subset, FS_CardinalityType

LEMMA RoomForOne ==
  ASSUME NEW S \in SUBSET Rows, NEW Added, OneRow(Added), NEW n \in Nat, Cardinality(S) < n
  PROVE  S \cup Added \in SUBSET Rows /\ Cardinality(S \cup Added) <= n
<1>0. Cardinality(S) \in Nat BY RowsAreFinite
<1>1. CASE Added = {}
  BY <1>0, <1>1
<1>2. CASE \E r \in Rows : Added = {r}
  <2>1. PICK r \in Rows : Added = {r} BY <1>2
  <2>2. Cardinality(S \cup {r}) <= Cardinality(S) + 1
    BY <1>0, RowsAreFinite, FS_AddElement
  <2>. QED BY <1>0, <2>1, <2>2, RowsAreFinite
<1>. QED BY <1>1, <1>2 DEF OneRow

LEMMA FewerByOne ==
  ASSUME NEW S \in SUBSET Rows, NEW r
  PROVE  S \ {r} \in SUBSET Rows /\ Cardinality(S \ {r}) <= Cardinality(S)
BY RowsAreFinite, FS_Subset

LEMMA OneRowFacts == OneRow({}) /\ \A r \in Rows : OneRow({r})
BY DEF OneRow

LEMMA TypeInit == Init => TypeInv
<1>. SUFFICES ASSUME Init PROVE TypeInv OBVIOUS
<1>1. Cardinality({}) = 0 BY FS_EmptySet
<1>2. TypeOK
  <2>1. query \in [at: QueryStates, left: SUBSET Rows, row: SUBSET Rows, failed: BOOLEAN]
    BY DEF Init, QueryStates
  <2>2. processor \in [Processors -> [at: ProcessorStates, row: SUBSET Rows]]
    BY DEF Init, ProcessorStates
  <2>3. Cardinality(work) <= Capacity /\ Cardinality(results) <= Capacity
          /\ Cardinality(pending) < Batch
    BY <1>1, ConstantsAssumption DEF Init
  <2>. QED BY <2>1, <2>2, <2>3 DEF Init, TypeOK, CallerStates
<1>3. Hands
  BY OneRowFacts DEF Init, Hands
<1>. QED BY <1>2, <1>3 DEF TypeInv

\* What a step of a processor does to the processors.
LEMMA AtKeepsHands ==
  ASSUME TypeInv, NEW p \in Processors, NEW at \in ProcessorStates, NEW row \in SUBSET Rows,
         At(p, at, row), OneRow(row), at # "sending" => row = {}
  PROVE  /\ processor' \in [Processors -> [at: ProcessorStates, row: SUBSET Rows]]
         /\ \A q \in Processors : /\ OneRow(processor'[q].row)
                                  /\ processor'[q].at # "sending" => processor'[q].row = {}
<1>1. \A q \in Processors :
        processor'[q] = IF q = p THEN [at |-> at, row |-> row] ELSE processor[q]
  BY DEF TypeInv, TypeOK, At
<1>2. processor' \in [Processors -> [at: ProcessorStates, row: SUBSET Rows]]
  BY DEF TypeInv, TypeOK, At
<1>. QED BY <1>1, <1>2 DEF TypeInv, Hands

\* What the other steps leave alone.
LEMMA QueryKeeps ==
  ASSUME TypeInv, UNCHANGED <<work, processor, results, caller, pending, stored>>,
         query' \in [at: QueryStates, left: SUBSET Rows, row: SUBSET Rows, failed: BOOLEAN],
         OneRow(query'.row), query'.at # "sending" => query'.row = {}, hasErrors' \in BOOLEAN
  PROVE  TypeInv'
BY DEF TypeInv, TypeOK, Hands

LEMMA TypeNext == TypeInv /\ [Next]_vars => TypeInv'
<1>. SUFFICES ASSUME TypeInv, [Next]_vars PROVE TypeInv' OBVIOUS
<1>0. Capacity \in Nat /\ Batch \in Nat BY ConstantsAssumption
<1>1. CASE Read
  <2>1. PICK r \in query.left :
          query' = [query EXCEPT !.at = "sending", !.left = @ \ {r}, !.row = {r}]
    BY <1>1 DEF Read
  <2>2. r \in Rows BY DEF TypeInv, TypeOK
  <2>3. /\ query' \in [at: QueryStates, left: SUBSET Rows, row: SUBSET Rows, failed: BOOLEAN]
        /\ query'.at = "sending" /\ query'.row = {r}
    BY <2>1, <2>2 DEF TypeInv, TypeOK, QueryStates
  <2>. QED BY <1>1, <2>2, <2>3, OneRowFacts, QueryKeeps DEF Read, TypeInv, TypeOK
<1>2. CASE Send
  <2>1. work' \in SUBSET Rows /\ Cardinality(work') <= Capacity
    BY <1>0, <1>2, RoomForOne DEF Send, TypeInv, TypeOK, Hands
  <2>2. /\ query' \in [at: QueryStates, left: SUBSET Rows, row: SUBSET Rows, failed: BOOLEAN]
        /\ query'.row = {}
    BY <1>2 DEF Send, TypeInv, TypeOK, QueryStates
  <2>. QED BY <1>2, <2>1, <2>2, OneRowFacts DEF Send, TypeInv, TypeOK, Hands
<1>3. CASE EndQuery
  <2>1. /\ query' \in [at: QueryStates, left: SUBSET Rows, row: SUBSET Rows, failed: BOOLEAN]
        /\ query'.row = {}
    BY <1>3 DEF EndQuery, TypeInv, TypeOK, QueryStates
  <2>. QED BY <1>3, <2>1, OneRowFacts, QueryKeeps DEF EndQuery, TypeInv, TypeOK
<1>4. CASE FailQuery
  <2>1. /\ query' \in [at: QueryStates, left: SUBSET Rows, row: SUBSET Rows, failed: BOOLEAN]
        /\ query'.row = {}
    BY <1>4 DEF FailQuery, TypeInv, TypeOK, Hands, QueryStates
  <2>. QED BY <1>4, <2>1, OneRowFacts, QueryKeeps DEF FailQuery, TypeInv, TypeOK
<1>5. CASE TellQueryFailed
  <2>1. /\ query' \in [at: QueryStates, left: SUBSET Rows, row: SUBSET Rows, failed: BOOLEAN]
        /\ query'.row = {}
    BY <1>5 DEF TellQueryFailed, TypeInv, TypeOK, Hands, QueryStates
  <2>. QED BY <1>5, <2>1, OneRowFacts, QueryKeeps DEF TellQueryFailed
<1>6. ASSUME NEW p \in Processors, Take(p) PROVE TypeInv'
  <2>1. PICK r \in work : /\ work' = work \ {r}
                          /\ At(p, "sending", {r}) \/ At(p, "failing", {})
    BY <1>6 DEF Take
  <2>2. work \in SUBSET Rows /\ r \in Rows BY <2>1 DEF TypeInv, TypeOK
  <2>3. work' \in SUBSET Rows /\ Cardinality(work') <= Capacity
    <3>1. Cardinality(work) \in Nat /\ Cardinality(work') \in Nat
      BY <2>1, <2>2, RowsAreFinite
    <3>2. Cardinality(work') <= Cardinality(work) BY <2>1, <2>2, FewerByOne
    <3>. QED BY <1>0, <2>1, <2>2, <3>1, <3>2 DEF TypeInv, TypeOK
  <2>4. {r} \in SUBSET Rows /\ OneRow({r}) /\ OneRow({}) BY <2>2, OneRowFacts
  <2>5. "sending" \in ProcessorStates /\ "failing" \in ProcessorStates BY DEF ProcessorStates
  <2>6. CASE At(p, "sending", {r})
    BY <1>6, <2>3, <2>4, <2>5, <2>6, AtKeepsHands DEF Take, TypeInv, TypeOK, Hands
  <2>7. CASE At(p, "failing", {})
    BY <1>6, <2>3, <2>4, <2>5, <2>7, AtKeepsHands DEF Take, TypeInv, TypeOK, Hands
  <2>. QED BY <2>1, <2>6, <2>7
<1>7. ASSUME NEW p \in Processors, Deliver(p) PROVE TypeInv'
  <2>1. OneRow(processor[p].row) BY DEF TypeInv, Hands
  <2>2. results' \in SUBSET Rows /\ Cardinality(results') <= Capacity
    BY <1>0, <1>7, <2>1, RoomForOne DEF Deliver, TypeInv, TypeOK
  <2>3. "checking" \in ProcessorStates BY DEF ProcessorStates
  <2>. QED
    BY <1>7, <2>2, <2>3, OneRowFacts, AtKeepsHands DEF Deliver, TypeInv, TypeOK, Hands
<1>8. ASSUME NEW p \in Processors,
             Refused(p) \/ TellFailed(p) \/ Check(p) \/ EndProcessor(p)
      PROVE  TypeInv'
  <2>1. PICK at \in ProcessorStates : At(p, at, {}) /\ at # "sending"
    BY <1>8 DEF Refused, TellFailed, Check, EndProcessor, ProcessorStates
  <2>2. UNCHANGED <<query, work, results, caller, pending, stored>> /\ hasErrors' \in BOOLEAN
    BY <1>8 DEF Refused, TellFailed, Check, EndProcessor, TypeInv, TypeOK
  <2>. QED BY <2>1, <2>2, OneRowFacts, AtKeepsHands DEF TypeInv, TypeOK, Hands
<1>9. Cardinality({}) = 0 /\ 0 < Batch BY FS_EmptySet, ConstantsAssumption
<1>10. CASE Prepare \/ Commit \/ Judge
  <2>1. UNCHANGED <<query, work, processor, results, hasErrors>>
    BY <1>10 DEF Prepare, Commit, Judge
  <2>2. /\ caller' \in CallerStates /\ stored' \in SUBSET Rows
        /\ pending' \in SUBSET Rows /\ Cardinality(pending') < Batch
    BY <1>9, <1>10 DEF Prepare, Commit, Judge, CallerFails, CallerStates, TypeInv, TypeOK
  <2>. QED BY <2>1, <2>2 DEF TypeInv, TypeOK, Hands
<1>11. CASE Insert
  <2>1. PICK r \in results :
          /\ results' = results \ {r}
          /\ \/ /\ Cardinality(pending \cup {r}) < Batch
                /\ pending' = pending \cup {r}
                /\ UNCHANGED <<caller, stored>>
             \/ /\ pending' = {}
                /\ stored' = stored \cup pending \cup {r}
                /\ UNCHANGED caller
             \/ CallerFails
    BY <1>11 DEF Insert
  <2>2. results \in SUBSET Rows /\ r \in Rows BY <2>1 DEF TypeInv, TypeOK
  <2>3. results' \in SUBSET Rows /\ Cardinality(results') <= Capacity
    <3>1. Cardinality(results) \in Nat /\ Cardinality(results') \in Nat
      BY <2>1, <2>2, RowsAreFinite
    <3>2. Cardinality(results') <= Cardinality(results) BY <2>1, <2>2, FewerByOne
    <3>. QED BY <1>0, <2>1, <2>2, <3>1, <3>2 DEF TypeInv, TypeOK
  <2>4. pending' \in SUBSET Rows /\ Cardinality(pending') < Batch
    BY <1>9, <2>1, <2>2 DEF CallerFails, TypeInv, TypeOK
  <2>5. stored' \in SUBSET Rows /\ caller' \in CallerStates
    BY <2>1, <2>2 DEF CallerFails, CallerStates, TypeInv, TypeOK
  <2>. QED BY <1>11, <2>3, <2>4, <2>5 DEF Insert, TypeInv, TypeOK, Hands
<1>12. CASE UNCHANGED vars
  BY <1>12 DEF vars, TypeInv, TypeOK, Hands
<1>. QED
  BY <1>1, <1>2, <1>3, <1>4, <1>5, <1>6, <1>7, <1>8, <1>10, <1>11, <1>12
  DEF Next, Query, Process, Run

-----------------------------------------------------------------------------
(***************************************************************************)
(* Nothing is lost.  Until something fails, every row is in one of the     *)
(* places below, and the caller commits only when all of them but the      *)
(* transactions are empty: a processor that stops without a failure has    *)
(* found the channel closed and empty.                                     *)
(***************************************************************************)
Troubled ==
  \/ hasErrors
  \/ query.failed
  \/ caller = "error"
  \/ \E p \in Processors : processor[p].at = "failing"

Placed(r) ==
  \/ r \in query.left \cup query.row \cup work \cup results \cup pending \cup stored
  \/ \E p \in Processors : r \in processor[p].row

FlowInv ==
  /\ Troubled \/ \A r \in Rows : Placed(r)
  /\ query.at = "failing" => query.failed
  /\ query.at = "ended" => query.left = {} \/ Troubled
  /\ (\E p \in Processors : processor[p].at = "stopped")
        => hasErrors \/ (WorkClosed /\ work = {})
  /\ caller \in {"judging", "ok"} => ResultsClosed /\ results = {} /\ pending = {}
  /\ NothingLost

LEMMA FlowInit == Init => FlowInv
BY DEF Init, FlowInv, Troubled, Placed, NothingLost

\* In the scenes of the other pipelines no patch is made.
LEMMA AllStarts == AllInit => TypeInv /\ FlowInv /\ EachRowOnce
<1>1. Init => EachRowOnce
  BY DEF Init, EachRowOnce
<1>2. ASSUME BinDiffIdle PROVE TypeInv /\ FlowInv /\ EachRowOnce
  <2>1. TypeOK
    <3>1. Cardinality({}) = 0
      BY FS_EmptySet
    <3>2. query \in [at: QueryStates, left: SUBSET Rows, row: SUBSET Rows, failed: BOOLEAN]
      BY <1>2 DEF BinDiffIdle, QueryStates
    <3>3. processor \in [Processors -> [at: ProcessorStates, row: SUBSET Rows]]
      BY <1>2 DEF BinDiffIdle, ProcessorStates
    <3>4. Cardinality(work) <= Capacity /\ Cardinality(results) <= Capacity
            /\ Cardinality(pending) < Batch
      BY <1>2, <3>1, ConstantsAssumption DEF BinDiffIdle
    <3> QED BY <1>2, <3>2, <3>3, <3>4 DEF BinDiffIdle, TypeOK, CallerStates
  <2>2. Hands
    BY <1>2 DEF BinDiffIdle, Hands, OneRow
  <2>3. FlowInv
    BY <1>2 DEF BinDiffIdle, FlowInv, Troubled, NothingLost, WorkClosed
  <2>4. EachRowOnce
    BY <1>2 DEF BinDiffIdle, EachRowOnce
  <2> QED BY <2>1, <2>2, <2>3, <2>4 DEF TypeInv
<1> QED BY <1>1, <1>2, TypeInit, FlowInit DEF AllInit

LEMMA AllSteps == [AllNext]_allVars => [Next]_vars
BY DEF AllNext, allVars

\* Types, the capacity of the channels and the size of a transaction.
THEOREM TypeCorrect == AllSpec => []TypeOK
<1>1. AllSpec => []TypeInv BY AllStarts, AllSteps, TypeNext, PTL DEF AllSpec
<1>. QED BY <1>1, PTL DEF TypeInv


\* A step of a processor, seen from the processors.
LEMMA AtValues ==
  ASSUME TypeInv, NEW p \in Processors, NEW at, NEW row, At(p, at, row)
  PROVE  /\ processor'[p].at = at /\ processor'[p].row = row
         /\ \A q \in Processors \ {p} : processor'[q] = processor[q]
BY DEF TypeInv, TypeOK, At

LEMMA FlowOfQuery == TypeInv /\ FlowInv /\ Query => FlowInv'
<1>. SUFFICES ASSUME TypeInv, FlowInv, Query PROVE FlowInv' OBVIOUS
<1>. USE DEF FlowInv, Troubled, NothingLost
<1>1. CASE Read
  <2>1. PICK r \in query.left :
          query' = [query EXCEPT !.at = "sending", !.left = @ \ {r}, !.row = {r}]
    BY <1>1 DEF Read
  <2>2. query' = [at |-> "sending", left |-> query.left \ {r}, row |-> {r},
                  failed |-> query.failed]
    BY <2>1 DEF TypeInv, TypeOK
  <2>3. query.row = {} BY <1>1 DEF Read, TypeInv, Hands
  <2>4. (\A s \in Rows : Placed(s)) => \A s \in Rows : Placed(s)'
    BY <1>1, <2>2, <2>3 DEF Read, Placed
  <2>. QED BY <1>1, <2>2, <2>4 DEF Read, WorkClosed, ResultsClosed
<1>2. CASE Send
  <2>1. query' = [at |-> "reading", left |-> query.left, row |-> {}, failed |-> query.failed]
    BY <1>2 DEF Send, TypeInv, TypeOK
  <2>2. (\A s \in Rows : Placed(s)) => \A s \in Rows : Placed(s)'
    BY <1>2, <2>1 DEF Send, Placed
  <2>3. query.at = "sending" BY <1>2 DEF Send
  <2>. QED BY <1>2, <2>1, <2>2, <2>3 DEF Send, WorkClosed, ResultsClosed
<1>3. CASE EndQuery
  <2>1. query' = [at |-> "ended", left |-> query.left, row |-> {}, failed |-> query.failed]
    BY <1>3 DEF EndQuery, TypeInv, TypeOK
  <2>2. CASE query.at = "reading" /\ query.left = {}
    <3>1. query.row = {} BY <2>2 DEF TypeInv, Hands
    <3>2. (\A s \in Rows : Placed(s)) => \A s \in Rows : Placed(s)'
      BY <1>3, <2>1, <3>1 DEF EndQuery, Placed
    <3>. QED BY <1>3, <2>1, <2>2, <3>2 DEF EndQuery, WorkClosed, ResultsClosed
  <2>3. CASE query.at = "sending" /\ WorkRefused
    <3>1. hasErrors BY <2>3, ConstantsAssumption DEF WorkRefused, WorkClosed
    <3>. QED BY <1>3, <2>1, <2>3, <3>1 DEF EndQuery, ResultsClosed
  <2>. QED BY <1>3, <2>2, <2>3 DEF EndQuery
<1>4. CASE FailQuery
  <2>1. query' = [at |-> "failing", left |-> query.left, row |-> query.row, failed |-> TRUE]
    BY <1>4 DEF FailQuery, TypeInv, TypeOK
  <2>. QED BY <1>4, <2>1 DEF FailQuery, WorkClosed, ResultsClosed
<1>5. CASE TellQueryFailed
  <2>1. query' = [at |-> "ended", left |-> query.left, row |-> query.row,
                  failed |-> query.failed]
    BY <1>5 DEF TellQueryFailed, TypeInv, TypeOK
  <2>. QED BY <1>5, <2>1 DEF TellQueryFailed, ResultsClosed
<1>. QED BY <1>1, <1>2, <1>3, <1>4, <1>5 DEF Query

LEMMA FlowOfProcessor ==
  ASSUME TypeInv, FlowInv, NEW p \in Processors, Process(p)
  PROVE  FlowInv'
<1>. USE DEF FlowInv, Troubled, NothingLost
\* The caller is still inserting, since this processor is not stopped.
<1>0. processor[p].at # "stopped" /\ caller \notin {"judging", "ok"}
  BY DEF Process, Take, Deliver, Refused, TellFailed, Check, EndProcessor, ResultsClosed
<1>1. CASE Take(p)
  <2>1. PICK r \in work : /\ work' = work \ {r}
                          /\ At(p, "sending", {r}) \/ At(p, "failing", {})
    BY <1>1 DEF Take
  <2>2. processor[p].row = {} BY <1>1 DEF Take, TypeInv, Hands
  <2>3. CASE At(p, "sending", {r})
    <3>1. /\ processor'[p].at = "sending" /\ processor'[p].row = {r}
          /\ \A q \in Processors \ {p} : processor'[q] = processor[q]
      BY <2>3, AtValues
    <3>2. (\A s \in Rows : Placed(s)) => \A s \in Rows : Placed(s)'
      BY <1>1, <2>1, <2>2, <3>1 DEF Take, Placed
    <3>3. Troubled => Troubled'
      BY <1>1, <3>1 DEF Take
    <3>. QED BY <1>0, <1>1, <2>1, <3>1, <3>2, <3>3 DEF Take, WorkClosed
  <2>4. CASE At(p, "failing", {})
    <3>1. /\ processor'[p].at = "failing"
          /\ \A q \in Processors \ {p} : processor'[q] = processor[q]
      BY <2>4, AtValues
    <3>. QED BY <1>0, <1>1, <2>1, <3>1 DEF Take, WorkClosed
  <2>. QED BY <2>1, <2>3, <2>4
<1>2. CASE Deliver(p)
  <2>1. /\ processor'[p].at = "checking" /\ processor'[p].row = {}
        /\ \A q \in Processors \ {p} : processor'[q] = processor[q]
    BY <1>2, AtValues DEF Deliver
  <2>2. (\A s \in Rows : Placed(s)) => \A s \in Rows : Placed(s)'
    BY <1>2, <2>1 DEF Deliver, Placed
  <2>3. Troubled => Troubled'
    BY <1>2, <2>1 DEF Deliver
  <2>. QED BY <1>0, <1>2, <2>1, <2>2, <2>3 DEF Deliver, WorkClosed
<1>3. CASE Refused(p)
  <2>1. /\ processor'[p].at = "failing"
        /\ \A q \in Processors \ {p} : processor'[q] = processor[q]
    BY <1>3, AtValues DEF Refused
  <2>. QED BY <1>0, <1>3, <2>1 DEF Refused, WorkClosed
<1>4. CASE TellFailed(p)
  BY <1>0, <1>4 DEF TellFailed
<1>5. CASE Check(p)
  <2>1. /\ processor'[p].at = IF hasErrors THEN "stopped" ELSE "waiting"
        /\ processor'[p].row = {}
        /\ \A q \in Processors \ {p} : processor'[q] = processor[q]
    BY <1>5, AtValues DEF Check
  <2>2. processor[p].row = {} BY <1>5 DEF Check, TypeInv, Hands
  <2>3. (\A s \in Rows : Placed(s)) => \A s \in Rows : Placed(s)'
    BY <1>5, <2>1, <2>2 DEF Check, Placed
  <2>4. Troubled => Troubled'
    BY <1>5, <2>1 DEF Check
  <2>. QED BY <1>0, <1>5, <2>1, <2>3, <2>4 DEF Check, WorkClosed
<1>6. CASE EndProcessor(p)
  <2>1. /\ processor'[p].at = "stopped" /\ processor'[p].row = {}
        /\ \A q \in Processors \ {p} : processor'[q] = processor[q]
    BY <1>6, AtValues DEF EndProcessor
  <2>2. processor[p].row = {} BY <1>6 DEF EndProcessor, TypeInv, Hands
  <2>3. (\A s \in Rows : Placed(s)) => \A s \in Rows : Placed(s)'
    BY <1>6, <2>1, <2>2 DEF EndProcessor, Placed
  <2>4. Troubled => Troubled'
    BY <1>6, <2>1 DEF EndProcessor
  <2>. QED BY <1>0, <1>6, <2>1, <2>3, <2>4 DEF EndProcessor, WorkClosed
<1>. QED BY <1>1, <1>2, <1>3, <1>4, <1>5, <1>6 DEF Process

LEMMA FlowOfRun == TypeInv /\ FlowInv /\ Run => FlowInv'
<1>. SUFFICES ASSUME TypeInv, FlowInv, Run PROVE FlowInv' OBVIOUS
<1>. USE DEF FlowInv, Troubled, NothingLost
<1>1. CASE Prepare
  BY <1>1 DEF Prepare, CallerFails, Placed, WorkClosed, ResultsClosed
<1>2. CASE Insert
  <2>1. PICK r \in results :
          /\ results' = results \ {r}
          /\ \/ pending' = pending \cup {r} /\ UNCHANGED <<caller, stored>>
             \/ pending' = {} /\ stored' = stored \cup pending \cup {r} /\ UNCHANGED caller
             \/ CallerFails
    BY <1>2 DEF Insert
  <2>2. caller' = "error" \/ ((\A s \in Rows : Placed(s)) => \A s \in Rows : Placed(s)')
    BY <1>2, <2>1 DEF Insert, CallerFails, Placed
  <2>. QED BY <1>2, <2>1, <2>2 DEF Insert, CallerFails, WorkClosed, ResultsClosed
<1>3. CASE Commit
  <2>1. caller' = "error" \/ ((\A s \in Rows : Placed(s)) => \A s \in Rows : Placed(s)')
    BY <1>3 DEF Commit, CallerFails, Placed
  <2>. QED BY <1>3, <2>1 DEF Commit, CallerFails, WorkClosed, ResultsClosed
<1>4. CASE Judge
  <2>1. ASSUME ~hasErrors, ~query.failed PROVE stored = Rows
    <3>1. \A p \in Processors : processor[p].at = "stopped"
      BY <1>4 DEF Judge, ResultsClosed
    <3>2. WorkClosed /\ work = {} BY <2>1, <3>1, ConstantsAssumption
    <3>3. ~Troubled BY <1>4, <2>1, <3>1 DEF Judge
    <3>4. query.left = {} /\ query.row = {}
      BY <2>1, <3>2, <3>3 DEF WorkClosed, TypeInv, Hands
    <3>5. \A p \in Processors : processor[p].row = {}
      BY <3>1 DEF TypeInv, Hands
    <3>6. \A r \in Rows : r \in stored
      BY <1>4, <3>2, <3>3, <3>4, <3>5 DEF Judge, Placed
    <3>. QED BY <3>6 DEF TypeInv, TypeOK
  <2>2. (\A s \in Rows : Placed(s)) => \A s \in Rows : Placed(s)'
    BY <1>4 DEF Judge, Placed
  <2>. QED BY <1>4, <2>1, <2>2 DEF Judge, WorkClosed, ResultsClosed, TypeInv, TypeOK
<1>. QED BY <1>1, <1>2, <1>3, <1>4 DEF Run

LEMMA FlowNext == TypeInv /\ FlowInv /\ [Next]_vars => FlowInv'
<1>1. ASSUME UNCHANGED vars, FlowInv PROVE FlowInv'
  BY <1>1 DEF vars, FlowInv, Troubled, Placed, NothingLost, WorkClosed, ResultsClosed
<1>. QED BY <1>1, FlowOfQuery, FlowOfProcessor, FlowOfRun DEF Next

\* Unless the query fails, run returns Ok only when every row is stored, for any
\* number of processors and any capacity of the channels.
THEOREM NothingIsLost == AllSpec => []NothingLost
<1>1. AllSpec => [](TypeInv /\ FlowInv)
  BY AllStarts, AllSteps, TypeNext, FlowNext, PTL DEF AllSpec
<1>. QED BY <1>1, PTL DEF FlowInv

-----------------------------------------------------------------------------
\* Each row is in one place, which is inductive as it stands.

LEMMA OnceNext == TypeInv /\ EachRowOnce /\ [Next]_vars => EachRowOnce'
<1>. SUFFICES ASSUME TypeInv, EachRowOnce, [Next]_vars PROVE EachRowOnce' OBVIOUS
<1>1. CASE Read
  <2>1. PICK r \in query.left :
          query' = [query EXCEPT !.at = "sending", !.left = @ \ {r}, !.row = {r}]
    BY <1>1 DEF Read
  <2>2. query'.left = query.left \ {r} /\ query'.row = {r}
    BY <2>1 DEF TypeInv, TypeOK
  <2>. QED BY <1>1, <2>1, <2>2 DEF Read, EachRowOnce
<1>2. CASE Send
  <2>1. query'.left = query.left /\ query'.row = {} BY <1>2 DEF Send, TypeInv, TypeOK
  <2>. QED BY <1>2, <2>1 DEF Send, EachRowOnce
<1>3. CASE EndQuery \/ FailQuery \/ TellQueryFailed
  <2>1. query'.left = query.left /\ query'.row \in {query.row, {}}
    BY <1>3 DEF EndQuery, FailQuery, TellQueryFailed, TypeInv, TypeOK
  <2>2. UNCHANGED <<work, processor, results, pending, stored>>
    BY <1>3 DEF EndQuery, FailQuery, TellQueryFailed
  <2>. QED BY <2>1, <2>2 DEF EachRowOnce
<1>4. ASSUME NEW p \in Processors, Take(p) PROVE EachRowOnce'
  <2>1. PICK r \in work, at \in ProcessorStates, row \in SUBSET work :
          row \in {{r}, {}} /\ At(p, at, row) /\ work' = work \ {r}
    BY <1>4 DEF Take, ProcessorStates
  <2>2. processor'[p].row = row /\ \A q \in Processors \ {p} : processor'[q] = processor[q]
    BY <2>1, AtValues
  <2>3. UNCHANGED <<query, results, pending, stored>> BY <1>4 DEF Take
  <2>. QED BY <2>1, <2>2, <2>3 DEF EachRowOnce
<1>5. ASSUME NEW p \in Processors, Deliver(p) PROVE EachRowOnce'
  <2>1. processor'[p].row = {} /\ \A q \in Processors \ {p} : processor'[q] = processor[q]
    BY <1>5, AtValues DEF Deliver
  <2>. QED BY <1>5, <2>1 DEF Deliver, EachRowOnce
<1>6. ASSUME NEW p \in Processors,
             Refused(p) \/ TellFailed(p) \/ Check(p) \/ EndProcessor(p)
      PROVE  EachRowOnce'
  <2>1. PICK at : At(p, at, {})
    BY <1>6 DEF Refused, TellFailed, Check, EndProcessor
  <2>2. processor'[p].row = {} /\ \A q \in Processors \ {p} : processor'[q] = processor[q]
    BY <2>1, AtValues
  <2>3. UNCHANGED <<query, work, results, pending, stored>>
    BY <1>6 DEF Refused, TellFailed, Check, EndProcessor
  <2>. QED BY <2>2, <2>3 DEF EachRowOnce
<1>7. CASE Run
  <2>1. UNCHANGED <<query, work, processor>>
    BY <1>7 DEF Run, Prepare, Insert, Commit, Judge
  <2>2. \/ UNCHANGED results
        \/ \E r \in results : results' = results \ {r}
    BY <1>7 DEF Run, Prepare, Insert, Commit, Judge
  <2>3. \/ UNCHANGED <<pending, stored>>
        \/ pending' = {} /\ stored' \in {stored, stored \cup pending}
        \/ \E r \in results : /\ results' = results \ {r}
                              /\ \/ pending' = pending \cup {r} /\ UNCHANGED stored
                                 \/ pending' = {} /\ stored' = stored \cup pending \cup {r}
    BY <1>7 DEF Run, Prepare, Insert, Commit, Judge, CallerFails
  <2>. QED BY <2>1, <2>2, <2>3 DEF EachRowOnce
<1>8. CASE UNCHANGED vars
  BY <1>8 DEF vars, EachRowOnce
<1>. QED
  BY <1>1, <1>2, <1>3, <1>4, <1>5, <1>6, <1>7, <1>8 DEF Next, Query, Process

\* No row is processed or inserted twice.
THEOREM RowsAreHandledOnce == Spec => []EachRowOnce
<1>1. Init => EachRowOnce BY DEF Init, EachRowOnce
<1>. QED BY <1>1, TypeInit, TypeNext, OnceNext, PTL DEF Spec

-----------------------------------------------------------------------------
(* RenderPool: any number of workers and requests.                          *)

Styles == {ImageOf[r].style : r \in Requests} \cup {R!Absent}
Sizes == {ImageOf[r].size : r \in Requests} \cup {R!Absent}

WorkerState ==
  [at : {"idle", "load", "loading", "render", "dead", "ended"},
   request : Requests \cup {R!Absent}, size : Sizes, loaded : Styles, cached : Styles]

\* What a worker that has taken a request is about to render with.
WorkerInv(w) ==
  /\ worker[w].cached \in {R!Absent, worker[w].loaded}
  /\ worker[w].at \in {"load", "loading", "render"} =>
       worker[w].request \in Requests /\ worker[w].size = ImageOf[worker[w].request].size
  /\ worker[w].at = "render" => worker[w].loaded = R!Style(w)

PoolInv ==
  /\ queue \in Seq(Requests \cup {R!Shutdown})
  /\ worker \in [Workers -> WorkerState]
  /\ \A w \in Workers : WorkerInv(w)

LEMMA PoolInit == R!Init => PoolInv
  BY DEF R!Init, PoolInv, WorkerState, WorkerInv, Styles, Sizes

\* A step of one worker, its new state given.
LEMMA WorkerStep ==
  ASSUME PoolInv, NEW w \in Workers, NEW next \in WorkerState,
         worker' = [worker EXCEPT ![w] = next],
         queue' \in Seq(Requests \cup {R!Shutdown}),
         next.cached \in {R!Absent, next.loaded},
         next.at \in {"load", "loading", "render"} =>
           next.request \in Requests /\ next.size = ImageOf[next.request].size,
         next.at = "render" => next.loaded = ImageOf[next.request].style
  PROVE  PoolInv'
<1>1. worker' \in [Workers -> WorkerState] /\ worker'[w] = next
  BY DEF PoolInv
<1>2. \A v \in Workers \ {w} : worker'[v] = worker[v]
  BY DEF PoolInv
<1>3. ASSUME NEW v \in Workers PROVE WorkerInv(v)'
  BY <1>1, <1>2 DEF PoolInv, WorkerInv, R!Style
<1> QED BY <1>1, <1>3 DEF PoolInv

LEMMA PoolStep ==
  ASSUME PoolInv, [R!Next]_renderVars
  PROVE  PoolInv'
<1>t. /\ \A w \in Workers : worker[w] \in WorkerState /\ WorkerInv(w)
      /\ queue \in Seq(Requests \cup {R!Shutdown})
  BY DEF PoolInv
<1>1. ASSUME NEW w \in Workers, R!Take(w) PROVE PoolInv'
  <2>1. queue # <<>> /\ Head(queue) \in Requests \cup {R!Shutdown}
    BY <1>1, <1>t DEF R!Take
  <2>2. queue' \in Seq(Requests \cup {R!Shutdown})
    BY <1>1, <1>t, <2>1 DEF R!Take
  <2>3. CASE Head(queue) = R!Shutdown
    <3> DEFINE next == [worker[w] EXCEPT !.at = "ended"]
    <3>1. worker' = [worker EXCEPT ![w] = next]
      BY <1>1, <2>3 DEF R!Take
    <3>2. next \in WorkerState /\ next.at = "ended" /\ next.cached \in {R!Absent, next.loaded}
      BY <1>t DEF WorkerState, WorkerInv
    <3> QED BY <2>2, <3>1, <3>2, WorkerStep
  <2>4. CASE Head(queue) # R!Shutdown /\ worker[w].size = ImageOf[Head(queue)].size
    <3> DEFINE next == [worker[w] EXCEPT !.at = "load", !.request = Head(queue)]
    <3>1. worker' = [worker EXCEPT ![w] = next]
      BY <1>1, <2>4 DEF R!Take
    <3>2. /\ next \in WorkerState /\ next.at = "load" /\ next.cached \in {R!Absent, next.loaded}
          /\ next.request \in Requests /\ next.size = ImageOf[next.request].size
      BY <1>t, <2>1, <2>4 DEF WorkerState, WorkerInv
    <3> QED BY <2>2, <3>1, <3>2, WorkerStep
  <2>5. CASE Head(queue) # R!Shutdown /\ worker[w].size # ImageOf[Head(queue)].size
    <3> DEFINE next == [at |-> "load", request |-> Head(queue),
                        size |-> ImageOf[Head(queue)].size, loaded |-> R!Absent, cached |-> R!Absent]
    <3>1. worker' = [worker EXCEPT ![w] = next]
      BY <1>1, <2>5 DEF R!Take
    <3>2. next \in WorkerState /\ Head(queue) \in Requests
      BY <2>1, <2>5 DEF WorkerState, Styles, Sizes
    <3> QED BY <2>2, <3>1, <3>2, WorkerStep
  <2> QED BY <2>3, <2>4, <2>5
<1>2. ASSUME NEW w \in Workers, R!Load(w) PROVE PoolInv'
  <2>1. CASE worker[w].cached = R!Style(w)
    <3> DEFINE next == [worker[w] EXCEPT !.at = "render"]
    <3>1. worker' = [worker EXCEPT ![w] = next] /\ R!WAt(w, "load") /\ queue' = queue
      BY <1>2, <2>1 DEF R!Load
    <3>2. R!Style(w) # R!Absent
      BY <1>t, <3>1, StylesAssumption DEF R!WAt, WorkerInv, R!Style
    <3>3. next \in WorkerState /\ next.at = "render" /\ next.cached \in {R!Absent, next.loaded}
          /\ next.request \in Requests /\ next.size = ImageOf[next.request].size
          /\ next.loaded = ImageOf[next.request].style
      BY <1>t, <2>1, <3>1, <3>2 DEF WorkerState, WorkerInv, R!WAt, R!Style
    <3> QED BY <1>t, <3>1, <3>3, WorkerStep
  <2>2. CASE worker[w].cached # R!Style(w)
    <3> DEFINE next == [worker[w] EXCEPT !.at = "loading", !.cached = R!Absent, !.loaded = R!Absent]
    <3>1. worker' = [worker EXCEPT ![w] = next] /\ R!WAt(w, "load") /\ queue' = queue
      BY <1>2, <2>2 DEF R!Load, R!CachedWhileLoading
    <3>2. next \in WorkerState /\ next.at = "loading" /\ next.cached = R!Absent
          /\ next.request \in Requests /\ next.size = ImageOf[next.request].size
      BY <1>t, <3>1 DEF WorkerState, WorkerInv, R!WAt, Styles
    <3> QED BY <1>t, <3>1, <3>2, WorkerStep
  <2> QED BY <2>1, <2>2
<1>3. ASSUME NEW w \in Workers, R!Loaded(w) PROVE PoolInv'
  <2>1. CASE R!Style(w) \in Broken
    <3> DEFINE next == [worker[w] EXCEPT !.at = "idle", !.request = R!Absent]
    <3>1. worker' = [worker EXCEPT ![w] = next] /\ queue' = queue
      BY <1>3, <2>1 DEF R!Loaded
    <3>2. next \in WorkerState /\ next.at = "idle" /\ next.cached \in {R!Absent, next.loaded}
      BY <1>t DEF WorkerState, WorkerInv
    <3> QED BY <1>t, <3>1, <3>2, WorkerStep
  <2>2. CASE R!Style(w) \notin Broken
    <3> DEFINE next == [worker[w] EXCEPT !.at = "render", !.loaded = R!Style(w), !.cached = R!Style(w)]
    <3>1. worker' = [worker EXCEPT ![w] = next] /\ R!WAt(w, "loading") /\ queue' = queue
      BY <1>3, <2>2 DEF R!Loaded
    <3>2. worker[w].request \in Requests /\ R!Style(w) \in Styles
      BY <1>t, <3>1 DEF WorkerInv, R!WAt, R!Style, Styles
    <3>3. next \in WorkerState /\ next.at = "render" /\ next.cached = next.loaded
          /\ next.request \in Requests /\ next.size = ImageOf[next.request].size
          /\ next.loaded = ImageOf[next.request].style
      BY <1>t, <3>1, <3>2 DEF WorkerState, WorkerInv, R!WAt, R!Style
    <3> QED BY <1>t, <3>1, <3>3, WorkerStep
  <2> QED BY <2>1, <2>2
<1>4. ASSUME NEW w \in Workers, NEW at \in {"idle", "dead"},
             worker' = [worker EXCEPT ![w] = [worker[w] EXCEPT !.at = at, !.request = R!Absent]],
             queue' = queue
      PROVE  PoolInv'
  <2> DEFINE next == [worker[w] EXCEPT !.at = at, !.request = R!Absent]
  <2>1. next \in WorkerState /\ next.at = at /\ next.cached \in {R!Absent, next.loaded}
    BY <1>t DEF WorkerState, WorkerInv
  <2> QED BY <1>t, <1>4, <2>1, WorkerStep
<1>5. ASSUME NEW w \in Workers, R!Render(w) \/ R!Panic(w) PROVE PoolInv'
  BY <1>4, <1>5 DEF R!Render, R!Panic
\* The others leave the workers alone and add to the queue what they may.
<1>6. ASSUME UNCHANGED worker, queue' \in Seq(Requests \cup {R!Shutdown}) PROVE PoolInv'
  BY <1>6 DEF PoolInv, WorkerInv, R!Style
<1>7. ASSUME NEW r \in Requests, R!Ask(r) \/ R!Send(r) \/ R!GiveUp(r) PROVE PoolInv'
  BY <1>t, <1>6, <1>7 DEF R!Ask, R!Send, R!GiveUp
<1>8. CASE R!DropPool \/ R!SendShutdown \/ R!Join \/ UNCHANGED renderVars
  BY <1>t, <1>6, <1>8 DEF R!DropPool, R!SendShutdown, R!Join, renderVars
<1> QED BY <1>1, <1>2, <1>3, <1>5, <1>7, <1>8 DEF R!Next, R!Work

\* Every image is rendered with the style and the size it was asked for, however
\* the styles, sizes, broken styles and panics before it fell among the workers.
THEOREM RendersRight == AllSpec => []RendersItsStyle
<1>1. AllInit => PoolInv
  BY PoolInit DEF AllInit
<1>2. ASSUME PoolInv, [AllNext]_allVars PROVE PoolInv'
  <2>1. [R!Next]_renderVars
    BY <1>2 DEF AllNext, allVars
  <2> QED BY <1>2, <2>1, PoolStep
<1>3. PoolInv => RendersItsStyle
  BY DEF PoolInv, WorkerInv, RendersItsStyle, R!RendersItsStyle, R!WAt
<1> QED BY <1>1, <1>2, <1>3, PTL DEF AllSpec

-----------------------------------------------------------------------------
(* Tiler: any runs, options and rasters.                                   *)

\* Of a state s of a run: the maps of its name, and what its inputs hold.
MapsOf(s) == [g \in G!Grids |-> tileMap[<<s.opts.name, g>>]]
Given(s) == [p \in s.opts.inputs |-> raster[p]]

ContentsOf(given) == {given[p] : p \in DOMAIN given}

WholeMap(map, g, given) == map = [tiles |-> {g} \X ContentsOf(given), meta |-> "whole"]

Cutting == {"reproject", "tile", "pack", "packing", "metadata"}
Ending == {"cog", "build", "clean"}
Stages == {"idle", "inspected", "mosaic", "done", "failed"} \cup Cutting \cup Ending

SoleAligned(given) == \E p \in DOMAIN given : DOMAIN given = {p} /\ given[p] \in Aligned

\* The work directory of a run whose mosaic is built.
WorkDone(built, tiles, given) ==
  \E warped : built = {[mosaic |-> DOMAIN given, warped |-> warped, tiles |-> tiles]}

WorkOk(s, built, given) ==
  \E tiles :
    /\ WorkDone(built, tiles, given)
    /\ \/ s.at = "build" /\ CogPath[s.opts.name] \in DOMAIN given
       \/ \A t \in tiles : t \in {t[1]} \X ContentsOf(given)
    /\ s.at \in {"pack", "packing", "metadata"} =>
         LET g == s.opts.grids[s.i]
         IN {t \in tiles : t[1] = g} = {g} \X ContentsOf(given)

MapsOk(s, maps, given) ==
  LET grids == s.opts.grids
      g == grids[s.i]
  IN /\ s.at \in {"inspected", "mosaic"} => s.i = 1
     /\ s.at \in Cutting =>
          /\ s.i \in DOMAIN grids
          /\ \A j \in DOMAIN grids :
               j < s.i => \/ WholeMap(maps[grids[j]], grids[j], given)
                          \/ s.at \in {"packing", "metadata"} /\ grids[j] = g
     /\ s.at = "packing" =>
          /\ maps[g] = [tiles |-> s.packed, meta |-> "new"]
          /\ s.packed \subseteq {g} \X ContentsOf(given)
     /\ s.at = "metadata" => maps[g] = [tiles |-> {g} \X ContentsOf(given), meta |-> "zooms"]
     /\ s.at \in Ending =>
          \/ s.at = "build" /\ CogPath[s.opts.name] \in DOMAIN given
          \/ \A j \in DOMAIN grids : WholeMap(maps[grids[j]], grids[j], given)

CogOk(s, cog, given) ==
  /\ s.at = "build" => /\ cog = Gone
                       /\ CogPath[s.opts.name] \in DOMAIN given => given[CogPath[s.opts.name]] = Gone
  /\ s.at = "clean" /\ s.opts.cog =>
       /\ CogPath[s.opts.name] \notin DOMAIN given
       /\ cog = IF SoleAligned(given) THEN given[CHOOSE p \in DOMAIN given : TRUE]
                ELSE ContentsOf(given)

\* How far a run that nothing overlaps has got.
StageOk(s, built, maps, given, cog) ==
  /\ s.at = "mosaic" => built = {G!NewWork}
  /\ s.at \in Cutting \cup Ending => WorkOk(s, built, given)
  /\ MapsOk(s, maps, given)
  /\ CogOk(s, cog, given)

StageNow(s) ==
  StageOk(s, workDir[s.opts.name], MapsOf(s), Given(s), raster[CogPath[s.opts.name]])

Clear(r) == G!Active(r) /\ ~run[r].overlapped

RunRecord(s) ==
  /\ s = [at |-> s.at, opts |-> s.opts, i |-> s.i, packed |-> s.packed, overlapped |-> s.overlapped]
  /\ s.at \in Stages /\ s.opts \in Options /\ s.i \in Nat \ {0} /\ s.overlapped \in BOOLEAN

TilerTypes ==
  /\ raster = [p \in DOMAIN Rasters |-> raster[p]]
  /\ workDir = [n \in G!Named |-> workDir[n]]
  /\ tileMap = [m \in G!Named \X G!Grids |-> tileMap[m]]
  /\ run = [r \in Runs |-> run[r]]
  /\ \A r \in Runs : RunRecord(run[r])

TilerInv ==
  /\ TilerTypes
  /\ \A q, r \in Runs :
       q # r /\ G!Active(q) /\ G!Active(r) /\ G!Name(q) = G!Name(r) => run[r].overlapped
  /\ \A r \in Runs : Clear(r) => StageNow(run[r])

LEMMA TilerStart == G!Init => TilerInv
<1>1. ASSUME G!Init PROVE TilerInv
  <2>1. PICK o \in Options :
          run = [r \in Runs |-> [at |-> "idle", opts |-> o, i |-> 1, packed |-> {}, overlapped |-> FALSE]]
    BY <1>1 DEF G!Init
  <2>2. ASSUME NEW r \in Runs PROVE RunRecord(run[r]) /\ ~G!Active(r)
    <3>1. run[r] = [at |-> "idle", opts |-> o, i |-> 1, packed |-> {}, overlapped |-> FALSE]
      BY <2>1
    <3> QED BY <3>1 DEF RunRecord, Stages, G!Active
  <2>3. raster = Rasters /\ Rasters = [p \in DOMAIN Rasters |-> Rasters[p]]
    BY <1>1, TilerAssumption DEF G!Init
  <2>4. TilerTypes
    BY <1>1, <2>1, <2>2, <2>3 DEF G!Init, TilerTypes
  <2> QED BY <2>2, <2>4 DEF TilerInv, Clear
<1> QED BY <1>1

\* A step of one active run: it keeps its options, others are overlapped at most, and
\* what others that are clear depend on stays.
LEMMA OneRuns ==
  ASSUME TilerInv, NEW r \in Runs, G!Active(r), TilerTypes',
         run'[r].opts = run[r].opts, run'[r].overlapped = run[r].overlapped,
         \A q \in Runs \ {r} : run'[q] \in {run[q], [run[q] EXCEPT !.overlapped = TRUE]},
         \A n \in G!Named \ {G!Name(r)} :
           /\ workDir'[n] = workDir[n]
           /\ \A g \in G!Grids : tileMap'[<<n, g>>] = tileMap[<<n, g>>]
           /\ raster'[CogPath[n]] = raster[CogPath[n]],
         \A q \in Runs \ {r} :
           Clear(q)' => \A p \in G!Inputs(q) : raster'[p] = raster[p],
         Clear(r)' => StageNow(run[r])'
  PROVE  TilerInv'
<1>t. \A q \in Runs : RunRecord(run[q])
  BY DEF TilerInv, TilerTypes
<1>1. \A q \in Runs \ {r} :
        /\ run'[q].at = run[q].at /\ run'[q].opts = run[q].opts
        /\ run'[q] = run[q] \/ run'[q].overlapped
        /\ run[q].overlapped => run'[q].overlapped
  BY <1>t, ZenonT(60) DEF RunRecord
<1>2. ASSUME NEW p \in Runs, NEW q \in Runs, q # p, G!Active(p)', G!Active(q)',
             (G!Name(p) = G!Name(q))'
      PROVE  run'[q].overlapped
  <2>1. G!Active(p) /\ G!Active(q) /\ G!Name(p) = G!Name(q)
    BY <1>1, <1>2 DEF G!Active, G!Name
  <2>2. run[q].overlapped
    BY <1>2, <2>1 DEF TilerInv
  <2> QED BY <1>1, <2>2
<1>3. ASSUME NEW q \in Runs \ {r}, Clear(q)' PROVE StageNow(run[q])'
  <2>1. run'[q] = run[q] /\ Clear(q)
    BY <1>1, <1>3 DEF Clear, G!Active
  <2>2. G!Name(q) # G!Name(r) /\ G!Name(q) \in G!Named
    BY <1>t, <2>1 DEF TilerInv, Clear, RunRecord, G!Name, G!Named
  <2>3. /\ workDir'[G!Name(q)] = workDir[G!Name(q)]
        /\ \A g \in G!Grids : tileMap'[<<G!Name(q), g>>] = tileMap[<<G!Name(q), g>>]
        /\ raster'[CogPath[G!Name(q)]] = raster[CogPath[G!Name(q)]]
    BY <2>2
  <2>4. \A p \in G!Inputs(q) : raster'[p] = raster[p]
    BY <1>3
  <2>5. StageNow(run[q])
    BY <2>1 DEF TilerInv
  <2>6. MapsOf(run[q])' = MapsOf(run[q]) /\ Given(run[q])' = Given(run[q])
    BY <2>1, <2>3, <2>4 DEF MapsOf, Given, G!Name, G!Inputs
  <2> QED BY <2>1, <2>3, <2>5, <2>6, SMTT(30) DEF StageNow, G!Name
<1>4. \A q \in Runs : Clear(q)' => StageNow(run[q])'
  BY <1>3
<1> QED BY <1>2, <1>4 DEF TilerInv

\* A step that changes the run itself, its work directory or a map of its name only.
LEMMA OwnStep ==
  ASSUME TilerInv, NEW r \in Runs, G!Active(r), NEW s, RunRecord(s),
         s.opts = run[r].opts, s.overlapped = run[r].overlapped,
         run' = [run EXCEPT ![r] = s], raster' = raster,
         NEW built, workDir' = [workDir EXCEPT ![G!Name(r)] = built],
         NEW maps, maps = [g \in G!Grids |-> tileMap'[<<G!Name(r), g>>]],
         tileMap' = [m \in G!Named \X G!Grids |-> tileMap'[m]],
         \A m \in G!Named \X G!Grids : m[1] # G!Name(r) => tileMap'[m] = tileMap[m],
         s.at \notin {"idle", "done", "failed"} /\ ~s.overlapped =>
           StageOk(s, built, maps, Given(run[r]), raster[CogPath[G!Name(r)]])
  PROVE  TilerInv'
<1>t. /\ \A q \in Runs : RunRecord(run[q])
      /\ run = [q \in Runs |-> run[q]] /\ workDir = [n \in G!Named |-> workDir[n]]
      /\ raster = [p \in DOMAIN Rasters |-> raster[p]]
  BY DEF TilerInv, TilerTypes
<1>1. run'[r] = s /\ \A q \in Runs \ {r} : run'[q] = run[q]
  BY <1>t
<1>2. G!Name(r) \in G!Named
  BY <1>t DEF RunRecord, G!Name, G!Named
<1>3. workDir'[G!Name(r)] = built /\ \A n \in G!Named \ {G!Name(r)} : workDir'[n] = workDir[n]
  BY <1>t, <1>2
<1>4. TilerTypes'
  <2>1. run' = [q \in Runs |-> run'[q]]
    BY <1>t
  <2>2. workDir' = [n \in G!Named |-> workDir'[n]]
    BY <1>t
  <2>3. \A q \in Runs : RunRecord(run'[q])
    BY <1>t, <1>1
  <2>4. \A q \in Runs : RunRecord(run[q])'
    BY <2>3 DEF RunRecord
  <2> QED BY <1>t, <2>1, <2>2, <2>4 DEF TilerTypes
<1>5. ASSUME Clear(r)' PROVE StageNow(run[r])'
  <2>1. s.at \notin {"idle", "done", "failed"} /\ ~s.overlapped
    BY <1>1, <1>5 DEF Clear, G!Active
  <2>2. MapsOf(run[r])' = maps /\ Given(run[r])' = Given(run[r])
    BY <1>1 DEF MapsOf, Given, G!Name
  <2> QED BY <1>1, <1>3, <2>1, <2>2 DEF StageNow, G!Name
<1>6. \A n \in G!Named \ {G!Name(r)} :
        /\ workDir'[n] = workDir[n]
        /\ \A g \in G!Grids : tileMap'[<<n, g>>] = tileMap[<<n, g>>]
        /\ raster'[CogPath[n]] = raster[CogPath[n]]
  BY <1>3
<1>7. \A q \in Runs \ {r} : run'[q] \in {run[q], [run[q] EXCEPT !.overlapped = TRUE]}
  BY <1>1
<1> HIDE DEF TilerInv
<1> QED BY <1>1, <1>4, <1>5, <1>6, <1>7, OneRuns

\* What a clear run sees of its work directory.
LEMMA OneWork ==
  ASSUME NEW r \in Runs, NEW tiles, WorkDone(workDir[G!Name(r)], tiles, Given(run[r]))
  PROVE  /\ \E warped : workDir[G!Name(r)] =
              {[mosaic |-> G!Inputs(r), warped |-> warped, tiles |-> tiles]}
         /\ G!Mosaic(r) = G!Inputs(r)
         /\ G!Tree(r) = {t \in tiles : t[1] = G!Grid(r)}
         /\ G!Cut(r) = {G!Grid(r)} \X ContentsOf(Given(run[r]))
         /\ ContentsOf(Given(run[r])) = {raster[p] : p \in G!Inputs(r)}
<1>1. DOMAIN Given(run[r]) = G!Inputs(r) /\ \A p \in G!Inputs(r) : Given(run[r])[p] = raster[p]
  BY DEF Given, G!Inputs
<1>2. PICK warped : workDir[G!Name(r)] =
              {[mosaic |-> G!Inputs(r), warped |-> warped, tiles |-> tiles]}
  BY <1>1 DEF WorkDone
<1>3. G!Mosaic(r) = G!Inputs(r)
  BY <1>2 DEF G!Mosaic
<1>4. G!Tree(r) = {t \in tiles : t[1] = G!Grid(r)}
  BY <1>2 DEF G!Tree
<1>5. ContentsOf(Given(run[r])) = {raster[p] : p \in G!Inputs(r)}
  BY <1>1 DEF ContentsOf
<1>6. G!Cut(r) = {G!Grid(r)} \X ContentsOf(Given(run[r]))
  BY <1>3, <1>5 DEF G!Cut
<1> QED BY <1>2, <1>3, <1>4, <1>5, <1>6

\* A step to the next stage, with or without a change of the work directory.
LEMMA Going ==
  ASSUME TilerInv, NEW r \in Runs, G!Active(r), NEW at \in Stages, G!Goes(r, at),
         raster' = raster, tileMap' = tileMap,
         NEW built, workDir' = [workDir EXCEPT ![G!Name(r)] = built],
         Clear(r) /\ at \notin {"idle", "done", "failed"} =>
           StageOk([run[r] EXCEPT !.at = at], built, MapsOf(run[r]), Given(run[r]),
                   raster[CogPath[G!Name(r)]])
  PROVE  TilerInv'
<1> DEFINE s == [run[r] EXCEPT !.at = at]
<1>t. RunRecord(run[r]) /\ tileMap = [m \in G!Named \X G!Grids |-> tileMap[m]]
  BY DEF TilerInv, TilerTypes
<1>1. RunRecord(s) /\ s.opts = run[r].opts /\ s.overlapped = run[r].overlapped /\ s.at = at
  BY <1>t DEF RunRecord
<1>2. run' = [run EXCEPT ![r] = s]
  BY DEF G!Goes
<1>3. MapsOf(run[r]) = [g \in G!Grids |-> tileMap'[<<G!Name(r), g>>]]
  BY DEF MapsOf, G!Name
<1>4. s.at \notin {"idle", "done", "failed"} /\ ~s.overlapped =>
        StageOk(s, built, MapsOf(run[r]), Given(run[r]), raster[CogPath[G!Name(r)]])
  BY <1>1 DEF Clear
<1>5. tileMap' = [m \in G!Named \X G!Grids |-> tileMap'[m]]
      /\ \A m \in G!Named \X G!Grids : m[1] # G!Name(r) => tileMap'[m] = tileMap[m]
  BY <1>t
<1> HIDE DEF s, TilerInv
<1> QED BY <1>1, <1>2, <1>3, <1>4, <1>5, OwnStep

\* The same, where the work directory stays.
LEMMA GoingOn ==
  ASSUME TilerInv, NEW r \in Runs, G!Active(r), NEW at \in Stages, G!Goes(r, at),
         UNCHANGED <<raster, workDir, tileMap>>,
         Clear(r) /\ at \notin {"idle", "done", "failed"} =>
           StageOk([run[r] EXCEPT !.at = at], workDir[G!Name(r)], MapsOf(run[r]), Given(run[r]),
                   raster[CogPath[G!Name(r)]])
  PROVE  TilerInv'
<1>1. workDir' = [workDir EXCEPT ![G!Name(r)] = workDir[G!Name(r)]]
  BY DEF TilerInv, TilerTypes
<1> HIDE DEF TilerInv
<1> QED BY <1>1, Going

LEMMA ClearStage ==
  ASSUME TilerInv, NEW r \in Runs, Clear(r)
  PROVE  /\ RunRecord(run[r])
         /\ StageOk(run[r], workDir[G!Name(r)], MapsOf(run[r]), Given(run[r]),
                    raster[CogPath[G!Name(r)]])
BY DEF TilerInv, TilerTypes, StageNow, G!Name

LEMMA MakesWork ==
  ASSUME TilerInv, NEW r \in Runs, G!MakeWork(r)
  PROVE  TilerInv'
<1> DEFINE s == [run[r] EXCEPT !.at = "mosaic"]
<1>1. /\ run[r].at = "inspected" /\ G!Goes(r, "mosaic") /\ "mosaic" \in Stages
      /\ raster' = raster /\ tileMap' = tileMap
      /\ workDir' = [workDir EXCEPT ![G!Name(r)] = {G!NewWork}]
  BY DEF G!MakeWork, G!At, Stages
<1>2. ASSUME Clear(r)
      PROVE  StageOk(s, {G!NewWork}, MapsOf(run[r]), Given(run[r]), raster[CogPath[G!Name(r)]])
  <2>c. RunRecord(run[r]) /\ MapsOk(run[r], MapsOf(run[r]), Given(run[r]))
    BY <1>2, ClearStage DEF StageOk
  <2>1. s.at = "mosaic" /\ s.i = 1
    BY <1>1, <2>c DEF RunRecord, MapsOk
  <2> HIDE DEF s
  <2> QED BY <2>1 DEF StageOk, MapsOk, CogOk, Cutting, Ending
<1>3. G!Active(r)
  BY <1>1 DEF G!Active
<1> QED BY <1>1, <1>2, <1>3, Going

LEMMA BuildsMosaic ==
  ASSUME TilerInv, NEW r \in Runs, G!BuildMosaic(r)
  PROVE  TilerInv'
<1> DEFINE at == IF run[r].opts.grids = <<>> THEN "cog" ELSE "reproject"
           W(w) == [w EXCEPT !.mosaic = G!Inputs(r)]
           built == {W(w) : w \in workDir[G!Name(r)]}
           s == [run[r] EXCEPT !.at = at]
<1>1. /\ run[r].at = "mosaic" /\ G!Goes(r, at) /\ at \in Stages
      /\ raster' = raster /\ tileMap' = tileMap
      /\ workDir' = [workDir EXCEPT ![G!Name(r)] = built]
  BY DEF G!BuildMosaic, G!At, Stages, Cutting, Ending, G!Works
<1>2. ASSUME Clear(r)
      PROVE  StageOk(s, built, MapsOf(run[r]), Given(run[r]), raster[CogPath[G!Name(r)]])
  <2>c. /\ RunRecord(run[r]) /\ MapsOk(run[r], MapsOf(run[r]), Given(run[r]))
        /\ workDir[G!Name(r)] = {G!NewWork}
    BY <1>1, <1>2, ClearStage DEF StageOk
  <2>1. /\ s.at = at /\ s.i = 1 /\ s.opts = run[r].opts /\ s.opts.grids \in Seq(G!Grids)
        /\ workDir[G!Name(r)] = {G!NewWork}
    BY <1>1, <2>c, TilerAssumption DEF RunRecord, MapsOk
  <2>2. DOMAIN Given(run[r]) = G!Inputs(r)
    BY DEF Given, G!Inputs
  <2>3. built = {[mosaic |-> DOMAIN Given(run[r]), warped |-> {}, tiles |-> {}]}
    <3>1. W(G!NewWork) = [mosaic |-> DOMAIN Given(run[r]), warped |-> {}, tiles |-> {}]
      BY <2>2 DEF G!NewWork
    <3>2. built = {W(G!NewWork)}
      BY <2>1
    <3> QED BY <3>1, <3>2
  <2>4. WorkDone(built, {}, Given(run[r]))
    BY <2>3 DEF WorkDone
  <2>5. at \in {"cog", "reproject"} /\ (at = "reproject" => 1 \in DOMAIN run[r].opts.grids)
        /\ (at = "cog" => DOMAIN run[r].opts.grids = {})
    BY <2>1
  <2> HIDE DEF s, built, at
  <2>6. WorkOk(s, built, Given(run[r]))
    BY <2>1, <2>4, <2>5 DEF WorkOk
  <2>7. MapsOk(s, MapsOf(run[r]), Given(run[r]))
    BY <2>1, <2>5 DEF MapsOk, Cutting, Ending
  <2> QED BY <2>1, <2>5, <2>6, <2>7 DEF StageOk, CogOk, Cutting, Ending
<1>3. G!Active(r)
  BY <1>1 DEF G!Active
<1> HIDE DEF built, at, TilerInv
<1> QED BY <1>1, <1>2, <1>3, Going

\* What is known of a clear run while it makes the map of one grid.
LEMMA ClearCut ==
  ASSUME TilerInv, NEW r \in Runs, Clear(r), run[r].at \in Cutting
  PROVE  /\ RunRecord(run[r]) /\ MapsOk(run[r], MapsOf(run[r]), Given(run[r]))
         /\ run[r].i \in DOMAIN run[r].opts.grids /\ run[r].opts.grids \in Seq(G!Grids)
         /\ G!Grid(r) = run[r].opts.grids[run[r].i] /\ G!Grid(r) \in G!Grids
         /\ G!Map(r) = <<G!Name(r), G!Grid(r)>> /\ G!Map(r) \in G!Named \X G!Grids
         /\ \E tiles :
              /\ WorkDone(workDir[G!Name(r)], tiles, Given(run[r]))
              /\ \A t \in tiles : t \in {t[1]} \X ContentsOf(Given(run[r]))
              /\ run[r].at \in {"pack", "packing", "metadata"} =>
                   {t \in tiles : t[1] = G!Grid(r)} = {G!Grid(r)} \X ContentsOf(Given(run[r]))
<1>1. /\ RunRecord(run[r]) /\ MapsOk(run[r], MapsOf(run[r]), Given(run[r]))
      /\ WorkOk(run[r], workDir[G!Name(r)], Given(run[r]))
  BY ClearStage DEF StageOk
<1>2. run[r].i \in DOMAIN run[r].opts.grids
  BY <1>1 DEF MapsOk
<1>3. run[r].opts \in Options /\ run[r].opts.grids \in Seq(G!Grids)
  BY <1>1, TilerAssumption DEF RunRecord
<1>4. G!Grid(r) = run[r].opts.grids[run[r].i] /\ G!Map(r) = <<G!Name(r), G!Grid(r)>>
  BY DEF G!Grid, G!Map
<1>5. G!Grid(r) \in G!Grids /\ G!Name(r) \in G!Named
  BY <1>2, <1>3, <1>4 DEF G!Name, G!Named
<1>6. run[r].at # "build"
  BY DEF Cutting
<1> QED BY <1>1, <1>2, <1>3, <1>4, <1>5, <1>6 DEF WorkOk

\* While a run cuts, the maps of the grids before stay as they are.
LEMMA CutMaps ==
  ASSUME TilerInv, NEW r \in Runs, Clear(r), run[r].at \in {"reproject", "tile"},
         NEW at \in {"tile", "pack"}
  PROVE  LET s == [run[r] EXCEPT !.at = at]
         IN /\ s.at = at /\ s.i = run[r].i /\ s.opts = run[r].opts
            /\ MapsOk(s, MapsOf(run[r]), Given(run[r]))
            /\ CogOk(s, raster[CogPath[G!Name(r)]], Given(run[r]))
<1> DEFINE s == [run[r] EXCEPT !.at = at]
<1>1. RunRecord(run[r]) /\ MapsOk(run[r], MapsOf(run[r]), Given(run[r]))
  BY ClearStage DEF StageOk
<1>2. s.at = at /\ s.i = run[r].i /\ s.opts = run[r].opts
  BY <1>1 DEF RunRecord
<1> HIDE DEF s
<1>3. MapsOk(s, MapsOf(run[r]), Given(run[r]))
  BY <1>1, <1>2 DEF MapsOk, Cutting, Ending
<1>4. CogOk(s, raster[CogPath[G!Name(r)]], Given(run[r]))
  BY <1>2 DEF CogOk
<1>5. s = [run[r] EXCEPT !.at = at]
  BY DEF s
<1> QED BY <1>2, <1>3, <1>4, <1>5

LEMMA Reprojects ==
  ASSUME TilerInv, NEW r \in Runs, G!Reproject(r)
  PROVE  TilerInv'
<1> DEFINE at == IF G!BadZooms(r) THEN "failed" ELSE "tile"
           W(w) == [w EXCEPT !.warped = @ \cup {G!Grid(r)}]
           built == {W(w) : w \in workDir[G!Name(r)]}
           s == [run[r] EXCEPT !.at = at]
<1>1. /\ run[r].at = "reproject" /\ G!Goes(r, at) /\ at \in Stages
      /\ raster' = raster /\ tileMap' = tileMap
      /\ workDir' = [workDir EXCEPT ![G!Name(r)] = built]
  BY DEF G!Reproject, G!At, Stages, Cutting, Ending, G!Works
<1>2. ASSUME Clear(r), at \notin {"idle", "done", "failed"}
      PROVE  StageOk(s, built, MapsOf(run[r]), Given(run[r]), raster[CogPath[G!Name(r)]])
  <2>0. at = "tile" /\ run[r].at \in Cutting
    BY <1>1, <1>2 DEF Cutting
  <2>1. /\ s.at = "tile" /\ s.i = run[r].i /\ s.opts = run[r].opts
        /\ MapsOk(s, MapsOf(run[r]), Given(run[r]))
        /\ CogOk(s, raster[CogPath[G!Name(r)]], Given(run[r]))
    BY <1>1, <1>2, <2>0, CutMaps
  <2>2. PICK tiles :
          /\ WorkDone(workDir[G!Name(r)], tiles, Given(run[r]))
          /\ \A t \in tiles : t \in {t[1]} \X ContentsOf(Given(run[r]))
    BY <1>2, <2>0, ClearCut
  <2>3. PICK warped : workDir[G!Name(r)] =
                        {[mosaic |-> DOMAIN Given(run[r]), warped |-> warped, tiles |-> tiles]}
    BY <2>2 DEF WorkDone
  <2>4. built = {[mosaic |-> DOMAIN Given(run[r]), warped |-> warped \cup {G!Grid(r)}, tiles |-> tiles]}
    <3> DEFINE w == [mosaic |-> DOMAIN Given(run[r]), warped |-> warped, tiles |-> tiles]
    <3>1. W(w) = [mosaic |-> DOMAIN Given(run[r]), warped |-> warped \cup {G!Grid(r)}, tiles |-> tiles]
      OBVIOUS
    <3>2. built = {W(w)}
      BY <2>3
    <3> QED BY <3>1, <3>2
  <2> HIDE DEF s, built, at
  <2>5. WorkDone(built, tiles, Given(run[r]))
    BY <2>4 DEF WorkDone
  <2>6. WorkOk(s, built, Given(run[r]))
    BY <2>1, <2>2, <2>5 DEF WorkOk
  <2> QED BY <2>1, <2>6 DEF StageOk, Cutting, Ending
<1>3. G!Active(r)
  BY <1>1 DEF G!Active
<1> HIDE DEF built, at, TilerInv
<1> QED BY <1>1, <1>2, <1>3, Going

LEMMA CutsTile ==
  ASSUME TilerInv, NEW r \in Runs, G!CutTile(r)
  PROVE  TilerInv'
<1>1. /\ run[r].at = "tile" /\ G!Active(r)
      /\ raster' = raster /\ tileMap' = tileMap /\ run' = run
  BY DEF G!CutTile, G!At, G!Active
<1>2. PICK new \in G!Cut(r) \ G!Tree(r) :
        workDir' = [workDir EXCEPT ![G!Name(r)] =
                      {[w EXCEPT !.tiles = @ \cup {new}] : w \in workDir[G!Name(r)]}]
  BY DEF G!CutTile, G!Works
<1> DEFINE W(w) == [w EXCEPT !.tiles = @ \cup {new}]
           built == {W(w) : w \in workDir[G!Name(r)]}
<1>3. run' = [run EXCEPT ![r].at = "tile"] /\ [run[r] EXCEPT !.at = "tile"] = run[r]
  BY <1>1 DEF TilerInv, TilerTypes, RunRecord
<1>4. ASSUME Clear(r)
      PROVE  StageOk(run[r], built, MapsOf(run[r]), Given(run[r]), raster[CogPath[G!Name(r)]])
  <2>0. run[r].at \in Cutting
    BY <1>1 DEF Cutting
  <2>1. PICK tiles :
          /\ WorkDone(workDir[G!Name(r)], tiles, Given(run[r]))
          /\ \A t \in tiles : t \in {t[1]} \X ContentsOf(Given(run[r]))
    BY <1>4, <2>0, ClearCut
  <2>2. PICK warped : workDir[G!Name(r)] =
                        {[mosaic |-> DOMAIN Given(run[r]), warped |-> warped, tiles |-> tiles]}
    BY <2>1 DEF WorkDone
  <2>3. built = {[mosaic |-> DOMAIN Given(run[r]), warped |-> warped, tiles |-> tiles \cup {new}]}
    <3> DEFINE w == [mosaic |-> DOMAIN Given(run[r]), warped |-> warped, tiles |-> tiles]
    <3>1. W(w) = [mosaic |-> DOMAIN Given(run[r]), warped |-> warped, tiles |-> tiles \cup {new}]
      OBVIOUS
    <3>2. built = {W(w)}
      BY <2>2
    <3> QED BY <3>1, <3>2
  <2>4. new \in {new[1]} \X ContentsOf(Given(run[r]))
    BY <1>2, <2>1, OneWork
  <2> HIDE DEF built
  <2>5. WorkDone(built, tiles \cup {new}, Given(run[r]))
    BY <2>3 DEF WorkDone
  <2>6. WorkOk(run[r], built, Given(run[r]))
    BY <1>1, <2>1, <2>4, <2>5 DEF WorkOk
  <2>7. /\ MapsOk(run[r], MapsOf(run[r]), Given(run[r]))
        /\ CogOk(run[r], raster[CogPath[G!Name(r)]], Given(run[r]))
    BY <1>4, ClearStage DEF StageOk
  <2> QED BY <1>1, <2>6, <2>7 DEF StageOk
<1>5. "tile" \in Stages /\ G!Goes(r, "tile")
  BY <1>3 DEF Stages, Cutting, G!Goes
<1>6. workDir' = [workDir EXCEPT ![G!Name(r)] = built]
  BY <1>2
<1> HIDE DEF built, TilerInv
<1> QED BY <1>1, <1>3, <1>4, <1>5, <1>6, Going, ZenonT(60)

LEMMA EndsCut ==
  ASSUME TilerInv, NEW r \in Runs, G!EndCut(r)
  PROVE  TilerInv'
<1> DEFINE s == [run[r] EXCEPT !.at = "pack"]
<1>1. /\ run[r].at = "tile" /\ G!Active(r) /\ G!Goes(r, "pack") /\ "pack" \in Stages
      /\ G!Cut(r) \subseteq G!Tree(r) /\ UNCHANGED <<raster, workDir, tileMap>>
  BY DEF G!EndCut, G!At, G!Active, Stages, Cutting
<1>2. ASSUME Clear(r)
      PROVE  StageOk(s, workDir[G!Name(r)], MapsOf(run[r]), Given(run[r]), raster[CogPath[G!Name(r)]])
  <2>0. run[r].at \in Cutting
    BY <1>1 DEF Cutting
  <2>1. /\ s.at = "pack" /\ s.i = run[r].i /\ s.opts = run[r].opts
        /\ MapsOk(s, MapsOf(run[r]), Given(run[r]))
        /\ CogOk(s, raster[CogPath[G!Name(r)]], Given(run[r]))
    BY <1>1, <1>2, CutMaps
  <2>2. PICK tiles :
          /\ WorkDone(workDir[G!Name(r)], tiles, Given(run[r]))
          /\ \A t \in tiles : t \in {t[1]} \X ContentsOf(Given(run[r]))
    BY <1>2, <2>0, ClearCut
  <2>3. {t \in tiles : t[1] = G!Grid(r)} = {G!Grid(r)} \X ContentsOf(Given(run[r]))
    <3>1. G!Tree(r) = {t \in tiles : t[1] = G!Grid(r)}
          /\ G!Cut(r) = {G!Grid(r)} \X ContentsOf(Given(run[r]))
      BY <2>2, OneWork
    <3>2. \A t \in tiles : t[1] = G!Grid(r) => t \in {G!Grid(r)} \X ContentsOf(Given(run[r]))
      BY <2>2
    <3> QED BY <1>1, <3>1, <3>2
  <2>4. G!Grid(r) = s.opts.grids[s.i]
    BY <1>2, <2>0, <2>1, ClearCut
  <2> HIDE DEF s
  <2>5. WorkOk(s, workDir[G!Name(r)], Given(run[r]))
    BY <2>1, <2>2, <2>3, <2>4 DEF WorkOk
  <2> QED BY <2>1, <2>5 DEF StageOk, Cutting, Ending
<1> HIDE DEF TilerInv
<1> QED BY <1>1, <1>2, GoingOn

\* Where a map of a clear run's own name changes, and its work directory does not.
LEMMA OwnMap ==
  ASSUME TilerInv, NEW r \in Runs, G!Active(r), NEW s, RunRecord(s),
         s.opts = run[r].opts, s.overlapped = run[r].overlapped,
         run' = [run EXCEPT ![r] = s], raster' = raster, workDir' = workDir,
         NEW map, tileMap' = [tileMap EXCEPT ![G!Map(r)] = map],
         NEW maps, maps = [g \in G!Grids |-> IF g = G!Grid(r) THEN map
                                             ELSE tileMap[<<G!Name(r), g>>]],
         Clear(r) => /\ G!Map(r) = <<G!Name(r), G!Grid(r)>>
                     /\ StageOk(s, workDir[G!Name(r)], maps, Given(run[r]),
                                raster[CogPath[G!Name(r)]])
  PROVE  TilerInv'
<1>t. /\ RunRecord(run[r]) /\ tileMap = [m \in G!Named \X G!Grids |-> tileMap[m]]
      /\ workDir = [n \in G!Named |-> workDir[n]]
  BY DEF TilerInv, TilerTypes
<1>1. workDir' = [workDir EXCEPT ![G!Name(r)] = workDir[G!Name(r)]]
  BY <1>t
<1>2. tileMap' = [m \in G!Named \X G!Grids |-> tileMap'[m]]
  BY <1>t
<1>3. G!Map(r) = <<G!Name(r), G!Grid(r)>>
  BY DEF G!Map, G!Grid
<1>4. \A m \in G!Named \X G!Grids : m[1] # G!Name(r) => tileMap'[m] = tileMap[m]
  BY <1>t, <1>3
<1>5. G!Name(r) \in G!Named
  BY <1>t DEF RunRecord, G!Name, G!Named
<1>6. maps = [g \in G!Grids |-> tileMap'[<<G!Name(r), g>>]]
  <2>1. ASSUME NEW g \in G!Grids
        PROVE  tileMap'[<<G!Name(r), g>>] = IF g = G!Grid(r) THEN map
                                            ELSE tileMap[<<G!Name(r), g>>]
    BY <1>t, <1>3, <1>5
  <2> QED BY <2>1
<1>7. s.at \notin {"idle", "done", "failed"} /\ ~s.overlapped =>
        StageOk(s, workDir[G!Name(r)], maps, Given(run[r]), raster[CogPath[G!Name(r)]])
  BY DEF Clear
<1> HIDE DEF TilerInv
<1> QED BY <1>1, <1>2, <1>4, <1>6, <1>7, OwnStep

LEMMA OpensMap ==
  ASSUME TilerInv, NEW r \in Runs, G!OpenMap(r)
  PROVE  TilerInv'
<1> DEFINE moved == [run[r] EXCEPT !.at = "packing"]
           s == [moved EXCEPT !.packed = {}]
           map == [tiles |-> {}, meta |-> "new"]
           maps == [g \in G!Grids |-> IF g = G!Grid(r) THEN map
                                      ELSE tileMap[<<G!Name(r), g>>]]
<1>1. /\ run[r].at = "pack" /\ G!Active(r) /\ raster' = raster /\ workDir' = workDir
      /\ run' = [run EXCEPT ![r] = s] /\ tileMap' = [tileMap EXCEPT ![G!Map(r)] = map]
  BY Zenon DEF G!OpenMap, G!At, G!Active
<1>2. RunRecord(run[r])
  BY DEF TilerInv, TilerTypes
<1>3. /\ RunRecord(s) /\ s.at = "packing" /\ s.packed = {} /\ s.i = run[r].i
      /\ s.opts = run[r].opts /\ s.overlapped = run[r].overlapped
  <2>1. s = [at |-> "packing", opts |-> run[r].opts, i |-> run[r].i, packed |-> {},
             overlapped |-> run[r].overlapped]
    <3>1. moved = [at |-> "packing", opts |-> run[r].opts, i |-> run[r].i,
                   packed |-> run[r].packed, overlapped |-> run[r].overlapped]
      BY <1>2 DEF RunRecord
    <3> HIDE DEF moved
    <3> QED BY <3>1
  <2> HIDE DEF s
  <2> QED BY <1>2, <2>1 DEF RunRecord, Stages, Cutting
<1>4. ASSUME Clear(r)
      PROVE  /\ G!Map(r) = <<G!Name(r), G!Grid(r)>>
             /\ StageOk(s, workDir[G!Name(r)], maps, Given(run[r]), raster[CogPath[G!Name(r)]])
  <2>0. run[r].at \in Cutting /\ s.at \in Cutting /\ s.at \notin Ending
    BY <1>1, <1>3 DEF Cutting, Ending
  <2>1. /\ MapsOk(run[r], MapsOf(run[r]), Given(run[r]))
        /\ run[r].i \in DOMAIN run[r].opts.grids /\ run[r].opts.grids \in Seq(G!Grids)
        /\ G!Grid(r) = run[r].opts.grids[run[r].i] /\ G!Grid(r) \in G!Grids
        /\ G!Map(r) = <<G!Name(r), G!Grid(r)>>
    BY <1>4, <2>0, ClearCut
  <2>2. PICK tiles :
              /\ WorkDone(workDir[G!Name(r)], tiles, Given(run[r]))
              /\ \A t \in tiles : t \in {t[1]} \X ContentsOf(Given(run[r]))
              /\ run[r].at \in {"pack", "packing", "metadata"} =>
                   {t \in tiles : t[1] = G!Grid(r)} = {G!Grid(r)} \X ContentsOf(Given(run[r]))
    BY <1>4, <2>0, ClearCut
  <2>3. WorkOk(s, workDir[G!Name(r)], Given(run[r]))
    BY <1>1, <1>3, <2>1, <2>2 DEF WorkOk
  <2>4. ASSUME NEW j \in DOMAIN s.opts.grids, j < s.i, s.opts.grids[j] # G!Grid(r)
        PROVE  WholeMap(maps[s.opts.grids[j]], s.opts.grids[j], Given(run[r]))
    <3>1. WholeMap(MapsOf(run[r])[s.opts.grids[j]], s.opts.grids[j], Given(run[r]))
      BY <1>1, <1>3, <2>0, <2>1, <2>4 DEF MapsOk
    <3>2. s.opts.grids[j] \in G!Grids
      BY <1>3, <2>1
    <3>3. maps[s.opts.grids[j]] = MapsOf(run[r])[s.opts.grids[j]]
      BY <2>4, <3>2 DEF MapsOf, G!Name
    <3> QED BY <3>1, <3>3
  <2>5. maps[G!Grid(r)] = map
    BY <2>1
  <2> HIDE DEF s, maps
  <2>6. MapsOk(s, maps, Given(run[r]))
    BY <1>3, <2>0, <2>1, <2>4, <2>5 DEF MapsOk
  <2> QED BY <1>3, <2>0, <2>1, <2>3, <2>6 DEF StageOk, CogOk
<1> HIDE DEF s, map, maps, TilerInv
<1>5. maps = [g \in G!Grids |-> IF g = G!Grid(r) THEN map ELSE tileMap[<<G!Name(r), g>>]]
  BY DEF maps
<1> QED BY <1>1, <1>3, <1>4, <1>5, OwnMap

\* While a clear run packs, what is in the file is what it has put there.
LEMMA ClearPack ==
  ASSUME TilerInv, NEW r \in Runs, Clear(r), run[r].at = "packing"
  PROVE  /\ tileMap[G!Map(r)] = [tiles |-> run[r].packed, meta |-> "new"]
         /\ run[r].packed \subseteq {G!Grid(r)} \X ContentsOf(Given(run[r]))
         /\ G!Tree(r) = {G!Grid(r)} \X ContentsOf(Given(run[r]))
<1>0. run[r].at \in Cutting
  BY DEF Cutting
<1>1. /\ MapsOk(run[r], MapsOf(run[r]), Given(run[r]))
      /\ G!Grid(r) = run[r].opts.grids[run[r].i] /\ G!Grid(r) \in G!Grids
      /\ G!Map(r) = <<G!Name(r), G!Grid(r)>>
  BY <1>0, ClearCut
<1>2. PICK tiles :
        /\ WorkDone(workDir[G!Name(r)], tiles, Given(run[r]))
        /\ {t \in tiles : t[1] = G!Grid(r)} = {G!Grid(r)} \X ContentsOf(Given(run[r]))
  BY <1>0, ClearCut
<1>3. G!Tree(r) = {t \in tiles : t[1] = G!Grid(r)}
  BY <1>2, OneWork
<1>4. MapsOf(run[r])[G!Grid(r)] = tileMap[G!Map(r)]
  BY <1>1 DEF MapsOf, G!Name
<1> QED BY <1>1, <1>2, <1>3, <1>4 DEF MapsOk

\* The map a clear run makes changes, and nothing else of what it has made.
LEMMA SameMaps ==
  ASSUME TilerInv, NEW r \in Runs, Clear(r), run[r].at \in {"packing", "metadata"},
         NEW s, s.at \in {"packing", "metadata"}, s.i = run[r].i, s.opts = run[r].opts,
         NEW map, NEW maps, maps = [g \in G!Grids |-> IF g = G!Grid(r) THEN map
                                                      ELSE tileMap[<<G!Name(r), g>>]],
         s.at = "packing" => /\ map = [tiles |-> s.packed, meta |-> "new"]
                             /\ s.packed \subseteq {G!Grid(r)} \X ContentsOf(Given(run[r])),
         s.at = "metadata" =>
           map = [tiles |-> {G!Grid(r)} \X ContentsOf(Given(run[r])), meta |-> "zooms"]
  PROVE  /\ G!Map(r) = <<G!Name(r), G!Grid(r)>>
         /\ StageOk(s, workDir[G!Name(r)], maps, Given(run[r]), raster[CogPath[G!Name(r)]])
<1>0. run[r].at \in Cutting /\ s.at \in Cutting /\ s.at \notin Ending
  BY DEF Cutting, Ending
<1>1. /\ MapsOk(run[r], MapsOf(run[r]), Given(run[r]))
      /\ run[r].i \in DOMAIN run[r].opts.grids /\ run[r].opts.grids \in Seq(G!Grids)
      /\ G!Grid(r) = run[r].opts.grids[run[r].i] /\ G!Grid(r) \in G!Grids
      /\ G!Map(r) = <<G!Name(r), G!Grid(r)>>
  BY <1>0, ClearCut
<1>2. PICK tiles :
            /\ WorkDone(workDir[G!Name(r)], tiles, Given(run[r]))
            /\ \A t \in tiles : t \in {t[1]} \X ContentsOf(Given(run[r]))
            /\ {t \in tiles : t[1] = G!Grid(r)} = {G!Grid(r)} \X ContentsOf(Given(run[r]))
  BY <1>0, ClearCut
<1>3. WorkOk(s, workDir[G!Name(r)], Given(run[r]))
  BY <1>1, <1>2 DEF WorkOk
<1>4. ASSUME NEW j \in DOMAIN s.opts.grids, j < s.i, s.opts.grids[j] # G!Grid(r)
      PROVE  WholeMap(maps[s.opts.grids[j]], s.opts.grids[j], Given(run[r]))
  <2>1. WholeMap(MapsOf(run[r])[s.opts.grids[j]], s.opts.grids[j], Given(run[r]))
    BY <1>0, <1>1, <1>4 DEF MapsOk
  <2>2. s.opts.grids[j] \in G!Grids
    BY <1>1
  <2>3. maps[s.opts.grids[j]] = MapsOf(run[r])[s.opts.grids[j]]
    BY <1>4, <2>2 DEF MapsOf, G!Name
  <2> QED BY <2>1, <2>3
<1>5. maps[G!Grid(r)] = map
  BY <1>1
<1>6. MapsOk(s, maps, Given(run[r]))
  BY <1>0, <1>1, <1>4, <1>5 DEF MapsOk
<1> QED BY <1>0, <1>1, <1>3, <1>6 DEF StageOk, CogOk

LEMMA PacksTile ==
  ASSUME TilerInv, NEW r \in Runs, G!PackTile(r)
  PROVE  TilerInv'
<1>1. /\ run[r].at = "packing" /\ G!Active(r) /\ raster' = raster /\ workDir' = workDir
  BY DEF G!PackTile, G!At, G!Active
<1>2. RunRecord(run[r])
  BY DEF TilerInv, TilerTypes
<1>3. PICK t \in G!Tree(r) \ run[r].packed :
        IF t \in tileMap[G!Map(r)].tiles
        THEN G!Goes(r, "failed") /\ tileMap' = tileMap
        ELSE /\ tileMap' = [tileMap EXCEPT ![G!Map(r)].tiles = @ \cup {t}]
             /\ run' = [run EXCEPT ![r].packed = @ \cup {t}]
  BY DEF G!PackTile
<1>4. CASE t \in tileMap[G!Map(r)].tiles
  <2>1. G!Goes(r, "failed") /\ UNCHANGED <<raster, workDir, tileMap>> /\ "failed" \in Stages
    BY <1>1, <1>3, <1>4 DEF Stages
  <2> HIDE DEF TilerInv
  <2> QED BY <1>1, <2>1, GoingOn
<1>5. CASE t \notin tileMap[G!Map(r)].tiles
  <2> DEFINE s == [run[r] EXCEPT !.packed = @ \cup {t}]
             map == [tileMap[G!Map(r)] EXCEPT !.tiles = @ \cup {t}]
             maps == [g \in G!Grids |-> IF g = G!Grid(r) THEN map
                                        ELSE tileMap[<<G!Name(r), g>>]]
  <2>1. run' = [run EXCEPT ![r] = s] /\ tileMap' = [tileMap EXCEPT ![G!Map(r)] = map]
    BY <1>3, <1>5
  <2>2. /\ RunRecord(s) /\ s.at = "packing" /\ s.packed = run[r].packed \cup {t} /\ s.i = run[r].i
        /\ s.opts = run[r].opts /\ s.overlapped = run[r].overlapped
    BY <1>1, <1>2 DEF RunRecord
  <2>3. ASSUME Clear(r)
        PROVE  /\ G!Map(r) = <<G!Name(r), G!Grid(r)>>
               /\ StageOk(s, workDir[G!Name(r)], maps, Given(run[r]), raster[CogPath[G!Name(r)]])
    <3>1. /\ tileMap[G!Map(r)] = [tiles |-> run[r].packed, meta |-> "new"]
          /\ run[r].packed \subseteq {G!Grid(r)} \X ContentsOf(Given(run[r]))
          /\ t \in {G!Grid(r)} \X ContentsOf(Given(run[r]))
      BY <1>1, <1>3, <2>3, ClearPack
    <3>2. map = [tiles |-> s.packed, meta |-> "new"]
      BY <2>2, <3>1
    <3>3. s.packed \subseteq {G!Grid(r)} \X ContentsOf(Given(run[r]))
      BY <2>2, <3>1
    <3>4. maps = [g \in G!Grids |-> IF g = G!Grid(r) THEN map ELSE tileMap[<<G!Name(r), g>>]]
      OBVIOUS
    <3> HIDE DEF s, map, maps, TilerInv
    <3>5. /\ s.at \in {"packing", "metadata"} /\ run[r].at \in {"packing", "metadata"}
          /\ s.at = "packing" => /\ map = [tiles |-> s.packed, meta |-> "new"]
                                 /\ s.packed \subseteq {G!Grid(r)} \X ContentsOf(Given(run[r]))
          /\ s.at # "metadata" /\ s.i = run[r].i /\ s.opts = run[r].opts
      BY <1>1, <2>2, <3>2, <3>3
    <3> QED BY <2>3, <3>4, <3>5, SameMaps
  <2>4. maps = [g \in G!Grids |-> IF g = G!Grid(r) THEN map ELSE tileMap[<<G!Name(r), g>>]]
    OBVIOUS
  <2> HIDE DEF s, map, maps, TilerInv
  <2> QED BY <1>1, <2>1, <2>2, <2>3, <2>4, OwnMap
<1> QED BY <1>4, <1>5

LEMMA EndsPack ==
  ASSUME TilerInv, NEW r \in Runs, G!EndPack(r)
  PROVE  TilerInv'
<1> DEFINE s == [run[r] EXCEPT !.at = "metadata"]
           map == [tileMap[G!Map(r)] EXCEPT !.meta = "zooms"]
           maps == [g \in G!Grids |-> IF g = G!Grid(r) THEN map
                                      ELSE tileMap[<<G!Name(r), g>>]]
<1>1. /\ run[r].at = "packing" /\ G!Active(r) /\ raster' = raster /\ workDir' = workDir
      /\ run' = [run EXCEPT ![r] = s] /\ tileMap' = [tileMap EXCEPT ![G!Map(r)] = map]
      /\ G!Tree(r) \subseteq run[r].packed
  BY DEF G!EndPack, G!At, G!Active, G!Goes
<1>2. RunRecord(run[r])
  BY DEF TilerInv, TilerTypes
<1>3. /\ RunRecord(s) /\ s.at = "metadata" /\ s.i = run[r].i
      /\ s.opts = run[r].opts /\ s.overlapped = run[r].overlapped
  BY <1>2 DEF RunRecord, Stages, Cutting
<1>5. maps = [g \in G!Grids |-> IF g = G!Grid(r) THEN map ELSE tileMap[<<G!Name(r), g>>]]
  OBVIOUS
<1>4. ASSUME Clear(r)
      PROVE  /\ G!Map(r) = <<G!Name(r), G!Grid(r)>>
             /\ StageOk(s, workDir[G!Name(r)], maps, Given(run[r]), raster[CogPath[G!Name(r)]])
  <2>1. /\ tileMap[G!Map(r)] = [tiles |-> run[r].packed, meta |-> "new"]
        /\ run[r].packed \subseteq {G!Grid(r)} \X ContentsOf(Given(run[r]))
        /\ G!Tree(r) = {G!Grid(r)} \X ContentsOf(Given(run[r]))
    BY <1>1, <1>4, ClearPack
  <2>2. run[r].packed = {G!Grid(r)} \X ContentsOf(Given(run[r]))
    BY <1>1, <2>1
  <2> DEFINE whole == {G!Grid(r)} \X ContentsOf(Given(run[r]))
  <2>4. tileMap[G!Map(r)] = [tiles |-> whole, meta |-> "new"]
    BY <2>1, <2>2
  <2> HIDE DEF whole
  <2>5. map = [tiles |-> whole, meta |-> "zooms"]
    BY <2>4
  <2>3. map = [tiles |-> {G!Grid(r)} \X ContentsOf(Given(run[r])), meta |-> "zooms"]
    BY <2>5 DEF whole
  <2> HIDE DEF s, map, maps, TilerInv
  <2> QED BY <1>1, <1>3, <1>4, <1>5, <2>3, SameMaps
<1> HIDE DEF s, map, maps, TilerInv
<1> QED BY <1>1, <1>3, <1>4, <1>5, OwnMap

LEMMA WritesMetadata ==
  ASSUME TilerInv, NEW r \in Runs, G!WriteMetadata(r)
  PROVE  TilerInv'
<1> DEFINE more == run[r].i < Len(run[r].opts.grids)
           s == IF more THEN [run[r] EXCEPT !.at = "reproject", !.i = @ + 1]
                ELSE [run[r] EXCEPT !.at = "cog"]
           map == [tileMap[G!Map(r)] EXCEPT !.meta = "whole"]
           maps == [g \in G!Grids |-> IF g = G!Grid(r) THEN map
                                      ELSE tileMap[<<G!Name(r), g>>]]
<1>1. /\ run[r].at = "metadata" /\ G!Active(r) /\ raster' = raster /\ workDir' = workDir
      /\ run' = [run EXCEPT ![r] = s] /\ tileMap' = [tileMap EXCEPT ![G!Map(r)] = map]
  BY Zenon DEF G!WriteMetadata, G!At, G!Active
<1>2. RunRecord(run[r])
  BY DEF TilerInv, TilerTypes
<1>3. /\ RunRecord(s) /\ s.opts = run[r].opts /\ s.overlapped = run[r].overlapped
      /\ more => s.at = "reproject" /\ s.i = run[r].i + 1
      /\ ~more => s.at = "cog" /\ s.i = run[r].i
  <2>1. CASE more
    <3> DEFINE moved == [run[r] EXCEPT !.at = "reproject"]
    <3>1. moved = [at |-> "reproject", opts |-> run[r].opts, i |-> run[r].i,
                   packed |-> run[r].packed, overlapped |-> run[r].overlapped]
      BY <1>2 DEF RunRecord
    <3>2. s = [moved EXCEPT !.i = @ + 1]
      BY <2>1
    <3> HIDE DEF moved, s
    <3>3. s = [at |-> "reproject", opts |-> run[r].opts, i |-> run[r].i + 1,
               packed |-> run[r].packed, overlapped |-> run[r].overlapped]
      BY <3>1, <3>2
    <3>4. run[r].i \in Nat \ {0} /\ run[r].opts \in Options /\ run[r].overlapped \in BOOLEAN
          /\ "reproject" \in Stages
      BY <1>2 DEF RunRecord, Stages, Cutting
    <3>5. run[r].i + 1 \in Nat \ {0}
      BY <3>4
    <3> QED BY <2>1, <3>3, <3>4, <3>5 DEF RunRecord
  <2>2. CASE ~more
    BY <1>2, <2>2 DEF RunRecord, Stages, Ending
  <2> QED BY <2>1, <2>2
<1>5. maps = [g \in G!Grids |-> IF g = G!Grid(r) THEN map ELSE tileMap[<<G!Name(r), g>>]]
  OBVIOUS
<1>4. ASSUME Clear(r)
      PROVE  /\ G!Map(r) = <<G!Name(r), G!Grid(r)>>
             /\ StageOk(s, workDir[G!Name(r)], maps, Given(run[r]), raster[CogPath[G!Name(r)]])
  <2>0. /\ run[r].at \in Cutting /\ run[r].i \in Nat \ {0}
        /\ s.at \in {"reproject", "cog"} /\ s.at \in Cutting \cup Ending
        /\ s.at \in Cutting => more
        /\ s.at \in Ending => ~more
    BY <1>1, <1>2, <1>3 DEF Cutting, Ending, RunRecord
  <2>1. /\ MapsOk(run[r], MapsOf(run[r]), Given(run[r]))
        /\ run[r].i \in DOMAIN run[r].opts.grids /\ run[r].opts.grids \in Seq(G!Grids)
        /\ G!Grid(r) = run[r].opts.grids[run[r].i] /\ G!Grid(r) \in G!Grids
        /\ G!Map(r) = <<G!Name(r), G!Grid(r)>>
    BY <1>4, <2>0, ClearCut
  <2>2. PICK tiles :
              /\ WorkDone(workDir[G!Name(r)], tiles, Given(run[r]))
              /\ \A t \in tiles : t \in {t[1]} \X ContentsOf(Given(run[r]))
    BY <1>4, <2>0, ClearCut
  <2> DEFINE whole == {G!Grid(r)} \X ContentsOf(Given(run[r]))
  <2>3. tileMap[G!Map(r)] = [tiles |-> whole, meta |-> "zooms"]
    <3>1. MapsOf(run[r])[G!Grid(r)] = tileMap[G!Map(r)]
      BY <2>1 DEF MapsOf, G!Name
    <3> QED BY <1>1, <2>1, <3>1 DEF MapsOk
  <2> HIDE DEF whole
  <2>4. map = [tiles |-> whole, meta |-> "whole"]
    BY <2>3
  <2> HIDE DEF map
  <2>5. WholeMap(maps[G!Grid(r)], G!Grid(r), Given(run[r]))
    BY <2>1, <2>4 DEF WholeMap, whole
  <2>6. ASSUME NEW j \in DOMAIN run[r].opts.grids, j < run[r].i
        PROVE  WholeMap(maps[run[r].opts.grids[j]], run[r].opts.grids[j], Given(run[r]))
    <3>1. CASE run[r].opts.grids[j] = G!Grid(r)
      BY <2>5, <3>1
    <3>2. CASE run[r].opts.grids[j] # G!Grid(r)
      <4>1. WholeMap(MapsOf(run[r])[run[r].opts.grids[j]], run[r].opts.grids[j], Given(run[r]))
        BY <1>1, <2>0, <2>1, <2>6, <3>2 DEF MapsOk
      <4>2. run[r].opts.grids[j] \in G!Grids
        BY <2>1
      <4>3. maps[run[r].opts.grids[j]] = MapsOf(run[r])[run[r].opts.grids[j]]
        BY <3>2, <4>2 DEF MapsOf, G!Name
      <4> QED BY <4>1, <4>3
    <3> QED BY <3>1, <3>2
  <2> HIDE DEF maps
  <2>7. ASSUME NEW j \in DOMAIN run[r].opts.grids, j < run[r].i + 1
        PROVE  WholeMap(maps[run[r].opts.grids[j]], run[r].opts.grids[j], Given(run[r]))
    <3>1. j \in Nat
      BY <2>1
    <3>2. j < run[r].i \/ j = run[r].i
      BY <2>0, <2>7, <3>1
    <3> QED BY <2>1, <2>5, <2>6, <3>2
  <2>8. /\ more => run[r].i + 1 \in DOMAIN run[r].opts.grids
        /\ ~more => \A j \in DOMAIN run[r].opts.grids : j < run[r].i + 1
    BY <2>0, <2>1
  <2> HIDE DEF s, more
  <2>9. s.i = run[r].i + 1 \/ s.at \in Ending
    BY <1>3 DEF Ending
  <2>10. WorkOk(s, workDir[G!Name(r)], Given(run[r]))
    BY <2>0, <2>2 DEF WorkOk
  <2>11. MapsOk(s, maps, Given(run[r]))
    <3>1. s.at \notin {"inspected", "mosaic", "packing", "metadata"}
      BY <2>0
    <3>2. s.at \in Cutting =>
            /\ s.i \in DOMAIN s.opts.grids
            /\ \A j \in DOMAIN s.opts.grids :
                 j < s.i => WholeMap(maps[s.opts.grids[j]], s.opts.grids[j], Given(run[r]))
      BY <1>3, <2>0, <2>7, <2>8
    <3>3. s.at \in Ending =>
            \A j \in DOMAIN s.opts.grids :
              WholeMap(maps[s.opts.grids[j]], s.opts.grids[j], Given(run[r]))
      BY <1>3, <2>0, <2>7, <2>8
    <3> QED BY <3>1, <3>2, <3>3 DEF MapsOk
  <2> QED BY <2>0, <2>1, <2>10, <2>11 DEF StageOk, CogOk
<1> HIDE DEF s, map, maps, more, TilerInv
<1> QED BY <1>1, <1>3, <1>4, <1>5, OwnMap

LEMMA FailsOrCleans ==
  ASSUME TilerInv, NEW r \in Runs, G!Fail(r) \/ G!Clean(r)
  PROVE  TilerInv'
<1> DEFINE built == IF G!Fail(r) \/ run[r].opts.keep THEN workDir[G!Name(r)] ELSE {}
           at == IF G!Fail(r) THEN "failed" ELSE "done"
<1>1. workDir = [n \in G!Named |-> workDir[n]]
  BY DEF TilerInv, TilerTypes
<1>2. /\ G!Active(r) /\ G!Goes(r, at) /\ raster' = raster /\ tileMap' = tileMap
      /\ at \in Stages /\ at \in {"idle", "done", "failed"}
  BY DEF G!Fail, G!Clean, G!Active, G!At, Stages
<1>3. workDir' = [workDir EXCEPT ![G!Name(r)] = built]
  BY <1>1 DEF G!Fail, G!Clean
<1> HIDE DEF built, at, TilerInv
<1> QED BY <1>2, <1>3, Going

\* A run that is overlapped is one still.
LEMMA Overlapping ==
  ASSUME NEW s, RunRecord(s)
  PROVE  LET o == [s EXCEPT !.overlapped = TRUE] IN RunRecord(o) /\ o.overlapped
<1> DEFINE yes == TRUE
           o == [s EXCEPT !.overlapped = yes]
<1>1. yes \in BOOLEAN /\ yes
  OBVIOUS
<1> HIDE DEF yes
<1>2. o = [at |-> s.at, opts |-> s.opts, i |-> s.i, packed |-> s.packed, overlapped |-> yes]
  BY DEF RunRecord
<1>3. s.at \in Stages /\ s.opts \in Options /\ s.i \in Nat \ {0}
  BY DEF RunRecord
<1> HIDE DEF o
<1>4. RunRecord(o) /\ o.overlapped
  BY <1>1, <1>2, <1>3 DEF RunRecord
<1>5. o = [s EXCEPT !.overlapped = TRUE]
  BY DEF o, yes
<1> QED BY <1>4, <1>5

\* A run replaces what is at the path of its COG.
LEMMA Replacing ==
  ASSUME TilerInv, NEW r \in Runs, G!Active(r), NEW content, NEW at \in Stages,
         G!Replaces(r, content, at), UNCHANGED <<workDir, tileMap>>,
         LET s == [run[r] EXCEPT !.at = at]
             given == [p \in G!Inputs(r) |-> IF p = CogPath[G!Name(r)] THEN content ELSE raster[p]]
         IN Clear(r) /\ at \notin {"idle", "done", "failed"} =>
              StageOk(s, workDir[G!Name(r)], MapsOf(run[r]), given, content)
  PROVE  TilerInv'
<1> DEFINE s == [run[r] EXCEPT !.at = at]
           cog == CogPath[G!Name(r)]
           given == [p \in G!Inputs(r) |-> IF p = cog THEN content ELSE raster[p]]
<1>t. /\ \A q \in Runs : RunRecord(run[q])
      /\ raster = [p \in DOMAIN Rasters |-> raster[p]] /\ run = [q \in Runs |-> run[q]]
  BY DEF TilerInv, TilerTypes
<1>1. /\ raster' = [raster EXCEPT ![cog] = content]
      /\ run' = [q \in Runs |->
           IF q = r THEN s
           ELSE IF G!Active(q) /\ cog \in G!Inputs(q) THEN [run[q] EXCEPT !.overlapped = TRUE]
           ELSE run[q]]
  BY DEF G!Replaces
<1>2. s.at = at /\ s.opts = run[r].opts /\ s.overlapped = run[r].overlapped /\ RunRecord(s)
  BY <1>t DEF RunRecord
<1>3. /\ \A q \in Runs : G!Name(q) \in G!Named /\ G!Inputs(q) \subseteq DOMAIN Rasters
      /\ cog \in DOMAIN Rasters
      /\ \A n \in G!Named \ {G!Name(r)} : CogPath[n] # cog
  <2>1. \A q \in Runs : G!Name(q) \in G!Named /\ run[q].opts \in Options
    BY <1>t DEF RunRecord, G!Name, G!Named
  <2> QED BY <2>1, TilerAssumption DEF G!Inputs
<1> HIDE DEF s, cog
<1>4. raster'[cog] = content /\ \A p \in DOMAIN Rasters \ {cog} : raster'[p] = raster[p]
  BY <1>t, <1>1, <1>3
<1>5. run'[r] = s /\ \A q \in Runs \ {r} :
        /\ run'[q] \in {run[q], [run[q] EXCEPT !.overlapped = TRUE]}
        /\ run'[q] = run[q] => ~(G!Active(q) /\ cog \in G!Inputs(q)) \/ run[q].overlapped
        /\ RunRecord(run'[q])
  <2>1. run'[r] = s
    BY <1>1
  <2>2. ASSUME NEW q \in Runs \ {r}
        PROVE  /\ run'[q] \in {run[q], [run[q] EXCEPT !.overlapped = TRUE]}
               /\ run'[q] = run[q] => ~(G!Active(q) /\ cog \in G!Inputs(q)) \/ run[q].overlapped
               /\ RunRecord(run'[q])
    <3>1. RunRecord(run[q])
      BY <1>t
    <3> DEFINE o == [run[q] EXCEPT !.overlapped = TRUE]
    <3>2. RunRecord(o) /\ o.overlapped
      BY <3>1, Overlapping
    <3>3. run'[q] = IF G!Active(q) /\ cog \in G!Inputs(q) THEN o ELSE run[q]
      BY <1>1
    <3> HIDE DEF o
    <3>4. /\ run'[q] \in {run[q], o}
          /\ run'[q] = run[q] => ~(G!Active(q) /\ cog \in G!Inputs(q)) \/ run[q].overlapped
          /\ RunRecord(run'[q])
      BY <3>1, <3>2, <3>3
    <3> QED BY <3>4 DEF o
  <2> QED BY <2>1, <2>2
<1>6. TilerTypes'
  <2>1. raster' = [p \in DOMAIN Rasters |-> raster'[p]]
    BY <1>t, <1>1
  <2>2. run' = [q \in Runs |-> run'[q]]
    BY <1>1
  <2>3. \A q \in Runs : RunRecord(run'[q])
    BY <1>2, <1>5
  <2>4. \A q \in Runs : RunRecord(run[q])'
    BY <2>3 DEF RunRecord
  <2>5. workDir' = [n \in G!Named |-> workDir'[n]]
        /\ tileMap' = [m \in G!Named \X G!Grids |-> tileMap'[m]]
    BY DEF TilerInv, TilerTypes
  <2> QED BY <2>1, <2>2, <2>4, <2>5 DEF TilerTypes
<1>7. \A n \in G!Named \ {G!Name(r)} :
        /\ workDir'[n] = workDir[n]
        /\ \A g \in G!Grids : tileMap'[<<n, g>>] = tileMap[<<n, g>>]
        /\ raster'[CogPath[n]] = raster[CogPath[n]]
  <2>1. \A n \in G!Named : CogPath[n] \in DOMAIN Rasters
    BY TilerAssumption
  <2> QED BY <1>3, <1>4, <2>1
<1>8. ASSUME NEW q \in Runs \ {r}, Clear(q)'
      PROVE  \A p \in G!Inputs(q) : raster'[p] = raster[p]
  <2>1. ~run'[q].overlapped /\ run'[q].at \notin {"idle", "done", "failed"}
    BY <1>8 DEF Clear, G!Active
  <2>2. run'[q] = run[q]
    BY <1>5, <1>t, <2>1 DEF RunRecord
  <2>3. cog \notin G!Inputs(q)
    BY <1>5, <2>1, <2>2 DEF G!Active
  <2> QED BY <1>3, <1>4, <2>3
<1>9. ASSUME Clear(r)' PROVE StageNow(run[r])'
  <2>1. at \notin {"idle", "done", "failed"} /\ Clear(r)
    BY <1>2, <1>5, <1>9 DEF Clear, G!Active
  <2>2. MapsOf(run[r])' = MapsOf(run[r])
    BY <1>2, <1>5 DEF MapsOf
  <2>3. Given(run[r])' = given
    <3>1. \A p \in G!Inputs(r) : raster'[p] = IF p = cog THEN content ELSE raster[p]
      BY <1>3, <1>4
    <3> QED BY <1>2, <1>5, <3>1 DEF Given, G!Inputs
  <2>4. StageOk(s, workDir[G!Name(r)], MapsOf(run[r]), given, content)
    BY <2>1 DEF s, cog
  <2>5. workDir'[run'[r].opts.name] = workDir[G!Name(r)] /\ raster'[CogPath[run'[r].opts.name]] = content
    BY <1>2, <1>4, <1>5 DEF G!Name, cog
  <2> HIDE DEF given
  <2> QED BY <1>5, <2>2, <2>3, <2>4, <2>5 DEF StageNow
<1>10. \A q \in Runs \ {r} : Clear(q)' => \A p \in G!Inputs(q) : raster'[p] = raster[p]
  BY <1>8
<1>11. run'[r].opts = run[r].opts /\ run'[r].overlapped = run[r].overlapped
  BY <1>2, <1>5
<1>12. \A q \in Runs \ {r} : run'[q] \in {run[q], [run[q] EXCEPT !.overlapped = TRUE]}
  BY <1>5
<1> HIDE DEF TilerInv
<1> QED BY <1>6, <1>7, <1>9, <1>10, <1>11, <1>12, OneRuns

LEMMA RemovesCog ==
  ASSUME TilerInv, NEW r \in Runs, G!RemoveCog(r)
  PROVE  TilerInv'
<1>1. /\ run[r].at = "cog" /\ G!Active(r) /\ UNCHANGED <<workDir, tileMap>>
      /\ "build" \in Stages /\ "clean" \in Stages
  BY DEF G!RemoveCog, G!At, G!Active, Stages, Ending
<1>2. ASSUME Clear(r)
      PROVE  /\ WorkOk(run[r], workDir[G!Name(r)], Given(run[r]))
             /\ MapsOk(run[r], MapsOf(run[r]), Given(run[r])) /\ RunRecord(run[r])
  BY <1>1, <1>2, ClearStage DEF StageOk, Ending
<1>3. CASE run[r].opts.cog
  <2> DEFINE s == [run[r] EXCEPT !.at = "build"]
             cog == CogPath[G!Name(r)]
             given == [p \in G!Inputs(r) |-> IF p = cog THEN Gone ELSE raster[p]]
  <2>1. G!Replaces(r, Gone, "build")
    BY <1>3 DEF G!RemoveCog
  <2>2. ASSUME Clear(r)
        PROVE  StageOk(s, workDir[G!Name(r)], MapsOf(run[r]), given, Gone)
    <3>1. /\ s.at = "build" /\ s.i = run[r].i /\ s.opts = run[r].opts
          /\ DOMAIN given = DOMAIN Given(run[r])
          /\ cog = CogPath[s.opts.name]
          /\ cog \in DOMAIN given => given[cog] = Gone
          /\ cog \notin DOMAIN given => given = Given(run[r])
      BY <1>2, <2>2 DEF RunRecord, Given, G!Inputs, G!Name
    <3> HIDE DEF s, given, cog
    <3>2. WorkOk(s, workDir[G!Name(r)], given)
      BY <1>1, <1>2, <2>2, <3>1 DEF WorkOk, WorkDone
    <3>3. MapsOk(s, MapsOf(run[r]), given)
      BY <1>1, <1>2, <2>2, <3>1 DEF MapsOk, Cutting, Ending
    <3> QED BY <3>1, <3>2, <3>3 DEF StageOk, CogOk
  <2> HIDE DEF TilerInv
  <2> QED BY <1>1, <2>1, <2>2, Replacing
<1>4. CASE ~run[r].opts.cog
  <2> DEFINE s == [run[r] EXCEPT !.at = "clean"]
  <2>1. G!Goes(r, "clean") /\ UNCHANGED <<raster, workDir, tileMap>>
    BY <1>1, <1>4 DEF G!RemoveCog
  <2>2. ASSUME Clear(r)
        PROVE  StageOk(s, workDir[G!Name(r)], MapsOf(run[r]), Given(run[r]),
                       raster[CogPath[G!Name(r)]])
    <3>1. s.at = "clean" /\ s.i = run[r].i /\ s.opts = run[r].opts
      BY <1>2, <2>2 DEF RunRecord
    <3> HIDE DEF s
    <3>2. WorkOk(s, workDir[G!Name(r)], Given(run[r]))
      BY <1>1, <1>2, <2>2, <3>1 DEF WorkOk
    <3>3. MapsOk(s, MapsOf(run[r]), Given(run[r]))
      BY <1>1, <1>2, <2>2, <3>1 DEF MapsOk, Cutting, Ending
    <3> QED BY <1>4, <3>1, <3>2, <3>3 DEF StageOk, CogOk
  <2> HIDE DEF TilerInv
  <2> QED BY <1>1, <2>1, <2>2, GoingOn
<1> QED BY <1>3, <1>4

LEMMA BuildsCog ==
  ASSUME TilerInv, NEW r \in Runs, G!BuildCog(r)
  PROVE  TilerInv'
<1> DEFINE s == [run[r] EXCEPT !.at = "clean"]
           cog == CogPath[G!Name(r)]
           content == IF G!IsAligned(r) THEN G!Copied(r) ELSE G!Built(r)
           given == [p \in G!Inputs(r) |-> IF p = cog THEN content ELSE raster[p]]
<1>1. /\ run[r].at = "build" /\ G!Active(r) /\ UNCHANGED <<workDir, tileMap>>
      /\ "clean" \in Stages /\ (G!IsAligned(r) \/ G!Readable(r))
      /\ G!Replaces(r, content, "clean")
  BY DEF G!BuildCog, G!At, G!Active, Stages, Ending
<1>2. ASSUME Clear(r)
      PROVE  StageOk(s, workDir[G!Name(r)], MapsOf(run[r]), given, content)
  <2>1. /\ WorkOk(run[r], workDir[G!Name(r)], Given(run[r]))
        /\ MapsOk(run[r], MapsOf(run[r]), Given(run[r])) /\ RunRecord(run[r])
        /\ CogOk(run[r], raster[cog], Given(run[r]))
    BY <1>1, <1>2, ClearStage DEF StageOk, Ending
  <2>2. PICK tiles :
          /\ WorkDone(workDir[G!Name(r)], tiles, Given(run[r]))
          /\ \/ cog \in DOMAIN Given(run[r])
             \/ \A t \in tiles : t \in {t[1]} \X ContentsOf(Given(run[r]))
    BY <2>1 DEF WorkOk, G!Name
  <2>3. /\ G!Mosaic(r) = G!Inputs(r)
        /\ ContentsOf(Given(run[r])) = {raster[p] : p \in G!Inputs(r)}
    BY <2>2, OneWork
  <2>4. DOMAIN Given(run[r]) = G!Inputs(r) /\ \A p \in G!Inputs(r) : Given(run[r])[p] = raster[p]
    BY DEF Given, G!Inputs
  <2>5. cog \notin G!Inputs(r)
    <3> SUFFICES ASSUME cog \in G!Inputs(r) PROVE FALSE
      OBVIOUS
    <3>1. raster[cog] = Gone
      BY <1>1, <2>1, <2>4 DEF CogOk, G!Name
    <3>2. ~G!Readable(r)
      BY <2>3, <3>1 DEF G!Readable, G!Present
    <3>3. ~G!IsAligned(r)
      BY <3>1, TilerAssumption DEF G!IsAligned
    <3> QED BY <1>1, <3>2, <3>3
  <2>6. given = Given(run[r])
    BY <2>5 DEF Given, G!Inputs
  <2>7. s.at = "clean" /\ s.i = run[r].i /\ s.opts = run[r].opts
    BY <2>1 DEF RunRecord
  <2>8. content = IF SoleAligned(Given(run[r]))
                  THEN Given(run[r])[CHOOSE p \in DOMAIN Given(run[r]) : TRUE]
                  ELSE ContentsOf(Given(run[r]))
    <3>1. SoleAligned(Given(run[r])) <=> G!IsAligned(r)
      BY <2>4 DEF SoleAligned, G!IsAligned
    <3>2. G!Built(r) = ContentsOf(Given(run[r]))
      BY <2>3 DEF G!Built
    <3>3. ASSUME G!IsAligned(r)
          PROVE  G!Copied(r) = Given(run[r])[CHOOSE p \in DOMAIN Given(run[r]) : TRUE]
      <4>1. PICK p \in G!Inputs(r) : TRUE
        BY <3>3 DEF G!IsAligned
      <4>2. (CHOOSE c \in G!Inputs(r) : TRUE) \in G!Inputs(r)
        BY <4>1
      <4> QED BY <2>4, <4>2 DEF G!Copied
    <3> QED BY <3>1, <3>2, <3>3
  <2>9. cog = CogPath[s.opts.name] /\ cog \notin DOMAIN Given(run[r])
    BY <2>4, <2>5, <2>7 DEF G!Name
  <2> HIDE DEF s, given, cog, content
  <2>10. WorkOk(s, workDir[G!Name(r)], given)
    BY <2>2, <2>6, <2>7, <2>9 DEF WorkOk
  <2>11. MapsOk(s, MapsOf(run[r]), given)
    <3>1. \A j \in DOMAIN s.opts.grids :
            WholeMap(MapsOf(run[r])[s.opts.grids[j]], s.opts.grids[j], given)
      BY <1>1, <2>1, <2>6, <2>7, <2>9 DEF MapsOk, Ending
    <3> QED BY <2>7, <3>1 DEF MapsOk, Cutting, Ending
  <2>12. CogOk(s, content, given)
    BY <2>6, <2>7, <2>8, <2>9 DEF CogOk
  <2> QED BY <2>7, <2>10, <2>11, <2>12 DEF StageOk
<1> HIDE DEF TilerInv, content
<1> QED BY <1>1, <1>2, Replacing

LEMMA Begins ==
  ASSUME TilerInv, NEW r \in Runs, NEW o \in Options, G!Begin(r, o)
  PROVE  TilerInv'
<1> DEFINE others == {q \in Runs \ {r} : G!Active(q) /\ G!Name(q) = o.name}
           at == IF o.inputs # {} /\ G!Present(o.inputs) THEN "inspected" ELSE "failed"
           overlapped == others # {}
           new == [at |-> at, opts |-> o, i |-> 1, packed |-> {}, overlapped |-> overlapped]
<1>t. /\ \A q \in Runs : RunRecord(run[q])
      /\ raster = [p \in DOMAIN Rasters |-> raster[p]]
      /\ workDir = [n \in G!Named |-> workDir[n]]
      /\ tileMap = [m \in G!Named \X G!Grids |-> tileMap[m]]
  BY DEF TilerInv, TilerTypes
<1>1. /\ UNCHANGED <<raster, workDir, tileMap>>
      /\ run' = [q \in Runs |-> IF q = r THEN new
                                ELSE IF q \in others THEN [run[q] EXCEPT !.overlapped = TRUE]
                                ELSE run[q]]
  BY DEF G!Begin
<1>2. at \in {"inspected", "failed"} /\ overlapped \in BOOLEAN
  OBVIOUS
<1>3. \A q \in Runs \ {r} : q \in others <=> G!Active(q) /\ G!Name(q) = o.name
  OBVIOUS
<1>4. overlapped <=> \E q \in Runs \ {r} : q \in others
  OBVIOUS
<1> HIDE DEF others, at, overlapped
<1>5. run'[r] = new /\ RunRecord(new)
  <2>1. run'[r] = new
    BY <1>1
  <2>2. RunRecord(new)
    BY <1>2 DEF RunRecord, Stages
  <2> QED BY <2>1, <2>2
<1>6. ASSUME NEW q \in Runs \ {r}
      PROVE  /\ RunRecord(run'[q])
             /\ run'[q].at = run[q].at /\ run'[q].opts = run[q].opts
             /\ q \in others => run'[q].overlapped
             /\ q \notin others => run'[q] = run[q]
  <2> DEFINE s == [run[q] EXCEPT !.overlapped = TRUE]
  <2>1. RunRecord(run[q])
    BY <1>t
  <2>2. RunRecord(s) /\ s.overlapped
    BY <2>1, Overlapping
  <2>3. s.at = run[q].at /\ s.opts = run[q].opts
    BY <2>1 DEF RunRecord
  <2>4. run'[q] = IF q \in others THEN s ELSE run[q]
    BY <1>1
  <2> HIDE DEF s
  <2> QED BY <2>1, <2>2, <2>3, <2>4
<1>7. TilerTypes'
  <2>1. run' = [q \in Runs |-> run'[q]]
    BY <1>1
  <2>2. \A q \in Runs : RunRecord(run'[q])
    BY <1>5, <1>6
  <2>3. \A q \in Runs : RunRecord(run[q])'
    BY <2>2 DEF RunRecord
  <2> QED BY <1>1, <1>t, <2>1, <2>3 DEF TilerTypes
<1>8. ASSUME NEW p \in Runs, NEW q \in Runs, p # q, G!Active(p)', G!Active(q)',
             (G!Name(p) = G!Name(q))'
      PROVE  run'[q].overlapped
  <2>1. \A u \in Runs \ {r} : (G!Active(u)' <=> G!Active(u)) /\ G!Name(u)' = G!Name(u)
    BY <1>6 DEF G!Active, G!Name
  <2>2. G!Name(r)' = o.name
    BY <1>5 DEF G!Name
  <2>3. CASE q = r
    <3>1. p \in others
      BY <1>3, <1>8, <2>1, <2>2, <2>3
    <3> QED BY <1>4, <1>5, <1>8, <2>3, <3>1
  <2>4. CASE p = r
    <3>1. q \in others
      BY <1>3, <1>8, <2>1, <2>2, <2>4
    <3> QED BY <1>6, <1>8, <2>4, <3>1
  <2>5. CASE p # r /\ q # r
    <3>1. run[q].overlapped
      BY <1>8, <2>1, <2>5 DEF TilerInv
    <3> QED BY <1>6, <2>5, <3>1
  <2> QED BY <2>3, <2>4, <2>5
<1>9. ASSUME NEW q \in Runs, Clear(q)' PROVE StageNow(run[q])'
  <2>1. CASE q = r
    <3> DEFINE maps == [g \in G!Grids |-> tileMap'[<<o.name, g>>]]
               given == [p \in o.inputs |-> raster'[p]]
    <3>1. at = "inspected"
      BY <1>2, <1>5, <1>9, <2>1 DEF Clear, G!Active
    <3>2. new.at = "inspected" /\ new.i = 1
      BY <3>1
    <3> HIDE DEF new
    <3>3. MapsOk(new, MapsOf(run[r])', Given(run[r])')
      BY <3>2 DEF MapsOk, Cutting, Ending
    <3>4. StageOk(new, workDir'[run'[r].opts.name], MapsOf(run[r])', Given(run[r])',
                  raster'[CogPath[run'[r].opts.name]])
      BY <3>2, <3>3 DEF StageOk, CogOk, Cutting, Ending
    <3> QED BY <1>5, <2>1, <3>4 DEF StageNow
  <2>2. CASE q # r
    <3>1. run'[q] = run[q]
      BY <1>6, <1>9, <2>2 DEF Clear
    <3>2. StageNow(run[q])
      BY <1>9, <3>1 DEF TilerInv, Clear, G!Active
    <3>3. MapsOf(run[q])' = MapsOf(run[q]) /\ Given(run[q])' = Given(run[q])
      BY <1>1, <3>1 DEF MapsOf, Given
    <3> QED BY <1>1, <3>1, <3>2, <3>3 DEF StageNow
  <2> QED BY <2>1, <2>2
<1> QED BY <1>7, <1>8, <1>9 DEF TilerInv

LEMMA TilerStep ==
  ASSUME TilerInv, [G!Next]_tilerVars
  PROVE  TilerInv'
<1>1. CASE UNCHANGED tilerVars
  <2>1. /\ raster' = raster /\ workDir' = workDir /\ tileMap' = tileMap /\ run' = run
    BY <1>1 DEF tilerVars
  <2>2. TilerTypes'
    BY <2>1 DEF TilerInv, TilerTypes, RunRecord
  <2>3. \A r \in Runs : /\ G!Active(r)' <=> G!Active(r)
                        /\ G!Name(r)' = G!Name(r) /\ (Clear(r)' <=> Clear(r))
    BY <2>1 DEF Clear, G!Active, G!Name
  <2>4. ASSUME NEW r \in Runs, StageNow(run[r]) PROVE StageNow(run[r])'
    <3>1. MapsOf(run[r])' = MapsOf(run[r]) /\ Given(run[r])' = Given(run[r])
      BY <2>1 DEF MapsOf, Given
    <3> QED BY <2>1, <2>4, <3>1 DEF StageNow
  <2> QED BY <2>1, <2>2, <2>3, <2>4 DEF TilerInv
<1>2. CASE G!Next
  <2> HIDE DEF TilerInv
  <2>1. PICK r \in Runs :
          \/ \E o \in Options : G!Begin(r, o)
          \/ G!MakeWork(r) \/ G!BuildMosaic(r) \/ G!Reproject(r) \/ G!CutTile(r) \/ G!EndCut(r)
          \/ G!OpenMap(r) \/ G!PackTile(r) \/ G!EndPack(r) \/ G!WriteMetadata(r)
          \/ G!RemoveCog(r) \/ G!BuildCog(r) \/ G!Clean(r) \/ G!Fail(r)
    BY <1>2 DEF G!Next
  <2>2. ASSUME NEW o \in Options, G!Begin(r, o) PROVE TilerInv'
    BY <2>2, Begins
  <2>3. CASE G!MakeWork(r)
    BY <2>3, MakesWork
  <2>4. CASE G!BuildMosaic(r)
    BY <2>4, BuildsMosaic
  <2>5. CASE G!Reproject(r)
    BY <2>5, Reprojects
  <2>6. CASE G!CutTile(r)
    BY <2>6, CutsTile
  <2>7. CASE G!EndCut(r)
    BY <2>7, EndsCut
  <2>8. CASE G!OpenMap(r)
    BY <2>8, OpensMap
  <2>9. CASE G!PackTile(r)
    BY <2>9, PacksTile
  <2>10. CASE G!EndPack(r)
    BY <2>10, EndsPack
  <2>11. CASE G!WriteMetadata(r)
    BY <2>11, WritesMetadata
  <2>12. CASE G!RemoveCog(r)
    BY <2>12, RemovesCog
  <2>13. CASE G!BuildCog(r)
    BY <2>13, BuildsCog
  <2>14. CASE G!Clean(r) \/ G!Fail(r)
    BY <2>14, FailsOrCleans
  <2> QED BY <2>1, <2>2, <2>3, <2>4, <2>5, <2>6, <2>7, <2>8, <2>9, <2>10, <2>11, <2>12, <2>13, <2>14
<1> QED BY <1>1, <1>2

\* What a run that ends well leaves behind.
LEMMA Finishes ==
  ASSUME TilerInv, NEW r \in Runs
  PROVE  G!Finished(r)
<1> SUFFICES ASSUME G!Clean(r), ~run[r].overlapped
    PROVE  /\ \A i \in DOMAIN run[r].opts.grids :
                tileMap[<<G!Name(r), run[r].opts.grids[i]>>] =
                  [tiles |-> {run[r].opts.grids[i]} \X {raster[p] : p \in G!Inputs(r)},
                   meta |-> "whole"]
           /\ run[r].opts.cog =>
                raster[CogPath[G!Name(r)]] =
                  IF G!IsAligned(r) THEN G!Copied(r) ELSE {raster[p] : p \in G!Inputs(r)}
  BY DEF G!Finished
<1>1. run[r].at = "clean" /\ Clear(r)
  BY DEF G!Clean, G!At, Clear, G!Active
<1>2. /\ RunRecord(run[r]) /\ MapsOk(run[r], MapsOf(run[r]), Given(run[r]))
      /\ CogOk(run[r], raster[CogPath[G!Name(r)]], Given(run[r]))
  BY <1>1, ClearStage DEF StageOk
<1>3. DOMAIN Given(run[r]) = G!Inputs(r) /\ \A p \in G!Inputs(r) : Given(run[r])[p] = raster[p]
  BY DEF Given, G!Inputs
<1>4. ContentsOf(Given(run[r])) = {raster[p] : p \in G!Inputs(r)}
  BY <1>3 DEF ContentsOf
<1>5. ASSUME NEW i \in DOMAIN run[r].opts.grids
      PROVE  tileMap[<<G!Name(r), run[r].opts.grids[i]>>] =
               [tiles |-> {run[r].opts.grids[i]} \X {raster[p] : p \in G!Inputs(r)},
                meta |-> "whole"]
  <2>1. WholeMap(MapsOf(run[r])[run[r].opts.grids[i]], run[r].opts.grids[i], Given(run[r]))
    BY <1>1, <1>2 DEF MapsOk, Ending
  <2>2. run[r].opts.grids[i] \in G!Grids
    BY <1>2, TilerAssumption DEF RunRecord
  <2> QED BY <1>4, <2>1, <2>2 DEF WholeMap, MapsOf, G!Name
<1>6. ASSUME run[r].opts.cog
      PROVE  raster[CogPath[G!Name(r)]] =
               IF G!IsAligned(r) THEN G!Copied(r) ELSE {raster[p] : p \in G!Inputs(r)}
  <2>1. SoleAligned(Given(run[r])) <=> G!IsAligned(r)
    BY <1>3 DEF SoleAligned, G!IsAligned
  <2>2. ASSUME G!IsAligned(r)
        PROVE  G!Copied(r) = Given(run[r])[CHOOSE p \in DOMAIN Given(run[r]) : TRUE]
    <3>1. PICK p \in G!Inputs(r) : TRUE
      BY <2>2 DEF G!IsAligned
    <3>2. (CHOOSE c \in G!Inputs(r) : TRUE) \in G!Inputs(r)
      BY <3>1
    <3> QED BY <1>3, <3>2 DEF G!Copied
  <2> QED BY <1>1, <1>2, <1>4, <1>6, <2>1, <2>2 DEF CogOk
<1> QED BY <1>5, <1>6

\* GeneratedWhole: a run of martin-tiler that reports success, and that no other run
\* of its name or of its rasters overlapped, has made of each grid the whole map of
\* its rasters and nothing else, and the COG.
THEOREM MapsAreWhole == AllSpec => GeneratedWhole
<1>1. AllInit => (scene = "tiler" => TilerInv)
  BY TilerStart DEF AllInit
<1>2. ASSUME scene = "tiler" => TilerInv, [AllNext]_allVars
      PROVE  (scene = "tiler" => TilerInv)'
  <2>1. scene' = scene
    BY <1>2 DEF AllNext, allVars
  <2>2. scene = "tiler" => [G!Next]_tilerVars
    BY <1>2 DEF AllNext, allVars
  <2> QED BY <1>2, <2>1, <2>2, TilerStep
<1>3. (scene = "tiler" => TilerInv) => (scene = "tiler" => \A r \in Runs : G!Finished(r))
  BY Finishes
<1> QED BY <1>1, <1>2, <1>3, PTL DEF AllSpec, GeneratedWhole

-----------------------------------------------------------------------------
(* TileTree: any trees, of any size, and batches of any size.              *)

\* A tile that pack makes of a file, and a file that unpack makes of a tile.
TileOf(f, e) ==
  [coord |-> P!Oriented(f.coord, options.pack), encoding |-> e, data |-> f.data, name |-> f.name]

PackedAs(f, t) == \E e \in {"gzip", "none", "internal"} : t = TileOf(f, e)

FileOf(t, format) ==
  [coord |-> P!Oriented(t.coord, options.unpack), format |-> format,
   encoding |-> IF t.encoding = "gzip" THEN "none" ELSE t.encoding, data |-> t.data]

OneEach(tiles) == \A s, t \in tiles : s.coord = t.coord => s = t

\* The tiles of the batch and of the archive are those of the files walked.
PackOk ==
  /\ \A t \in packed \cup archive.tiles : \E f \in walked : PackedAs(f, t)
  /\ \A f \in walked : packFormat = {f.format} /\ \E t \in packed \cup archive.tiles : PackedAs(f, t)
  /\ packFormat # {} => walked # {}
  /\ OneEach(archive.tiles)
  /\ packing # "packing" => packed = {} /\ walked = tree /\ archive.format = packFormat

UnpackOk ==
  /\ packFormat # {}
  /\ \A w \in written : \E t \in archive.tiles, format \in packFormat : w = FileOf(t, format)
  /\ packing = "unpacked" =>
       \A t \in archive.tiles, format \in packFormat : FileOf(t, format) \in written

TreeInv ==
  /\ tree \in Trees /\ walked \subseteq tree
  /\ options.pack \in P!Schemes /\ options.unpack \in P!Schemes
  /\ packing \in {"packing", "packed", "unpacking", "unpacked", "failed"}
  /\ archive = [tiles |-> archive.tiles, format |-> archive.format]
  /\ IsFiniteSet(packed) /\ IsFiniteSet(archive.tiles)
  /\ packing # "failed" => PackOk
  /\ packing \in {"packing", "packed"} => written = {}
  /\ packing \in {"unpacking", "unpacked"} => UnpackOk

\* Turning twice changes nothing.
LEMMA TurnedTwice ==
  ASSUME NEW c, c = <<c[1], c[2], c[3]>>, c[1] \in Nat, c[3] \in Int
  PROVE  /\ P!InvertY(P!InvertY(c)) = c
         /\ P!InvertY(c) = <<P!InvertY(c)[1], P!InvertY(c)[2], P!InvertY(c)[3]>>
         /\ P!InvertY(c)[1] \in Nat /\ P!InvertY(c)[3] \in Int
<1>1. P!InvertY(c) = <<c[1], c[2], 2 ^ c[1] - 1 - c[3]>> /\ 2 ^ c[1] \in Int
  BY DEF P!InvertY
<1>2. \A z \in Nat : \A x : \A y \in Int :
        2 ^ z \in Int => P!InvertY(<<z, x, 2 ^ z - 1 - y>>) = <<z, x, y>>
  BY DEF P!InvertY
<1>3. P!InvertY(P!InvertY(c)) = <<c[1], c[2], c[3]>>
  BY <1>1, <1>2
<1> QED BY <1>1, <1>3

\* Where each tile has coordinates of its own, and only there, there are as many
\* coordinates as tiles.
LEMMA CoordsOfTiles ==
  ASSUME NEW S, IsFiniteSet(S)
  PROVE  /\ IsFiniteSet(P!CoordsIn(S))
         /\ P!Cardinality(P!CoordsIn(S)) = P!Cardinality(S) <=> OneEach(S)
<1> DEFINE f == [x \in S |-> x.coord]
<1>1. f \in Surjection(S, P!CoordsIn(S))
  BY DEF Surjection, P!CoordsIn
<1>2. f \in Injection(S, P!CoordsIn(S)) <=> OneEach(S)
  BY DEF Injection, IsInjective, OneEach, P!CoordsIn
<1>3. P!Cardinality(P!CoordsIn(S)) = Cardinality(P!CoordsIn(S)) /\ P!Cardinality(S) = Cardinality(S)
  BY DEF P!Cardinality, Cardinality
<1> HIDE DEF f
<1>4. /\ IsFiniteSet(P!CoordsIn(S))
      /\ Cardinality(P!CoordsIn(S)) = Cardinality(S) <=> f \in Injection(S, P!CoordsIn(S))
  BY <1>1, FS_Surjection
<1> QED BY <1>2, <1>3, <1>4

LEMMA TreeStart == P!Init => TreeInv
<1> SUFFICES ASSUME P!Init PROVE TreeInv
  OBVIOUS
<1>1. options.pack \in P!Schemes /\ options.unpack \in P!Schemes
  BY DEF P!Init
<1>2. PackOk
  BY DEF P!Init, PackOk, OneEach
<1> QED BY <1>1, <1>2, FS_EmptySet DEF P!Init, TreeInv

\* A file that can be packed becomes one tile.
LEMMA RecodedOnce ==
  ASSUME NEW file, P!Recoded(file, P!Target(file.format)) # {}
  PROVE  \E e \in {"gzip", "none", "internal"} : P!Recoded(file, P!Target(file.format)) = {e}
<1>1. P!Target(file.format) \in {"gzip", "none"}
  BY DEF P!Target
<1> QED BY <1>1 DEF P!Recoded

\* A batch that can be inserted leaves one tile at each of the coordinates.
LEMMA OneEachInserted ==
  ASSUME NEW tiles, IsFiniteSet(tiles), IsFiniteSet(archive.tiles), OneEach(archive.tiles),
         P!Insertable(tiles)
  PROVE  OneEach(archive.tiles \cup tiles) /\ IsFiniteSet(archive.tiles \cup tiles)
<1>1. OneEach(tiles)
  BY CoordsOfTiles DEF P!Insertable
<1>2. \A s \in tiles, t \in archive.tiles : s.coord # t.coord
  BY DEF P!Insertable, P!CoordsIn
<1>3. IsFiniteSet(archive.tiles \cup tiles)
  BY FS_Union
<1> QED BY <1>1, <1>2, <1>3 DEF OneEach

LEMMA Walks ==
  ASSUME TreeInv, P!Walk
  PROVE  TreeInv'
<1> DEFINE encodings(file) == P!Recoded(file, P!Target(file.format))
           tiles(file) == packed \cup {TileOf(file, e) : e \in encodings(file)}
           full(file) == P!Cardinality(tiles(file)) >= PackBatchSize
           fails(file) == \/ file.format = "unknown" \/ encodings(file) = {}
                          \/ packFormat \notin {{}, {file.format}}
<1>1. PICK file \in tree \ walked :
        /\ walked' = walked \cup {file}
        /\ IF fails(file) \/ (full(file) /\ ~P!Insertable(tiles(file)))
           THEN packing' = "failed" /\ UNCHANGED <<packed, packFormat, archive>>
           ELSE /\ packing' = packing
                /\ packFormat' = {file.format}
                /\ packed' = IF full(file) THEN {} ELSE tiles(file)
                /\ archive' = IF full(file) THEN [archive EXCEPT !.tiles = @ \cup tiles(file)]
                              ELSE archive
  BY DEF P!Walk, TileOf
<1>2. /\ packing = "packing" /\ UNCHANGED <<tree, options, written>>
      /\ tree \in Trees /\ walked \subseteq tree /\ written = {}
      /\ options.pack \in P!Schemes /\ options.unpack \in P!Schemes
      /\ archive = [tiles |-> archive.tiles, format |-> archive.format]
      /\ IsFiniteSet(packed) /\ IsFiniteSet(archive.tiles) /\ PackOk
  BY DEF P!Walk, TreeInv
<1>3. CASE fails(file) \/ (full(file) /\ ~P!Insertable(tiles(file)))
  <2>1. packing' = "failed" /\ UNCHANGED <<packed, packFormat, archive>>
        /\ walked' \subseteq tree
    BY <1>1, <1>2, <1>3
  <2> QED BY <1>2, <2>1 DEF TreeInv
<1>4. CASE ~(fails(file) \/ (full(file) /\ ~P!Insertable(tiles(file))))
  <2> HIDE DEF full
  <2>1. PICK e \in {"gzip", "none", "internal"} : encodings(file) = {e}
    BY <1>4, RecodedOnce
  <2> DEFINE all == packed \cup {TileOf(file, e)}
  <2>2. tiles(file) = all
    BY <2>1
  <2>3. /\ packing' = packing /\ packFormat' = {file.format} /\ walked' = walked \cup {file}
        /\ packed' = IF full(file) THEN {} ELSE all
        /\ archive' = IF full(file) THEN [archive EXCEPT !.tiles = @ \cup all] ELSE archive
        /\ full(file) => P!Insertable(all)
        /\ packFormat \in {{}, {file.format}}
    BY <1>1, <1>4, <2>2
  <2>4. PackedAs(file, TileOf(file, e))
    BY <2>1 DEF PackedAs
  <2>5. IsFiniteSet(all)
    BY <1>2, FS_AddElement
  <2>6. /\ archive' = [tiles |-> archive'.tiles, format |-> archive'.format]
        /\ archive'.tiles = IF full(file) THEN archive.tiles \cup all ELSE archive.tiles
    BY <1>2, <2>3
  <2>7. OneEach(archive.tiles)
    BY <1>2 DEF PackOk
  <2>8. OneEach(archive'.tiles) /\ IsFiniteSet(archive'.tiles) /\ IsFiniteSet(packed')
    <3>1. CASE full(file)
      <4> HIDE DEF all
      <4>1. OneEach(archive.tiles \cup all) /\ IsFiniteSet(archive.tiles \cup all)
        BY <1>2, <2>3, <2>5, <2>7, <3>1, OneEachInserted
      <4> QED BY <2>3, <2>6, <3>1, <4>1, FS_EmptySet
    <3>2. CASE ~full(file)
      BY <1>2, <2>3, <2>5, <2>6, <2>7, <3>2
    <3> QED BY <3>1, <3>2
  <2>9. packed' \cup archive'.tiles = packed \cup archive.tiles \cup {TileOf(file, e)}
    BY <2>3, <2>6
  <2>10. \A f, t : PackedAs(f, t)' <=> PackedAs(f, t)
    BY <1>2 DEF PackedAs, TileOf
  <2>11. PackOk'
    <3>1. \A f \in walked : packFormat = {f.format} /\ \E t \in packed \cup archive.tiles : PackedAs(f, t)
      BY <1>2 DEF PackOk
    <3>2. \A t \in packed \cup archive.tiles : \E f \in walked : PackedAs(f, t)
      BY <1>2 DEF PackOk
    <3>3. \A f \in walked' : packFormat' = {f.format}
      BY <2>3, <3>1
    <3>4. \A f \in walked' : \E t \in packed' \cup archive'.tiles : PackedAs(f, t)'
      BY <2>3, <2>4, <2>9, <2>10, <3>1
    <3>5. \A t \in packed' \cup archive'.tiles : \E f \in walked' : PackedAs(f, t)'
      BY <2>3, <2>4, <2>9, <2>10, <3>2
    <3>6. OneEach(archive.tiles)'
      BY <2>8 DEF OneEach
    <3>7. walked' # {} /\ packing' = "packing"
      BY <1>2, <2>3
    <3> QED BY <3>3, <3>4, <3>5, <3>6, <3>7 DEF PackOk
  <2>12. walked' \subseteq tree
    BY <1>2, <2>3
  <2> QED BY <1>2, <2>3, <2>6, <2>8, <2>11, <2>12 DEF TreeInv
<1> QED BY <1>3, <1>4

LEMMA EndsPacking ==
  ASSUME TreeInv, P!EndPack
  PROVE  TreeInv'
<1>1. /\ packing = "packing" /\ walked = tree
      /\ UNCHANGED <<tree, options, walked, packFormat, written>> /\ packed' = {}
      /\ tree \in Trees /\ written = {}
      /\ options.pack \in P!Schemes /\ options.unpack \in P!Schemes
      /\ archive = [tiles |-> archive.tiles, format |-> archive.format]
      /\ IsFiniteSet(packed) /\ IsFiniteSet(archive.tiles) /\ PackOk /\ IsFiniteSet(packed')
  BY FS_EmptySet DEF P!EndPack, TreeInv
<1>2. CASE ~P!Insertable(packed)
  <2>1. packing' = "failed" /\ archive' = archive
    BY <1>2 DEF P!EndPack
  <2> QED BY <1>1, <2>1 DEF TreeInv
<1>3. CASE P!Insertable(packed)
  <2>1. packing' = "packed" /\ archive' = [tiles |-> archive.tiles \cup packed, format |-> packFormat]
    BY <1>3 DEF P!EndPack
  <2>2. OneEach(archive.tiles)
    BY <1>1 DEF PackOk
  <2>3. OneEach(archive.tiles \cup packed) /\ IsFiniteSet(archive.tiles \cup packed)
    BY <1>1, <1>3, <2>2, OneEachInserted
  <2>4. archive'.tiles = packed \cup archive.tiles /\ archive'.format = packFormat
        /\ archive' = [tiles |-> archive'.tiles, format |-> archive'.format]
        /\ packed' \cup archive'.tiles = packed \cup archive.tiles
    BY <1>1, <2>1
  <2>5. \A f, t : PackedAs(f, t)' <=> PackedAs(f, t)
    BY <1>1 DEF PackedAs, TileOf
  <2>6. OneEach(archive.tiles)' /\ IsFiniteSet(archive.tiles)'
    BY <2>1, <2>3 DEF OneEach
  <2>7. PackOk'
    BY <1>1, <2>1, <2>4, <2>5, <2>6 DEF PackOk
  <2> QED BY <1>1, <2>1, <2>4, <2>6, <2>7 DEF TreeInv
<1> QED BY <1>2, <1>3

LEMMA StartsUnpacking ==
  ASSUME TreeInv, P!StartUnpack
  PROVE  TreeInv'
<1>1. /\ packing = "packed" /\ packing' = IF archive.format = {} THEN "failed" ELSE "unpacking"
      /\ UNCHANGED <<tree, options, walked, packed, packFormat, archive, written>>
  BY DEF P!StartUnpack
<1>2. \A f, t : PackedAs(f, t)' <=> PackedAs(f, t)
  BY <1>1 DEF PackedAs, TileOf
<1>3. PackOk'
  BY <1>1, <1>2 DEF TreeInv, PackOk, OneEach
<1>4. packing' = "unpacking" => UnpackOk'
  BY <1>1 DEF TreeInv, PackOk, UnpackOk
<1> QED BY <1>1, <1>3, <1>4 DEF TreeInv

\* The one format of what was packed.
LEMMA OneFormat ==
  ASSUME PackOk, packFormat # {}
  PROVE  \E f \in walked : packFormat = {f.format}
BY DEF PackOk

LEMMA WritesFile ==
  ASSUME TreeInv, P!WriteFile
  PROVE  TreeInv'
<1>1. /\ packing = "unpacking" /\ UNCHANGED <<tree, options, walked, packed, packFormat, archive>>
      /\ packing' \in {"unpacking", "unpacked"}
      /\ packing' = "unpacked" => P!Cardinality(written') = P!Cardinality(archive.tiles)
  BY DEF P!WriteFile
<1>2. PackOk /\ UnpackOk /\ IsFiniteSet(archive.tiles) /\ archive.format = packFormat
  BY <1>1 DEF TreeInv, PackOk
<1>3. PICK last \in archive.tiles : \E format \in packFormat :
        written' = written \cup {FileOf(last, format)}
  BY <1>2 DEF P!WriteFile, FileOf
<1>4. PICK f \in walked : packFormat = {f.format}
  BY <1>2, OneFormat DEF UnpackOk
<1>5. written' = written \cup {FileOf(last, f.format)}
  BY <1>3, <1>4
<1> DEFINE w == [t \in archive.tiles |-> FileOf(t, f.format)]
           all == {FileOf(t, f.format) : t \in archive.tiles}
<1>6. w \in Surjection(archive.tiles, all)
  BY DEF Surjection
<1>7. IsFiniteSet(all) /\ Cardinality(all) <= Cardinality(archive.tiles)
  <2> HIDE DEF w, all
  <2> QED BY <1>2, <1>6, FS_Surjection
<1>8. written' \in SUBSET all
  BY <1>2, <1>4, <1>5 DEF UnpackOk
<1>9. packing' = "unpacked" => written' = all
  <2> HIDE DEF w, all
  <2>1. /\ Cardinality(written') <= Cardinality(all)
        /\ Cardinality(all) = Cardinality(written') => all = written'
        /\ Cardinality(all) \in Nat /\ Cardinality(written') \in Nat
    BY <1>7, <1>8, FS_Subset, FS_CardinalityType
  <2>2. P!Cardinality(written') = Cardinality(written')
        /\ P!Cardinality(archive.tiles) = Cardinality(archive.tiles)
        /\ Cardinality(archive.tiles) \in Nat
    BY <1>2, FS_CardinalityType DEF P!Cardinality, Cardinality
  <2> QED BY <1>1, <1>7, <2>1, <2>2
<1>10. \A t, format : FileOf(t, format)' = FileOf(t, format)
  BY <1>1 DEF FileOf
<1>11. UnpackOk'
  <2>1. \A v \in written' : \E t \in archive'.tiles, format \in packFormat' : v = FileOf(t, format)'
    BY <1>1, <1>4, <1>8, <1>10
  <2>2. packing' = "unpacked" =>
          \A t \in archive'.tiles, format \in packFormat' : FileOf(t, format)' \in written'
    BY <1>1, <1>4, <1>9, <1>10
  <2> QED BY <1>1, <1>4, <2>1, <2>2 DEF UnpackOk
<1>12. PackOk'
  <2>1. \A u, t : PackedAs(u, t)' <=> PackedAs(u, t)
    BY <1>1 DEF PackedAs, TileOf
  <2> QED BY <1>1, <1>2, <2>1 DEF PackOk, OneEach
<1> QED BY <1>1, <1>11, <1>12 DEF TreeInv

LEMMA TreeStep ==
  ASSUME TreeInv, [P!Next]_treeVars
  PROVE  TreeInv'
<1>1. CASE UNCHANGED treeVars
  <2>1. UNCHANGED <<tree, packing, options, walked, packed, packFormat, archive, written>>
    BY <1>1 DEF treeVars
  <2>2. /\ \A f, t : PackedAs(f, t)' <=> PackedAs(f, t)
        /\ \A t, format : FileOf(t, format)' = FileOf(t, format)
    BY <2>1 DEF PackedAs, TileOf, FileOf
  <2> QED BY <2>1, <2>2 DEF TreeInv, PackOk, UnpackOk, OneEach
<1>2. CASE P!Next
  BY <1>2, Walks, EndsPacking, StartsUnpacking, WritesFile DEF P!Next
<1> QED BY <1>1, <1>2

LEMMA TreeRoundTrips == TreeInv => P!RoundTrips
<1> SUFFICES ASSUME TreeInv, packing \in {"packed", "unpacking", "unpacked"} PROVE P!RoundTrips
  BY DEF P!RoundTrips
<1>1. /\ PackOk /\ packed = {} /\ walked = tree /\ tree \in Trees
      /\ options.pack \in P!Schemes /\ options.unpack \in P!Schemes
  BY DEF TreeInv, PackOk
<1>2. /\ IsFiniteSet(tree)
      /\ \A f \in tree : /\ f.coord = <<f.coord[1], f.coord[2], f.coord[3]>>
                         /\ f.coord[1] \in Nat /\ f.coord[3] \in Nat
      /\ \A f, g \in tree :
           f.name = g.name /\ f.coord = g.coord /\ f.format = g.format => f = g
  BY <1>1, TreesAssumption
<1>3. /\ \A f \in tree : packFormat = {f.format} /\ \E t \in archive.tiles : PackedAs(f, t)
      /\ \A t \in archive.tiles : \E f \in tree : PackedAs(f, t)
      /\ OneEach(archive.tiles)
  BY <1>1 DEF PackOk
<1>4. P!Cardinality({file.format : file \in tree}) <= 1
  <2>1. \A S : P!Cardinality(S) = Cardinality(S)
    BY DEF P!Cardinality, Cardinality
  <2>2. CASE tree = {}
    <3>1. {file.format : file \in tree} = {}
      BY <2>2
    <3> QED BY <2>1, <3>1, FS_EmptySet
  <2>3. CASE tree # {}
    <3>1. PICK f \in tree : TRUE
      BY <2>3
    <3>2. {file.format : file \in tree} = {f.format}
      BY <1>3
    <3>3. Cardinality({f.format}) = 1
      BY FS_Singleton
    <3> QED BY <2>1, <3>2, <3>3
  <2> QED BY <2>2, <2>3
<1>5. P!Cardinality({file.coord : file \in tree}) = P!Cardinality(tree)
  <2>1. ASSUME NEW f \in tree, NEW g \in tree, f.coord = g.coord PROVE f = g
    <3>1. PICK s \in archive.tiles, t \in archive.tiles : PackedAs(f, s) /\ PackedAs(g, t)
      BY <1>3
    <3>2. /\ s.coord = P!Oriented(f.coord, options.pack) /\ s.name = f.name
          /\ t.coord = P!Oriented(g.coord, options.pack) /\ t.name = g.name
      BY <3>1 DEF PackedAs, TileOf
    <3>3. s = t
      BY <1>3, <2>1, <3>2 DEF OneEach
    <3>4. f.format = g.format
      BY <1>3
    <3> QED BY <1>2, <2>1, <3>2, <3>3, <3>4
  <2>2. OneEach(tree)
    BY <2>1 DEF OneEach
  <2>3. {file.coord : file \in tree} = P!CoordsIn(tree)
    BY DEF P!CoordsIn
  <2> QED BY <1>2, <2>2, <2>3, CoordsOfTiles
<1>6. ASSUME packing = "unpacked"
      PROVE  /\ {P!Names(file) : file \in written} =
                  {[P!Names(file) EXCEPT !.coord =
                      IF options.pack = options.unpack THEN @ ELSE P!InvertY(@)] : file \in tree}
             /\ \A file \in written : file.encoding \in {"none", "internal"}
  <2>1. /\ \A w \in written : \E t \in archive.tiles, format \in packFormat : w = FileOf(t, format)
        /\ \A t \in archive.tiles, format \in packFormat : FileOf(t, format) \in written
    BY <1>6 DEF TreeInv, UnpackOk
  <2> DEFINE Expected(file) == [P!Names(file) EXCEPT !.coord =
                                  IF options.pack = options.unpack THEN @ ELSE P!InvertY(@)]
  <2>2. ASSUME NEW f \in tree, NEW t \in archive.tiles, PackedAs(f, t), NEW format \in packFormat
        PROVE  /\ P!Names(FileOf(t, format)) = Expected(f)
               /\ FileOf(t, format).encoding \in {"none", "internal"}
    <3>1. PICK e \in {"gzip", "none", "internal"} : t = TileOf(f, e)
      BY <2>2 DEF PackedAs
    <3>2. /\ t.coord = P!Oriented(f.coord, options.pack) /\ t.encoding = e /\ t.data = f.data
      BY <3>1 DEF TileOf
    <3>3. format = f.format
      BY <1>3
    <3>4. P!Oriented(P!Oriented(f.coord, options.pack), options.unpack) =
            IF options.pack = options.unpack THEN f.coord ELSE P!InvertY(f.coord)
      <4>1. P!InvertY(P!InvertY(f.coord)) = f.coord
        BY <1>2, TurnedTwice, SMTT(30)
      <4> QED BY <1>1, <4>1 DEF P!Oriented, P!Schemes
    <3>5. P!Names(FileOf(t, format)) =
            [coord |-> P!Oriented(P!Oriented(f.coord, options.pack), options.unpack),
             format |-> f.format, data |-> f.data]
      BY <3>2, <3>3 DEF P!Names, FileOf
    <3>6. Expected(f) = [coord |-> IF options.pack = options.unpack THEN f.coord
                                   ELSE P!InvertY(f.coord),
                         format |-> f.format, data |-> f.data]
      BY DEF P!Names
    <3>7. FileOf(t, format).encoding \in {"none", "internal"}
      BY <3>2 DEF FileOf
    <3> QED BY <3>4, <3>5, <3>6, <3>7
  <2> HIDE DEF Expected
  <2>3. \A w \in written : \E f \in tree : P!Names(w) = Expected(f) /\ w.encoding \in {"none", "internal"}
    BY <1>3, <2>1, <2>2
  <2>4. \A f \in tree : \E w \in written : P!Names(w) = Expected(f)
    BY <1>3, <2>1, <2>2
  <2>5. {P!Names(file) : file \in written} = {Expected(file) : file \in tree}
    BY <2>3, <2>4
  <2> QED BY <2>3, <2>5 DEF Expected
<1> QED BY <1>4, <1>5, <1>6 DEF P!RoundTrips

\* FilesFaithful: what transcode and martin-cp have written is true of their sources,
\* and what pack has packed is unpacked as it was, of any files and in any batches.
THEOREM FilesAreFaithful == AllSpec => []FilesFaithful
<1> DEFINE Inv == /\ scene = "transcode" => T!TranscodeInv
                  /\ scene = "copy" => B!CopyInv
                  /\ scene = "tree" => TreeInv
<1>a. T!NullAssumption /\ B!NullAssumption
  BY FilesAssumption DEF F!NullAssumption, F!Md5, F!Md5Empty,
                         T!NullAssumption, T!Md5, T!Md5Empty,
                         B!NullAssumption, B!Md5, B!Md5Empty
<1>b. T!TransformFits /\ T!JobsFit /\ B!CopyFits
  BY FilesAssumption
<1>1. AllInit => Inv
  <2>1. T!Init => T!TranscodeInv
    BY <1>a, <1>b, T!TranscodeInit
  <2>2. B!Init => B!CopyInv
    BY <1>a, <1>b, B!CopyInit
  <2> QED BY <2>1, <2>2, TreeStart DEF AllInit
<1>2. ASSUME Inv, [AllNext]_allVars PROVE Inv'
  <2>1. scene' = scene
    BY <1>2 DEF AllNext, allVars
  <2>2. ASSUME scene = "transcode" PROVE T!TranscodeInv'
    <3>1. [T!Next]_(T!vars)
      BY <1>2, <2>2 DEF AllNext, allVars, transcodeVars, T!vars
    <3>2. T!TranscodeInv
      BY <1>2, <2>2
    <3> QED BY <1>a, <1>b, <3>1, <3>2, T!TranscodeStep
  <2>3. ASSUME scene = "copy" PROVE B!CopyInv'
    <3>1. [B!Next]_(B!vars)
      BY <1>2, <2>3 DEF AllNext, allVars, copyVars, B!vars
    <3>2. B!CopyInv
      BY <1>2, <2>3
    <3> QED BY <1>a, <1>b, <3>1, <3>2, B!CopyStep
  <2>4. ASSUME scene = "tree" PROVE TreeInv'
    <3>1. [P!Next]_treeVars
      BY <1>2, <2>4 DEF AllNext, allVars
    <3> QED BY <1>2, <2>4, <3>1, TreeStep
  <2> QED BY <2>1, <2>2, <2>3, <2>4
<1>3. Inv => FilesFaithful
  <2>1. T!TranscodeInv => T!TranscodedFaithfully
    BY <1>a, <1>b, T!TranscodeIsFaithful
  <2>2. B!CopyInv => B!CopiedFaithfully /\ B!ZoomsEnclose
    BY <1>a, <1>b, B!CopyIsFaithful
  <2> QED BY <2>1, <2>2, TreeRoundTrips DEF FilesFaithful
<1> QED BY <1>1, <1>2, <1>3, PTL DEF AllSpec
=============================================================================
